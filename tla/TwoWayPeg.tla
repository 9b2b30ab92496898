----------------------------- MODULE TwoWayPeg -----------------------------
(***************************************************************************)
(* What an ICS-20 module promises, whatever it keeps its balances in: a    *)
(* two-way peg.  A token that leaves its home goes into escrow; what leaves*)
(* the other end goes out of circulation; a transfer that is refused comes *)
(* back to where it left.  The totals of each token are all there is to    *)
(* see: Ics20Bank and Ics20Cash implement this specification.              *)
(*                                                                         *)
(* An amount may be negative: it moves the other way.  There is enough at  *)
(* each stage for what leaves it only if no amount is.                     *)
(***************************************************************************)
EXTENDS Integers

CONSTANTS
    Token,             \* the tokens, each with its home
    Amounts            \* amounts a transfer may move

PegAmounts == Amounts \subseteq Int
NoneNegative == Amounts \subseteq Nat

VARIABLES
    spendable,         \* held at home by users
    escrow,            \* held at home by the module
    outbound,          \* left home, not yet arrived
    vouchers,          \* in circulation abroad
    homebound          \* left abroad, not yet arrived or refunded

pegVars == <<spendable, escrow, outbound, vouchers, homebound>>

Zero == [t \in Token |-> 0]
PegInit ==
    /\ spendable = Zero /\ escrow = Zero /\ outbound = Zero
    /\ vouchers = Zero /\ homebound = Zero

Plus(f, t, a) == [f EXCEPT ![t] = @ + a]
Minus(f, t, a) == [f EXCEPT ![t] = @ - a]

Covers(f, t, a) == NoneNegative => f[t] >= a

Fund(t, a) ==
    /\ spendable' = Plus(spendable, t, a)
    /\ UNCHANGED <<escrow, outbound, vouchers, homebound>>

Depart(t, a) ==
    /\ Covers(spendable, t, a)
    /\ spendable' = Minus(spendable, t, a)
    /\ escrow' = Plus(escrow, t, a)
    /\ outbound' = Plus(outbound, t, a)
    /\ UNCHANGED <<vouchers, homebound>>

Arrive(t, a) ==
    /\ Covers(outbound, t, a)
    /\ outbound' = Minus(outbound, t, a)
    /\ vouchers' = Plus(vouchers, t, a)
    /\ UNCHANGED <<spendable, escrow, homebound>>

Return(t, a) ==
    /\ Covers(vouchers, t, a)
    /\ vouchers' = Minus(vouchers, t, a)
    /\ homebound' = Plus(homebound, t, a)
    /\ UNCHANGED <<spendable, escrow, outbound>>

Redeem(t, a) ==
    /\ Covers(homebound, t, a)
    /\ homebound' = Minus(homebound, t, a)
    /\ escrow' = Minus(escrow, t, a)
    /\ spendable' = Plus(spendable, t, a)
    /\ UNCHANGED <<outbound, vouchers>>

Refund(t, a) ==
    /\ Covers(homebound, t, a)
    /\ homebound' = Minus(homebound, t, a)
    /\ vouchers' = Plus(vouchers, t, a)
    /\ UNCHANGED <<spendable, escrow, outbound>>

PegNext == \E t \in Token, a \in Amounts :
    Fund(t, a) \/ Depart(t, a) \/ Arrive(t, a) \/ Return(t, a) \/ Redeem(t, a) \/ Refund(t, a)

PegSpec == PegInit /\ [][PegNext]_pegVars

\* If no amount is negative, no stage runs short.
PegTypeOK == \A f \in {spendable, escrow, outbound, vouchers, homebound} : f \in [Token -> Nat]

\* Every voucher, in circulation or on its way, is backed by a token in escrow,
\* and every token in escrow by a voucher.
Pegged == \A t \in Token : escrow[t] = outbound[t] + vouchers[t] + homebound[t]
=============================================================================
