-------------------------- MODULE IbcEstablished ---------------------------
(***************************************************************************)
(* The states of IbcChannel the application modules start from: ChainA has *)
(* opened connection 1 and MaxChan channels over it, with the handshakes   *)
(* of Handler.kt run to their end and nothing sent yet.  Channel i of      *)
(* ChainA faces channel Partner(i) of ChainB, so the two identifiers of a  *)
(* pair differ as soon as there are two channels.                          *)
(***************************************************************************)
EXTENDS IbcChannel

ASSUME ConnectionFits == MaxClient >= 1 /\ MaxConn >= 1

Partner(i) == (MaxChan + 1) - i

\* What a host went through: connOpenInit and connOpenAck on ChainA, connOpenTry
\* and connOpenConfirm on ChainB.
ConnHistory(c) ==
    IF c = ChainA THEN {End("INIT", 1, 1, NoId, 0), End("OPEN", 1, 1, 1, 0)}
                  ELSE {End("TRYOPEN", 1, 1, 1, 0), End("OPEN", 1, 1, 1, 0)}

\* The same for channel i of c, bound to the port given for each host.
ChanHistory(c, i, port, order, version) ==
    LET end(state, cpChan) ==
            Channel(state, port[c], order, port[Other(c)], cpChan, 1, version)
    IN  IF c = ChainA THEN {end("INIT", NoId), end("OPEN", Partner(i))}
                      ELSE {end("TRYOPEN", Partner(i)), end("OPEN", Partner(i))}

OpenEnd(history) == CHOOSE end \in history : end.state = "OPEN"

EstablishedInit ==
    /\ nextClientSequence = [c \in Chain |-> 2]
    /\ nextConnectionSequence = [c \in Chain |-> 2]
    /\ conns = [c \in Chain |-> [i \in ConnId |->
                  IF i = 1 THEN OpenEnd(ConnHistory(c)) ELSE NoConn]]
    /\ connLog = [c \in Chain |-> {1} \X ConnHistory(c)]
    /\ nextChannelSequence = [c \in Chain |-> MaxChan + 1]
    /\ \E port \in [Chain -> Ports], order \in Orders, version \in ChanVersions :
          /\ chans = [c \in Chain |-> [i \in ChanId |->
                        OpenEnd(ChanHistory(c, i, port, order, version))]]
          /\ chanLog = [c \in Chain |-> UNION {{i} \X ChanHistory(c, i, port, order, version)
                                               : i \in ChanId}]
    /\ PacketInit

\* The two hosts from there on.
EstablishedSpec == EstablishedInit /\ [][Next]_vars
=============================================================================
