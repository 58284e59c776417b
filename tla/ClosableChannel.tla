--------------------------- MODULE ClosableChannel ---------------------------
(***************************************************************************)
(* What a queue between two stages of a pipeline promises: the data of     *)
(* each producer passes once through the channel, in order, to some        *)
(* consumer; a producer closes the channel when it has sent everything;    *)
(* and a consumer is told of the end when, and only when, all producers    *)
(* have closed and nothing is left.  Data is counted in units, so that a   *)
(* producer may cut it into items of any size.                             *)
(***************************************************************************)
EXTENDS Sequences, Naturals

CONSTANTS Producers, Consumers, Source   \* Source[p]: the units p sends

VARIABLES toSend, chan, got, closed, ended
vars == <<toSend, chan, got, closed, ended>>

UnitsOf(s) == {s[i] : i \in 1..Len(s)}

Init ==
  /\ toSend = Source
  /\ chan = <<>>
  /\ got = [c \in Consumers |-> {}]
  /\ closed = {}
  /\ ended = {}

Send(p) ==
  /\ p \notin closed
  /\ \E k \in 1..Len(toSend[p]) :
       /\ chan' = chan \o SubSeq(toSend[p], 1, k)
       /\ toSend' = [toSend EXCEPT ![p] = SubSeq(@, k + 1, Len(@))]
  /\ UNCHANGED <<got, closed, ended>>

Close(p) ==
  /\ p \notin closed /\ toSend[p] = <<>>
  /\ closed' = closed \cup {p}
  /\ UNCHANGED <<toSend, chan, got, ended>>

Receive(c) ==
  /\ c \notin ended
  /\ \E k \in 1..Len(chan) :
       /\ got' = [got EXCEPT ![c] = @ \cup UnitsOf(SubSeq(chan, 1, k))]
       /\ chan' = SubSeq(chan, k + 1, Len(chan))
  /\ UNCHANGED <<toSend, closed, ended>>

End(c) ==
  /\ c \notin ended /\ chan = <<>> /\ closed = Producers
  /\ ended' = ended \cup {c}
  /\ UNCHANGED <<toSend, chan, got, closed>>

Next == \/ \E p \in Producers : Send(p) \/ Close(p)
        \/ \E c \in Consumers : Receive(c) \/ End(c)

ChannelSafety == Init /\ [][Next]_vars

(* Every producer gets to send and to close, the channel is emptied as     *)
(* long as it holds something, and every consumer learns of the end.       *)
Spec == /\ ChannelSafety
        /\ \A p \in Producers : WF_vars(Send(p)) /\ WF_vars(Close(p))
        /\ WF_vars(\E c \in Consumers : Receive(c))
        /\ \A c \in Consumers : WF_vars(End(c))
=============================================================================
