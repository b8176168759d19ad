------------------------------ MODULE CreditFlow -----------------------------
(***************************************************************************)
(* The two kinds of client in front of MsgWindow. A conforming one follows *)
(* the protocol: it spends the credits it was granted, one MessageId each, *)
(* pipelines requests on an ordered byte stream, may send them a little    *)
(* out of id order, and may cancel. Requests and grants in flight are      *)
(* explicit, so the server's credits_out can be compared with what the     *)
(* client really holds. Any other client sends what MsgWindow allows:      *)
(* everything.                                                             *)
(***************************************************************************)
EXTENDS MsgWindow, Sequences, SequencesExt, FiniteSetsExt

CONSTANTS
  Reorder,        \* how far past its lowest unused id the client may run
  CancelReqs,     \* CreditRequest values the client puts in a CANCEL
  MaxCancels      \* bound: CANCELs sent in one behaviour

VARIABLES
  conforming,     \* the client follows the protocol
  avail,          \* ids the client may still use (one credit each)
  top,            \* the next id a grant will make available
  cancels,        \* CANCELs sent so far
  c2s,            \* requests on the wire, client to server
  s2c             \* grants on the wire, server to client

clientvars == <<avail, top, cancels, c2s, s2c>>
flowvars == <<vars, conforming, clientvars>>

\* Before NEGOTIATE the client holds one credit: MessageId 0.
FlowInit ==
  /\ Init
  /\ conforming \in BOOLEAN
  /\ avail = {0}
  /\ top = 1
  /\ cancels = 0
  /\ c2s = <<>>
  /\ s2c = <<>>

\* The client sends one request, ids in roughly ascending order. Bound: it stops
\* before the ids run out.
ClientSend(id, charge, want) ==
  /\ open
  /\ avail # {}
  /\ id <= Min(avail) + Reorder
  /\ id + MaxOf(charge, 1) <= U64_MAX
  /\ IdRange(id, charge) \subseteq avail
  /\ avail' = avail \ IdRange(id, charge)
  /\ c2s' = Append(c2s, [cmd |-> "request", id |-> id, charge |-> charge, want |-> want])
  /\ UNCHANGED <<vars, top, cancels, s2c>>

\* The client cancels something: the CANCEL costs it no credit and brings it
\* none. Its CreditCharge is the 0 or 1 of a single-credit header.
ClientCancel(want) ==
  /\ open
  /\ cancels < MaxCancels
  /\ \E i \in Ids : executed[i] > 0
  /\ cancels' = cancels + 1
  /\ c2s' = Append(c2s, [cmd |-> "cancel", id |-> 0, charge |-> 1, want |-> want])
  /\ UNCHANGED <<vars, avail, top, s2c>>

\* dispatch runs the request and its response carries the grant.
ServerAccept ==
  /\ c2s # <<>> /\ Head(c2s).cmd = "request"
  /\ LET r == Head(c2s)
     IN /\ Accept(r.id, r.charge, r.want)
        /\ s2c' = Append(s2c, Grant(r.charge, r.want))
  /\ c2s' = Tail(c2s)
  /\ UNCHANGED <<avail, top, cancels>>

\* dispatch refuses the ids; the connection will close.
ServerRefuse ==
  /\ c2s # <<>> /\ Head(c2s).cmd = "request"
  /\ Refuse(Head(c2s).id, Head(c2s).charge)
  /\ c2s' = Tail(c2s)
  /\ UNCHANGED <<avail, top, cancels, s2c>>

\* dispatch runs a CANCEL: the accounting happens, no response is written.
ServerCancel ==
  /\ c2s # <<>> /\ Head(c2s).cmd = "cancel"
  /\ Cancel(Head(c2s).charge, Head(c2s).want)
  /\ c2s' = Tail(c2s)
  /\ UNCHANGED <<avail, top, cancels, s2c>>

\* The end of a frame concerns the server alone.
ServerEndFrame ==
  /\ EndFrame
  /\ UNCHANGED clientvars

\* The client takes a response: the grant opens that many new ids.
ClientRecv ==
  /\ s2c # <<>>
  /\ avail' = avail \cup (top..(top + Head(s2c) - 1))
  /\ top' = top + Head(s2c)
  /\ s2c' = Tail(s2c)
  /\ UNCHANGED <<vars, cancels, c2s>>

ConformingNext ==
  \/ \E id \in Ids, charge \in Charges, want \in CreditReqs : ClientSend(id, charge, want)
  \/ \E want \in CancelReqs : ClientCancel(want)
  \/ ServerAccept
  \/ ServerRefuse
  \/ ServerCancel
  \/ ServerEndFrame
  \/ ClientRecv

FlowNext ==
  /\ UNCHANGED conforming
  /\ \/ conforming /\ ConformingNext
     \/ ~conforming /\ Next /\ UNCHANGED clientvars

FlowSpec == FlowInit /\ [][FlowNext]_flowvars

------------------------------------------------------------------------------
(* Properties *)

ChargesInFlight ==
  SumFunctionOnSet([i \in DOMAIN c2s |-> MaxOf(c2s[i].charge, 1)],
                   {i \in DOMAIN c2s : c2s[i].cmd = "request"})

GrantsInFlight == SumFunction(s2c)

\* credits_out is what its comment calls it, "Credits currently granted to the
\* client": the credits the client holds, plus those its unread requests spend,
\* plus those on their way to it. (Before the first response the client's
\* built-in credit is not counted.)
CreditConservation ==
  conforming /\ (\E i \in Ids : executed[i] > 0) /\ ~close =>
    credits_out = Cardinality(avail) + ChargesInFlight + GrantsInFlight

\* A client that spends only credits it holds is disconnected by the replay window
\* for one reason alone: it left an id unused while more than MSG_SEEN_MAX ids above
\* it ran, and came back to it. consume_msg_ids takes every other request.
ConformingNeverRefused ==
  conforming /\ close => \E i \in Ids : executed[i] = 0
             /\ Cardinality({j \in Ids : j > i /\ executed[j] > 0}) > MSG_SEEN_MAX
=============================================================================
