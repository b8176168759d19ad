-------------------------------- MODULE MCWire --------------------------------
(***************************************************************************)
(* What one connection does with the bytes it gets, for TLC: its message   *)
(* ids and credits (CreditFlow), its frames (Frames) and its handshake     *)
(* (Handshake).  A behaviour exercises one of the three; the parts not     *)
(* chosen rest in one of their initial states.                             *)
(***************************************************************************)
EXTENDS CreditFlow, Frames, Handshake

VARIABLE part

wirevars == <<part, flowvars, framevars, shakevars>>

WireInit ==
  /\ part \in {"ids", "frames", "handshake"}
  /\ FlowInit /\ (part # "ids" => conforming)
  /\ FrameInit /\ (part # "frames" => drawn = 0 /\ ~conf.cipher) /\ (conf.oplocks <=> drawn = 1)
  /\ ShakeInit /\ (part # "handshake" => ~prefs.aes256 /\ ~prefs.multichannel)

WireNext ==
  /\ UNCHANGED part
  /\ \/ part = "ids" /\ FlowNext /\ UNCHANGED <<framevars, shakevars>>
     \/ part = "frames" /\ FrameNext /\ UNCHANGED <<flowvars, shakevars>>
     \/ part = "handshake" /\ ShakeNext /\ UNCHANGED <<flowvars, framevars>>

WireSpec == WireInit /\ [][WireNext]_wirevars

------------------------------------------------------------------------------
(* consume_msg_ids' closing loop as the code has it, to compare with Settle *)

\* `while msg_seen.remove(&msg_low) { msg_low += 1 }`
RECURSIVE Absorb(_, _)
Absorb(low, S) ==
  IF low \in S THEN Absorb(low + 1, S \ {low}) ELSE [low |-> low, seen |-> S]

\* `loop { absorb; if len <= MSG_SEEN_MAX { break }; msg_low = first(seen) }`
RECURSIVE Loop(_, _)
Loop(low, S) ==
  LET a == Absorb(low, S)
  IN IF Cardinality(a.seen) <= MSG_SEEN_MAX THEN a ELSE Loop(Min(a.seen), a.seen)

\* The stop that Settle characterises is where the loop of consume_msg_ids
\* stops, with the same ids still remembered, from every state the connection
\* can be in and for every request it can take.
SettleIsTheLoop ==
  part = "ids" =>
    \A id \in Ids, charge \in Charges :
      Consumable(id, charge) =>
        LET S == msg_seen \cup IdRange(id, charge)
            r == Loop(msg_low, S)
        IN /\ Stop(r.low, S)
           /\ \A k \in Ids : msg_low <= k /\ k < r.low => ~Stop(k, S)
           /\ r.seen = {s \in S : s > r.low}

------------------------------------------------------------------------------
(* NEGOTIATE requests: an unknown cipher first, one cipher, none, no preauth *)
(* context, 3.0.2 to 2.1, 3.0 alone, 3.0.2 and 2.1 from another client, 2.1  *)
(* alone, and no dialect the server knows.                                   *)

Offer(dialects, preauth, ciphers, neg) ==
  [dialects |-> dialects, preauth |-> preauth, ciphers |-> ciphers, neg |-> neg]

NegotiateOffers ==
  {Offer({\h0311, \h0302}, TRUE, <<"other", "aes128", "aes256">>, "n1"),
   Offer({\h0311, \h0302}, TRUE, <<"aes256">>, "n1"),
   Offer({\h0311}, TRUE, <<>>, "n1"),
   Offer({\h0311}, FALSE, <<>>, "n1"),
   Offer({\h0302, \h0300, \h0210}, FALSE, <<>>, "n1"),
   Offer({\h0300}, FALSE, <<>>, "n1"),
   Offer({\h0302, \h0210}, FALSE, <<>>, "n2"),
   Offer({\h0210}, FALSE, <<>>, "n1"),
   Offer({\h0100}, FALSE, <<>>, "n1")}
==============================================================================
