--------------------------- MODULE HandshakeProofs ---------------------------
(***************************************************************************)
(* Client and server agree on what was negotiated (HandshakeAgrees), for   *)
(* any offers, any number of setups and legs, and any number of altered    *)
(* messages.                                                               *)
(*                                                                         *)
(* The server accepts one NEGOTIATE at most, and from then on its choice   *)
(* and the hash of the exchange stand (ServerOK, WireOK).  The hash of a   *)
(* setup begins, on either side, with the NEGOTIATE exchange as that side  *)
(* saw it (SetupOK), so equal keys mean that both saw the same exchange.   *)
(* While nothing was altered, both sides' hashes differ by no more than    *)
(* the message in flight (HonestOK).                                       *)
(***************************************************************************)
EXTENDS Handshake, TLAPS

\* What goes into a hash.
Accepted == {o \in Offers : Acceptable(o)}
Answers == [dialect : {Chosen(o.dialects) : o \in Accepted},
            cipher : {Unset, "aes256"} \cup {Supported(o.ciphers)[1] : o \in Accepted},
            caps : SUBSET {"large_mtu", "multi_channel", "leasing"}]
Leg == [to : {"server", "client"}, leg : Nat, last : BOOLEAN, key : {Unset}, altered : BOOLEAN]
Item == Offers \cup Answers \cup (Setups \X Leg)

\* r could be an answer of the server.
Plausible(r) == r \in Answers /\ r.dialect # Unset /\ (r.dialect # \h0311 => r.cipher = Unset)

\* The hash of a NEGOTIATE request and its answer, and a hash that begins with it.
Exchange(a, b) == Append(Append(<<>>, a), b)
Begins(h, a, b) == h \in Seq(Item) /\ Len(h) >= 2 /\ h[1] = a /\ h[2] = b

\* h begins with the exchange that the server hashed.
Continues(h) == srv.dialect = \h0311 => Begins(h, srv.preauth[1], srv.preauth[2])

SrvShape ==
  srv = [dialect |-> srv.dialect, cipher |-> srv.cipher, client_neg |-> srv.client_neg,
         server_caps |-> srv.server_caps, preauth |-> srv.preauth,
         setup |-> [s \in Setups |-> [hash |-> srv.setup[s].hash, key |-> srv.setup[s].key]]]

CliShape ==
  cli = [offer |-> cli.offer, told |-> cli.told, hash |-> cli.hash,
         setup |-> [s \in Setups |-> [leg |-> cli.setup[s].leg, hash |-> cli.setup[s].hash,
                                      state |-> cli.setup[s].state]]]

LegsShape ==
  legs = [s \in Setups |-> [to |-> legs[s].to, leg |-> legs[s].leg, last |-> legs[s].last,
                            key |-> legs[s].key, altered |-> legs[s].altered]]

SetupTypeOK(s) ==
  /\ cli.setup[s].leg \in Nat
  /\ cli.setup[s].hash \in Seq(Item) /\ srv.setup[s].hash \in Seq(Item)
  /\ cli.setup[s].state \in {"legs", "validate", "trusted", "failed"}
  /\ legs[s].to \in {"nobody", "server", "client"} /\ legs[s].leg \in Nat
  /\ legs[s].last \in BOOLEAN /\ legs[s].altered \in BOOLEAN

ShakeTypeOK ==
  /\ SrvShape /\ CliShape /\ LegsShape
  /\ wire = [to |-> wire.to, msg |-> wire.msg]
  /\ srv.preauth \in Seq(Item) /\ cli.hash \in Seq(Item)
  /\ alters \in Nat
  /\ \A s \in Setups : SetupTypeOK(s)

\* The server chose as o leads to, and keeps it.
ChoseFor(o) ==
  /\ srv.dialect = Chosen(o.dialects) /\ srv.cipher = CipherFor(o) /\ srv.server_caps = Caps(srv.dialect)
  /\ srv.client_neg = o.neg
  /\ srv.dialect = \h0311 => srv.preauth = Exchange(o, Response(o))

ServerOK == srv.dialect # Unset => \E o \in Accepted : ChoseFor(o)

\* One NEGOTIATE is accepted, and one answer taken.
WireOK ==
  /\ wire.to \in {"nobody", "server", "client"}
  /\ wire.to = "nobody" => wire = Silence
  /\ wire.to # "nobody" => cli.offer \in Offers /\ cli.hash = Append(<<>>, cli.offer) /\ ~Told
  /\ wire.to = "server" => wire.msg \in Offers
  /\ wire.to = "client" => wire.msg = NoAnswer \/ (srv.dialect # Unset /\ Plausible(wire.msg))
  /\ ~Told /\ srv.dialect # Unset => wire.to = "client" /\ wire.msg # NoAnswer
  /\ Told => /\ srv.dialect # Unset /\ Plausible(cli.told)
             /\ cli.offer \in Offers /\ cli.hash = Exchange(cli.offer, cli.told)

Agreed ==
  /\ srv.dialect = Chosen(cli.offer.dialects) /\ cli.told.dialect = srv.dialect
  /\ srv.cipher = CipherFor(cli.offer) /\ cli.told.cipher = srv.cipher
  /\ cli.told.caps = srv.server_caps

\* The setup of s. A message in flight is of the leg the client is at; each side's hash
\* begins with the exchange it saw; the client trusts a session only if both agree.
Progress(s) ==
  LET c == cli.setup[s]
      m == legs[s]
  IN  /\ ~Told => c.leg = 0
      /\ c.leg = 0 => c.state = "legs" /\ m = NoLeg
      /\ m.to = "nobody" => m = NoLeg
      /\ m.to # "nobody" => c.state = "legs" /\ m.leg = c.leg

HashOK(s) ==
  LET c == cli.setup[s]
      m == legs[s]
  IN  /\ c.leg > 0 => Begins(c.hash, cli.offer, cli.told)
      /\ c.leg > 1 \/ (c.leg = 1 /\ m.to # "server") => Continues(srv.setup[s].hash)

KeyOK(s) ==
  LET c == cli.setup[s]
      m == legs[s]
  IN  /\ m.to = "server" \/ ~m.last => m.key = Unset
      /\ m.to = "client" /\ m.last => m.key = Key(s, srv.dialect, srv.setup[s].hash)
      /\ c.state = "validate" => cli.told.dialect # \h0311
      /\ c.state = "trusted" => Agreed

SetupOK(s) == Progress(s) /\ HashOK(s) /\ KeyOK(s)

\* Nothing was altered so far.
HonestOK ==
  alters = 0 =>
    /\ wire.to = "server" => wire.msg = cli.offer
    /\ wire.to = "client" /\ wire.msg # NoAnswer => ChoseFor(cli.offer) /\ wire.msg = Response(cli.offer)
    /\ Told => ChoseFor(cli.offer) /\ cli.told = Response(cli.offer)

\* The hashes of the two sides differ by the message in flight.
HashesAgree(s) ==
  LET c == cli.setup[s]
      m == legs[s]
      h == srv.setup[s].hash
  IN  /\ m.to = "server" /\ m.leg = 1 => c.hash = Append(srv.preauth, <<s, m>>)
      /\ m.to = "server" /\ m.leg # 1 => c.hash = Append(h, <<s, m>>)
      /\ m.to = "client" /\ m.last => h = c.hash
      /\ m.to = "client" /\ ~m.last => h = Append(c.hash, <<s, m>>)
      /\ m.to = "nobody" /\ c.leg > 0 /\ c.state = "legs" => h = c.hash

HonestSetupOK(s) ==
  alters = 0 =>
    /\ legs[s].altered = FALSE /\ cli.setup[s].state # "failed"
    /\ srv.dialect = \h0311 => HashesAgree(s)

ShakeInv ==
  /\ ShakeTypeOK /\ ServerOK /\ WireOK /\ HonestOK
  /\ \A s \in Setups : SetupOK(s) /\ HonestSetupOK(s)

------------------------------------------------------------------------------
(* The operators                                                           *)

\* The answer to an acceptable request is a plausible one.
LEMMA ResponseFields ==
  ASSUME NEW o \in Accepted
  PROVE  /\ Plausible(Response(o)) /\ Response(o) # NoAnswer
         /\ Response(o).dialect = Chosen(o.dialects) /\ Response(o).cipher = CipherFor(o)
         /\ Response(o).caps = Caps(Chosen(o.dialects))
<1>1. Response(o).dialect = Chosen(o.dialects) /\ Response(o).cipher = CipherFor(o)
      /\ Response(o).caps = Caps(Chosen(o.dialects))
  BY Zenon DEF Response
<1>2. Chosen(o.dialects) # Unset /\ Chosen(o.dialects) \in {Chosen(q.dialects) : q \in Accepted}
  BY Zenon DEF Accepted, Acceptable
<1>3. Chosen(o.dialects) # \h0311 => CipherFor(o) = Unset
  BY Zenon DEF CipherFor
<1>4. CipherFor(o) \in {Unset, "aes256"} \cup {Supported(q.ciphers)[1] : q \in Accepted}
  BY DEF CipherFor, Cipher
<1>5. Caps(Chosen(o.dialects)) \in SUBSET {"large_mtu", "multi_channel", "leasing"}
  BY Zenon DEF Caps
<1>6. Response(o) \in Answers
  BY <1>2, <1>4, <1>5, Zenon DEF Answers, Response
<1>7. NoAnswer.dialect = Unset
  BY Zenon DEF NoAnswer
<1>. QED
  BY <1>1, <1>2, <1>3, <1>6, <1>7 DEF Plausible

\* The configuration does not change.
LEMMA SamePrefs ==
  ASSUME prefs' = prefs
  PROVE  /\ \A o : CipherFor(o)' = CipherFor(o)
         /\ \A d : Caps(d)' = Caps(d)
         /\ \A o : Response(o)' = Response(o)
<1>1. \A o : CipherFor(o)' = CipherFor(o)
  BY DEF CipherFor, Cipher
<1>2. \A d : Caps(d)' = Caps(d)
  BY DEF Caps
<1>. QED
  BY <1>1, <1>2, Zenon DEF Response

\* A hash begins as the one it was appended to.
LEMMA BeginsAppend ==
  ASSUME NEW a, NEW b, NEW h, Begins(h, a, b), NEW x \in Item
  PROVE  Begins(Append(h, x), a, b)
BY DEF Begins

\* The hash of the NEGOTIATE exchange begins with it.
LEMMA BeginsExchange ==
  ASSUME NEW a \in Item, NEW b \in Item
  PROVE  Begins(Exchange(a, b), a, b)
<1>1. PICK q : q = Append(<<>>, a)
  BY Zenon
<1>2. q \in Seq(Item) /\ Len(q) = 1 /\ q[1] = a
  BY <1>1
<1>3. PICK h : h = Append(q, b)
  BY Zenon
<1>4. h \in Seq(Item) /\ Len(h) = 2 /\ h[1] = a /\ h[2] = b
  BY <1>2, <1>3
<1>5. Begins(h, a, b)
  BY <1>4 DEF Begins
<1>. QED
  BY <1>1, <1>3, <1>5, Zenon DEF Exchange

\* A message of a setup is something a hash covers.
LEMMA LegItem ==
  ASSUME NEW s \in Setups, NEW m \in Leg
  PROVE  <<s, m>> \in Item
BY Zenon DEF Item

\* The values that stand for no message.
LEMMA NoLegFields ==
  /\ NoLeg.to = "nobody" /\ NoLeg.leg = 0 /\ NoLeg.last = FALSE /\ NoLeg.key = Unset /\ NoLeg.altered = FALSE
  /\ NoLeg.last \in BOOLEAN /\ NoLeg.altered \in BOOLEAN
  /\ Silence.to = "nobody" /\ NoAnswer.dialect = Unset
BY Zenon DEF NoLeg, Silence, NoAnswer

\* A plausible answer is something a hash covers, and chooses a dialect.
LEMMA PlausibleItem ==
  ASSUME NEW r, Plausible(r)
  PROVE  r \in Item /\ r # NoAnswer /\ r.dialect # Unset
BY NoLegFields, Zenon DEF Plausible, Item

------------------------------------------------------------------------------
(* What a step leaves alone                                                *)

CliSetup(x) == x = [leg |-> x.leg, hash |-> x.hash, state |-> x.state]
SrvSetup(x) == x = [hash |-> x.hash, key |-> x.key]
Message(x) == x = [to |-> x.to, leg |-> x.leg, last |-> x.last, key |-> x.key, altered |-> x.altered]

\* What a write to one of the client's setups leaves alone.
LEMMA CliUpdate ==
  ASSUME CliShape, NEW s \in Setups, NEW x, CliSetup(x), cli' = [cli EXCEPT !.setup[s] = x]
  PROVE  /\ CliShape' /\ cli'.setup[s] = x
         /\ cli'.offer = cli.offer /\ cli'.told = cli.told /\ cli'.hash = cli.hash
         /\ \A t \in Setups : t # s => cli'.setup[t] = cli.setup[t]
<1>1. cli' = [offer |-> cli.offer, told |-> cli.told, hash |-> cli.hash, setup |-> [cli.setup EXCEPT ![s] = x]]
  BY Zenon DEF CliShape
<1>2. cli.setup = [t \in Setups |-> [leg |-> cli.setup[t].leg, hash |-> cli.setup[t].hash, state |-> cli.setup[t].state]]
  BY DEF CliShape
<1>3. [cli.setup EXCEPT ![s] = x] = [t \in Setups |-> IF t = s THEN x ELSE cli.setup[t]]
  BY <1>2, Zenon
<1>. DEFINE f == [cli.setup EXCEPT ![s] = x]
<1>4. f[s] = x /\ \A t \in Setups : t # s => f[t] = cli.setup[t]
  BY <1>3, Zenon
<1>5. f = [t \in Setups |-> [leg |-> f[t].leg, hash |-> f[t].hash, state |-> f[t].state]]
  <2>1. \A t \in Setups : f[t] = [leg |-> f[t].leg, hash |-> f[t].hash, state |-> f[t].state]
    <3>. TAKE t \in Setups
    <3>1. CASE t = s
      BY <1>4, <3>1, Zenon DEF CliSetup
    <3>2. CASE t # s
      BY <1>2, <1>4, <3>2, Zenon
    <3>. QED
      BY <3>1, <3>2, Zenon
  <2>2. f = [t \in Setups |-> f[t]]
    BY <1>3, Zenon
  <2>. HIDE DEF f
  <2>. QED
    BY <2>1, <2>2, Zenon
<1>6. cli'.setup = f /\ cli'.offer = cli.offer /\ cli'.told = cli.told /\ cli'.hash = cli.hash
  BY <1>1, Zenon
<1>. HIDE DEF f
<1>. QED
  BY <1>1, <1>4, <1>5, <1>6, Zenon DEF CliShape

\* What a write to one of the server's setups leaves alone.
LEMMA SrvUpdate ==
  ASSUME SrvShape, NEW s \in Setups, NEW x, SrvSetup(x), srv' = [srv EXCEPT !.setup[s] = x]
  PROVE  /\ SrvShape' /\ srv'.setup[s] = x
         /\ srv'.dialect = srv.dialect /\ srv'.cipher = srv.cipher /\ srv'.client_neg = srv.client_neg
         /\ srv'.server_caps = srv.server_caps /\ srv'.preauth = srv.preauth
         /\ \A t \in Setups : t # s => srv'.setup[t] = srv.setup[t]
<1>1. srv' = [dialect |-> srv.dialect, cipher |-> srv.cipher, client_neg |-> srv.client_neg,
              server_caps |-> srv.server_caps, preauth |-> srv.preauth, setup |-> [srv.setup EXCEPT ![s] = x]]
  BY Zenon DEF SrvShape
<1>2. srv.setup = [t \in Setups |-> [hash |-> srv.setup[t].hash, key |-> srv.setup[t].key]]
  BY DEF SrvShape
<1>3. [srv.setup EXCEPT ![s] = x] = [t \in Setups |-> IF t = s THEN x ELSE srv.setup[t]]
  BY <1>2, Zenon
<1>. DEFINE f == [srv.setup EXCEPT ![s] = x]
<1>4. f[s] = x /\ \A t \in Setups : t # s => f[t] = srv.setup[t]
  BY <1>3, Zenon
<1>5. f = [t \in Setups |-> [hash |-> f[t].hash, key |-> f[t].key]]
  <2>1. \A t \in Setups : f[t] = [hash |-> f[t].hash, key |-> f[t].key]
    <3>. TAKE t \in Setups
    <3>1. CASE t = s
      BY <1>4, <3>1, Zenon DEF SrvSetup
    <3>2. CASE t # s
      BY <1>2, <1>4, <3>2, Zenon
    <3>. QED
      BY <3>1, <3>2, Zenon
  <2>2. f = [t \in Setups |-> f[t]]
    BY <1>3, Zenon
  <2>. HIDE DEF f
  <2>. QED
    BY <2>1, <2>2, Zenon
<1>6. /\ srv'.setup = f /\ srv'.dialect = srv.dialect /\ srv'.cipher = srv.cipher
      /\ srv'.client_neg = srv.client_neg /\ srv'.server_caps = srv.server_caps /\ srv'.preauth = srv.preauth
  BY <1>1, Zenon
<1>. HIDE DEF f
<1>. QED
  BY <1>1, <1>4, <1>5, <1>6, Zenon DEF SrvShape

\* What a message of one setup leaves alone.
LEMMA LegsUpdate ==
  ASSUME LegsShape, NEW s \in Setups, NEW x, Message(x), legs' = [legs EXCEPT ![s] = x]
  PROVE  LegsShape' /\ legs'[s] = x /\ \A t \in Setups : t # s => legs'[t] = legs[t]
<1>1. legs' = [t \in Setups |-> IF t = s THEN x ELSE legs[t]]
  BY Zenon DEF LegsShape
<1>2. legs'[s] = x /\ \A t \in Setups : t # s => legs'[t] = legs[t]
  BY <1>1, Zenon
<1>3. \A t \in Setups : legs'[t] = [to |-> legs'[t].to, leg |-> legs'[t].leg, last |-> legs'[t].last,
                                    key |-> legs'[t].key, altered |-> legs'[t].altered]
  <2>. TAKE t \in Setups
  <2>1. CASE t = s
    BY <1>2, <2>1, Zenon DEF Message
  <2>2. CASE t # s
    BY <1>2, <2>2, Zenon DEF LegsShape
  <2>. QED
    BY <2>1, <2>2, Zenon
<1>4. legs' = [t \in Setups |-> legs'[t]]
  BY <1>1, Zenon
<1>. QED
  BY <1>2, <1>3, <1>4, Zenon DEF LegsShape

\* The negotiation is not touched.
NegKept ==
  /\ prefs' = prefs /\ wire' = wire
  /\ srv'.dialect = srv.dialect /\ srv'.cipher = srv.cipher /\ srv'.client_neg = srv.client_neg
  /\ srv'.server_caps = srv.server_caps /\ srv'.preauth = srv.preauth
  /\ cli'.offer = cli.offer /\ cli'.told = cli.told /\ cli'.hash = cli.hash
  /\ alters \in Nat /\ alters' \in Nat /\ alters <= alters'

\* What the server chose, after a step that leaves the negotiation alone.
LEMMA ChoiceKept ==
  ASSUME NegKept, NEW o
  PROVE  ChoseFor(o)' <=> ChoseFor(o)
BY SamePrefs DEF NegKept, ChoseFor

\* The part of the invariant that is about the NEGOTIATE, after such a step.
LEMMA NegotiationKept ==
  ASSUME ServerOK, WireOK, HonestOK, NegKept
  PROVE  ServerOK' /\ WireOK' /\ HonestOK'
<1>1. Told' <=> Told
  BY Zenon DEF Told, NegKept
<1>2. ServerOK'
  BY ChoiceKept, Zenon DEF ServerOK, NegKept
<1>3. WireOK'
  BY <1>1, Zenon DEF WireOK, NegKept
<1>4. ChoseFor(cli.offer)' <=> ChoseFor(cli.offer)
  BY SamePrefs DEF NegKept, ChoseFor
<1>5. Response(cli.offer)' = Response(cli.offer)
  BY SamePrefs, Zenon DEF NegKept, Response
<1>6. HonestOK'
  BY <1>1, <1>4, <1>5 DEF HonestOK, NegKept
<1>. QED
  BY <1>2, <1>3, <1>6, Zenon

\* The part that is about a setup the step does not touch.
LEMMA SetupKept ==
  ASSUME NEW s \in Setups, SetupTypeOK(s), SetupOK(s), HonestSetupOK(s), NegKept,
         cli'.setup[s] = cli.setup[s], srv'.setup[s] = srv.setup[s], legs'[s] = legs[s]
  PROVE  SetupTypeOK(s)' /\ SetupOK(s)' /\ HonestSetupOK(s)'
<1>1. Told' <=> Told
  BY Zenon DEF Told, NegKept
<1>2. CipherFor(cli.offer)' = CipherFor(cli.offer)
  BY SamePrefs DEF NegKept, CipherFor
<1>3. Agreed' <=> Agreed
  BY <1>2, Zenon DEF Agreed, NegKept
<1>4. Continues(srv.setup[s].hash)' <=> Continues(srv.setup[s].hash)
  BY DEF Continues, NegKept
<1>5. SetupTypeOK(s)'
  BY Zenon DEF SetupTypeOK
<1>6. SetupOK(s)'
  <2>1. Progress(s)'
    BY <1>1, <1>3, <1>4, Zenon DEF SetupOK, Progress, NegKept
  <2>2. HashOK(s)'
    BY <1>1, <1>3, <1>4, Zenon DEF SetupOK, HashOK, NegKept
  <2>3. KeyOK(s)'
    BY <1>1, <1>3, <1>4 DEF SetupOK, KeyOK, NegKept
  <2>. QED
    BY <2>1, <2>2, <2>3, Zenon DEF SetupOK
<1>7. HonestSetupOK(s)'
  <2>1. alters' = 0 => alters = 0
    BY DEF NegKept
  <2>2. srv'.preauth = srv.preauth /\ srv'.dialect = srv.dialect
    BY Zenon DEF NegKept
  <2>3. HashesAgree(s) => HashesAgree(s)'
    BY <2>2, Zenon DEF HashesAgree
  <2>. QED
    BY <2>1, <2>2, <2>3 DEF HonestSetupOK
<1>. QED
  BY <1>5, <1>6, <1>7, Zenon

\* A setup that has not begun needs nothing.
LEMMA Unbegun ==
  ASSUME NEW s \in Setups, SetupTypeOK(s), cli.setup[s].leg = 0, cli.setup[s].state = "legs", legs[s] = NoLeg,
         cli'.setup[s] = cli.setup[s], srv'.setup[s] = srv.setup[s], legs'[s] = legs[s]
  PROVE  SetupTypeOK(s)' /\ SetupOK(s)' /\ HonestSetupOK(s)'
<1>1. SetupTypeOK(s)'
  BY Zenon DEF SetupTypeOK
<1>2. SetupOK(s)'
  BY NoLegFields DEF SetupOK, Progress, HashOK, KeyOK
<1>3. HonestSetupOK(s)'
  BY NoLegFields DEF HonestSetupOK, HashesAgree
<1>. QED
  BY <1>1, <1>2, <1>3, Zenon

\* A step of the setup of s, with nothing else touched, preserves the invariant if the
\* part of it that is about s is preserved.
LEMMA OneSetup ==
  ASSUME ShakeInv, NegKept, SrvShape', CliShape', LegsShape', NEW s \in Setups,
         SetupTypeOK(s)', SetupOK(s)', HonestSetupOK(s)',
         \A t \in Setups : t # s => /\ cli'.setup[t] = cli.setup[t] /\ srv'.setup[t] = srv.setup[t]
                                   /\ legs'[t] = legs[t]
  PROVE  ShakeInv'
<1>1. ServerOK' /\ WireOK' /\ HonestOK'
  BY NegotiationKept, Zenon DEF ShakeInv
<1>2. \A t \in Setups : SetupTypeOK(t)' /\ SetupOK(t)' /\ HonestSetupOK(t)'
  <2>. TAKE t \in Setups
  <2>1. CASE t = s
    BY <2>1, Zenon
  <2>2. CASE t # s
    BY <2>2, SetupKept, Zenon DEF ShakeInv, ShakeTypeOK
  <2>. QED
    BY <2>1, <2>2, Zenon
<1>3. ShakeTypeOK'
  BY <1>2, Zenon DEF ShakeInv, ShakeTypeOK, NegKept
<1>. QED
  BY <1>1, <1>2, <1>3, Zenon DEF ShakeInv

------------------------------------------------------------------------------
(* The legs of a setup                                                     *)

\* The client's record of a setup after one more leg.
LEMMA NextLegNamed ==
  ASSUME NEW c, CliSetup(c), NEW n, NEW k, NEW x, x = [c EXCEPT !.leg = n, !.hash = k]
  PROVE  x = [leg |-> n, hash |-> k, state |-> c.state]
BY Zenon DEF CliSetup

\* The same, without a name for the record.
LEMMA NextLeg ==
  ASSUME NEW c, CliSetup(c), NEW n, NEW k
  PROVE  [c EXCEPT !.leg = n, !.hash = k] = [leg |-> n, hash |-> k, state |-> c.state]
BY NextLegNamed, Zenon

\* The client sends a leg.
LEMMA ClientLegStep ==
  ASSUME ShakeInv, NEW s \in Setups, NEW last \in BOOLEAN, ClientLeg(s, last)
  PROVE  ShakeInv'
<1>. DEFINE c == cli.setup[s]
            m == [to |-> "server", leg |-> c.leg + 1, last |-> last, key |-> Unset, altered |-> FALSE]
            h == Append(IF c.leg = 0 THEN cli.hash ELSE c.hash, <<s, m>>)
            x == [leg |-> c.leg + 1, hash |-> h, state |-> c.state]
<1>1. /\ ShakeTypeOK /\ SetupTypeOK(s) /\ SetupOK(s) /\ HonestSetupOK(s) /\ WireOK /\ ServerOK /\ HonestOK
      /\ c.leg \in Nat /\ c.hash \in Seq(Item) /\ cli.hash \in Seq(Item) /\ c.state = "legs"
      /\ legs[s] = NoLeg /\ Told /\ srv.setup[s].hash \in Seq(Item)
  BY Zenon DEF ShakeInv, ShakeTypeOK, SetupTypeOK, ClientLeg
<1>2. c = [leg |-> c.leg, hash |-> c.hash, state |-> c.state]
  BY <1>1 DEF ShakeTypeOK, CliShape
<1>3. m \in Leg /\ <<s, m>> \in Item
  <2>1. c.leg + 1 \in Nat
    BY <1>1
  <2>2. m \in Leg
    <3>. HIDE DEF c
    <3>. QED
      BY <2>1, Zenon DEF Leg
  <2>. HIDE DEF m
  <2>. QED
    BY <2>2, LegItem, Zenon
<1>4. /\ legs' = [legs EXCEPT ![s] = m]
      /\ cli' = [cli EXCEPT !.setup[s] = x]
      /\ prefs' = prefs /\ srv' = srv /\ wire' = wire /\ alters' = alters
  <2>1. \A k : [c EXCEPT !.leg = @ + 1, !.hash = k] = [leg |-> c.leg + 1, hash |-> k, state |-> c.state]
    <3>. HIDE DEF c
    <3>. QED
      BY <1>2, NextLeg, Zenon DEF CliSetup
  <2>2. [c EXCEPT !.leg = @ + 1, !.hash = Hash(IF c.leg = 0 THEN cli.hash ELSE @, <<s, m>>)]
          = [c EXCEPT !.leg = @ + 1, !.hash = h]
    BY Zenon DEF Hash
  <2>3. cli' = [cli EXCEPT !.setup[s] = [c EXCEPT !.leg = @ + 1,
                                          !.hash = Hash(IF c.leg = 0 THEN cli.hash ELSE @, <<s, m>>)]]
    BY Zenon DEF ClientLeg
  <2>4. cli' = [cli EXCEPT !.setup[s] = x]
    BY <2>1, <2>2, <2>3, Zenon
  <2>. QED
    BY <2>4, Zenon DEF ClientLeg
<1>5. CliSetup(x) /\ Message(m)
  BY Zenon DEF CliSetup, Message
<1>6. m.to = "server" /\ m.leg = c.leg + 1 /\ m.last = last /\ m.key = Unset /\ m.altered = FALSE
      /\ m.altered \in BOOLEAN
  BY Zenon
<1>7. x.leg = c.leg + 1 /\ x.hash = h /\ x.state = "legs" /\ c.leg + 1 \in Nat
  <2>1. c.leg + 1 \in Nat /\ c.state = "legs"
    BY <1>1
  <2>. HIDE DEF c, h
  <2>. QED
    BY <2>1, Zenon
<1>8. Begins(h, cli.offer, cli.told)
  <2>1. CASE c.leg = 0
    <3>1. cli.hash = Exchange(cli.offer, cli.told) /\ cli.offer \in Item /\ cli.told \in Item
      BY <1>1, PlausibleItem, Zenon DEF WireOK, Item
    <3>2. Begins(cli.hash, cli.offer, cli.told)
      BY <3>1, BeginsExchange, Zenon
    <3>. HIDE DEF m
    <3>. QED
      BY <1>3, <2>1, <3>2, BeginsAppend, Zenon
  <2>2. CASE c.leg # 0
    <3>1. Begins(c.hash, cli.offer, cli.told)
      BY <1>1, <2>2 DEF SetupOK, Progress, HashOK, KeyOK
    <3>. HIDE DEF m
    <3>. QED
      BY <1>3, <2>2, <3>1, BeginsAppend, Zenon
  <2>. QED
    BY <2>1, <2>2, Zenon
<1>. HIDE DEF m, x, h
<1>9. /\ LegsShape' /\ legs'[s] = m /\ \A t \in Setups : t # s => legs'[t] = legs[t]
  BY <1>1, <1>4, <1>5, LegsUpdate, Zenon DEF ShakeTypeOK
<1>10. /\ CliShape' /\ cli'.setup[s] = x
       /\ cli'.offer = cli.offer /\ cli'.told = cli.told /\ cli'.hash = cli.hash
       /\ \A t \in Setups : t # s => cli'.setup[t] = cli.setup[t]
  BY <1>1, <1>4, <1>5, CliUpdate, Zenon DEF ShakeTypeOK
<1>11. NegKept /\ SrvShape'
  BY <1>1, <1>4, <1>10 DEF NegKept, ShakeTypeOK, SrvShape
<1>12. h \in Seq(Item)
  BY <1>8, Zenon DEF Begins
<1>13. SetupTypeOK(s)'
  BY <1>1, <1>4, <1>6, <1>7, <1>9, <1>10, <1>12, Zenon DEF SetupTypeOK
<1>14. SetupOK(s)'
  <2>1. c.leg > 0 => Continues(srv.setup[s].hash)
    BY <1>1, NoLegFields DEF SetupOK, Progress, HashOK, KeyOK
  <2>2. Continues(srv.setup[s].hash)' <=> Continues(srv.setup[s].hash)
    BY <1>4 DEF Continues
  <2>3. Told'
    BY <1>1, <1>10, Zenon DEF Told
  <2>4. c.leg + 1 > 0 /\ c.leg + 1 # 0 /\ (c.leg + 1 > 1 => c.leg > 0)
    BY <1>1
  <2>. HIDE DEF c
  <2>. QED
    <3>1. Progress(s)'
      BY <1>6, <1>7, <1>8, <1>9, <1>10, <2>1, <2>2, <2>3, <2>4, Zenon DEF SetupOK, Progress
    <3>2. HashOK(s)'
      <4>1. cli'.setup[s].leg > 1 => Continues(srv.setup[s].hash)'
        BY <1>7, <1>10, <2>1, <2>2, <2>4, Zenon
      <4>. QED
        BY <1>6, <1>7, <1>8, <1>9, <1>10, <4>1, Zenon DEF HashOK
    <3>3. KeyOK(s)'
      BY <1>6, <1>7, <1>9, <1>10, Zenon DEF KeyOK
    <3>. QED
      BY <3>1, <3>2, <3>3, Zenon DEF SetupOK
<1>15. HonestSetupOK(s)'
  <2>1. ASSUME alters = 0, srv.dialect = \h0311
        PROVE  cli.hash = srv.preauth
    <3>1. cli.hash = Exchange(cli.offer, cli.told)
      BY <1>1, Zenon DEF WireOK
    <3>2. ChoseFor(cli.offer) /\ cli.told = Response(cli.offer)
      BY <1>1, <2>1, Zenon DEF HonestOK
    <3>. QED
      <4>1. srv.preauth = Exchange(cli.offer, Response(cli.offer))
        BY <2>1, <3>2, Zenon DEF ChoseFor
      <4>. QED
        BY <3>1, <3>2, <4>1, Zenon
  <2>2. alters = 0 /\ srv.dialect = \h0311 /\ c.leg > 0 => c.hash = srv.setup[s].hash
    BY <1>1, NoLegFields DEF HonestSetupOK, HashesAgree
  <2>3. /\ c.leg + 1 = 1 => h = Append(cli.hash, <<s, m>>)
        /\ c.leg + 1 # 1 => h = Append(c.hash, <<s, m>>) /\ c.leg > 0
    <3>1. c.leg \in Nat
      BY <1>1, Zenon
    <3>2. c.leg = 0 => h = Append(cli.hash, <<s, m>>)
      BY Zenon DEF h
    <3>3. c.leg # 0 => h = Append(c.hash, <<s, m>>)
      BY Zenon DEF h
    <3>. HIDE DEF c
    <3>. QED
      BY <3>1, <3>2, <3>3
  <2>. HIDE DEF c
  <2>4. alters = 0 /\ srv.dialect = \h0311 => HashesAgree(s)'
    <3>1. ASSUME alters = 0, srv.dialect = \h0311
          PROVE  /\ m.leg = 1 => h = Append(srv.preauth, <<s, m>>)
                 /\ m.leg # 1 => h = Append(srv.setup[s].hash, <<s, m>>)
      <4>1. CASE m.leg = 1
        <5>1. h = Append(cli.hash, <<s, m>>)
          BY <1>6, <2>3, <4>1, Zenon
        <5>. QED
          BY <2>1, <3>1, <4>1, <5>1, Zenon
      <4>2. CASE m.leg # 1
        <5>1. c.leg + 1 # 1
          BY <1>6, <4>2, Zenon
        <5>2. h = Append(c.hash, <<s, m>>) /\ c.leg > 0
          BY <2>3, <5>1, Zenon
        <5>3. c.hash = srv.setup[s].hash
          BY <2>2, <3>1, <5>2, Zenon
        <5>. QED
          BY <4>2, <5>2, <5>3, Zenon
      <4>. QED
        BY <4>1, <4>2, Zenon
    <3>2. /\ legs'[s] = m /\ m.to = "server" /\ cli'.setup[s].hash = h
          /\ srv'.preauth = srv.preauth /\ srv'.setup[s].hash = srv.setup[s].hash
      BY <1>4, <1>6, <1>7, <1>9, <1>10, Zenon
    <3>. QED
      BY <3>1, <3>2 DEF HashesAgree
  <2>. QED
    BY <1>4, <1>6, <1>7, <1>9, <1>10, <2>4, Zenon DEF HonestSetupOK
<1>. QED
  BY <1>4, <1>9, <1>10, <1>11, <1>13, <1>14, <1>15, OneSetup, Zenon

\* The server answers one: session_setup.
LEMMA SetupLegStep ==
  ASSUME ShakeInv, NEW s \in Setups, SetupLeg(s)
  PROVE  ShakeInv'
<1>. DEFINE c == cli.setup[s]
            m == legs[s]
            h == Append(IF m.leg = 1 THEN srv.preauth ELSE srv.setup[s].hash, <<s, m>>)
            k == IF m.last THEN Key(s, srv.dialect, h) ELSE Unset
            r == [m EXCEPT !.to = "client", !.key = k, !.altered = FALSE]
            g == IF srv.dialect # \h0311 THEN <<>> ELSE IF m.last THEN h ELSE Append(h, <<s, r>>)
            x == [key |-> k, hash |-> g]
<1>1. /\ ShakeTypeOK /\ SetupTypeOK(s) /\ SetupOK(s) /\ HonestSetupOK(s) /\ WireOK /\ ServerOK
      /\ m.to = "server" /\ c.state = "legs" /\ m.key = Unset /\ m.leg = c.leg /\ c.leg \in Nat
      /\ srv.preauth \in Seq(Item) /\ srv.setup[s].hash \in Seq(Item) /\ m.last \in BOOLEAN
      /\ m.altered \in BOOLEAN
  BY DEF ShakeInv, ShakeTypeOK, SetupTypeOK, SetupLeg, SetupOK, Progress, HashOK, KeyOK
<1>2. c.leg # 0 /\ Told /\ Begins(c.hash, cli.offer, cli.told)
  BY <1>1, NoLegFields DEF SetupOK, Progress, HashOK, KeyOK
<1>3. Message(m)
  BY <1>1, Zenon DEF Message, ShakeTypeOK, LegsShape
<1>4. /\ legs' = [legs EXCEPT ![s] = r]
      /\ srv' = [srv EXCEPT !.setup[s] = x]
      /\ prefs' = prefs /\ cli' = cli /\ wire' = wire /\ alters' = alters
  BY Zenon DEF SetupLeg, Hash
<1>5. SrvSetup(x) /\ x.key = k /\ x.hash = g
  <2>. HIDE DEF k, g
  <2>. QED
    BY Zenon DEF SrvSetup
<1>6. m \in Leg /\ <<s, m>> \in Item
  <2>1. m = [to |-> "server", leg |-> m.leg, last |-> m.last, key |-> Unset, altered |-> m.altered]
    BY <1>1, <1>3, Zenon DEF Message
  <2>. HIDE DEF m, c
  <2>2. m \in Leg
    BY <1>1, <2>1, Zenon DEF Leg
  <2>. QED
    BY <2>2, LegItem, Zenon
<1>a. PICK i \in Item : i = <<s, m>>
  BY <1>6, Zenon
<1>b. h = Append(IF m.leg = 1 THEN srv.preauth ELSE srv.setup[s].hash, i)
  BY <1>a, Zenon
<1>7. /\ m.leg = 1 => h = Append(srv.preauth, i)
      /\ m.leg # 1 => h = Append(srv.setup[s].hash, i)
  <2>. HIDE DEF h, m
  <2>. QED
    BY <1>b, Zenon
<1>8. /\ m.last => k = Key(s, srv.dialect, h)
      /\ ~m.last => k = Unset
  BY Zenon
<1>9. /\ srv.dialect # \h0311 => g = <<>>
      /\ srv.dialect = \h0311 /\ m.last => g = h
      /\ srv.dialect = \h0311 /\ ~m.last => g = Append(h, <<s, r>>)
  <2>. HIDE DEF h, r, m
  <2>1. srv.dialect # \h0311 => g = <<>>
    BY Zenon
  <2>2. srv.dialect = \h0311 /\ m.last => g = h
    OBVIOUS
  <2>3. srv.dialect = \h0311 /\ ~m.last => g = Append(h, <<s, r>>)
    OBVIOUS
  <2>. QED
    BY <2>1, <2>2, <2>3, Zenon
<1>10. r = [m EXCEPT !.to = "client", !.key = k, !.altered = FALSE]
  BY Zenon
<1>. HIDE DEF k, r, g, x, h, m
<1>11. /\ Message(r) /\ r.to = "client" /\ r.leg = m.leg /\ r.last = m.last /\ r.key = k
       /\ r.altered = FALSE /\ r.altered \in BOOLEAN
  BY <1>3, <1>10, Zenon DEF Message
<1>12. ~m.last => <<s, r>> \in Item
  <2>1. r = [to |-> "client", leg |-> m.leg, last |-> m.last, key |-> k, altered |-> r.altered]
    BY <1>11, Zenon DEF Message
  <2>2. ~m.last => r \in Leg
    BY <1>1, <1>8, <1>11, <2>1, Zenon DEF Leg
  <2>. QED
    BY <2>2, LegItem, Zenon
<1>13. h \in Seq(Item)
  <2>1. srv.preauth \in Seq(Item) /\ srv.setup[s].hash \in Seq(Item)
    BY <1>1, Zenon
  <2>2. Append(srv.preauth, i) \in Seq(Item) /\ Append(srv.setup[s].hash, i) \in Seq(Item)
    BY <2>1
  <2>. QED
    BY <1>7, <2>2, Zenon
<1>14. srv.dialect = \h0311 => Begins(h, srv.preauth[1], srv.preauth[2])
  <2>. SUFFICES ASSUME srv.dialect = \h0311
                PROVE  Begins(h, srv.preauth[1], srv.preauth[2])
    BY Zenon
  <2>1. CASE m.leg = 1
    <3>1. PICK o \in Accepted : ChoseFor(o)
      BY <1>1, <1>2, Zenon DEF WireOK, ServerOK
    <3>2. srv.preauth = Exchange(o, Response(o)) /\ o \in Item /\ Response(o) \in Item
      BY <3>1, ResponseFields, PlausibleItem DEF ChoseFor, Item, Accepted
    <3>3. srv.preauth[1] = o /\ srv.preauth[2] = Response(o)
      <4>1. PICK a \in Item : a = Response(o)
        BY <3>2, Zenon
      <4>2. Begins(Exchange(o, a), o, a)
        BY <3>2, BeginsExchange, Zenon
      <4>. QED
        BY <3>2, <4>1, <4>2, Zenon DEF Begins
    <3>4. Begins(srv.preauth, srv.preauth[1], srv.preauth[2])
      BY <3>2, <3>3, BeginsExchange
    <3>5. Begins(Append(srv.preauth, i), srv.preauth[1], srv.preauth[2])
      BY <3>4, BeginsAppend
    <3>. QED
      BY <1>7, <2>1, <3>5, Zenon
  <2>2. CASE m.leg # 1
    <3>1. c.leg > 1
      BY <1>1, <1>2, <2>2
    <3>2. Begins(srv.setup[s].hash, srv.preauth[1], srv.preauth[2])
      BY <1>1, <3>1, Zenon DEF SetupOK, Progress, HashOK, KeyOK, Continues
    <3>3. Begins(Append(srv.setup[s].hash, i), srv.preauth[1], srv.preauth[2])
      BY <3>2, BeginsAppend
    <3>4. h = Append(srv.setup[s].hash, i)
      BY <1>7, <2>2, Zenon
    <3>. QED
      BY <3>3, <3>4, Zenon
  <2>. QED
    BY <2>1, <2>2, Zenon
<1>15. g \in Seq(Item) /\ (srv.dialect = \h0311 => Begins(g, srv.preauth[1], srv.preauth[2]))
  <2>1. CASE srv.dialect # \h0311
    <3>1. <<>> \in Seq(Item)
      OBVIOUS
    <3>. QED
      BY <1>9, <2>1, <3>1, Zenon
  <2>2. CASE srv.dialect = \h0311 /\ m.last
    BY <1>9, <1>13, <1>14, <2>2
  <2>3. CASE srv.dialect = \h0311 /\ ~m.last
    <3>1. PICK j \in Item : j = <<s, r>>
      BY <1>12, <2>3
    <3>2. g = Append(h, j)
      BY <1>9, <2>3, <3>1, Zenon
    <3>. QED
      BY <1>13, <1>14, <2>3, <3>2, BeginsAppend
  <2>. QED
    BY <1>1, <2>1, <2>2, <2>3
<1>16. m.last => k = Key(s, srv.dialect, g)
  <2>1. CASE srv.dialect = \h0311
    BY <1>8, <1>9, <2>1
  <2>2. CASE srv.dialect # \h0311
    BY <1>8, <2>2 DEF Key
  <2>. QED
    BY <2>1, <2>2, Zenon
<1>17. /\ LegsShape' /\ legs'[s] = r /\ \A t \in Setups : t # s => legs'[t] = legs[t]
  BY <1>1, <1>4, <1>11, LegsUpdate, Zenon DEF ShakeTypeOK
<1>18. /\ SrvShape' /\ srv'.setup[s] = x
       /\ srv'.dialect = srv.dialect /\ srv'.cipher = srv.cipher /\ srv'.client_neg = srv.client_neg
       /\ srv'.server_caps = srv.server_caps /\ srv'.preauth = srv.preauth
       /\ \A t \in Setups : t # s => srv'.setup[t] = srv.setup[t]
  BY <1>1, <1>4, <1>5, SrvUpdate, Zenon DEF ShakeTypeOK
<1>19. NegKept /\ CliShape'
  BY <1>1, <1>4, <1>18 DEF NegKept, ShakeTypeOK, CliShape
<1>20. SetupTypeOK(s)'
  BY <1>1, <1>4, <1>5, <1>11, <1>15, <1>17, <1>18, Zenon DEF SetupTypeOK
<1>21. SetupOK(s)'
  <2>1. Continues(srv.setup[s].hash)'
    BY <1>5, <1>15, <1>18 DEF Continues
  <2>2. Told'
    BY <1>2, <1>4, Zenon DEF Told
  <2>3. cli'.setup[s] = c /\ cli'.offer = cli.offer /\ cli'.told = cli.told
    BY <1>4, Zenon
  <2>4. ~r.last => r.key = Unset
    BY <1>1, <1>8, <1>11, Zenon
  <2>5. r.last => r.key = Key(s, srv.dialect, g)
    BY <1>1, <1>11, <1>16, Zenon
  <2>. HIDE DEF c
  <2>. QED
    <3>1. Progress(s)'
      BY <1>1, <1>2, <1>5, <1>11, <1>17, <1>18, <2>1, <2>2, <2>3, <2>4, <2>5, Zenon DEF SetupOK, Progress
    <3>2. HashOK(s)'
      BY <1>1, <1>2, <1>5, <1>11, <1>17, <1>18, <2>1, <2>2, <2>3, <2>4, <2>5, Zenon DEF SetupOK, HashOK
    <3>3. KeyOK(s)'
      BY <1>1, <1>2, <1>5, <1>11, <1>17, <1>18, <2>1, <2>2, <2>3, <2>4, <2>5 DEF SetupOK, KeyOK
    <3>. QED
      BY <3>1, <3>2, <3>3, Zenon DEF SetupOK
<1>22. HonestSetupOK(s)'
  <2>1. alters = 0 /\ srv.dialect = \h0311 => c.hash = h
    <3>1. ASSUME alters = 0, srv.dialect = \h0311
          PROVE  /\ m.leg = 1 => c.hash = Append(srv.preauth, <<s, m>>)
                 /\ m.leg # 1 => c.hash = Append(srv.setup[s].hash, <<s, m>>)
      BY <1>1, <3>1, Zenon DEF HonestSetupOK, HashesAgree, m
    <3>2. ASSUME alters = 0, srv.dialect = \h0311
          PROVE  /\ m.leg = 1 => c.hash = Append(srv.preauth, i)
                 /\ m.leg # 1 => c.hash = Append(srv.setup[s].hash, i)
      BY <1>a, <3>1, <3>2, Zenon
    <3>. HIDE DEF c
    <3>3. CASE m.leg = 1
      BY <1>7, <3>2, <3>3, Zenon
    <3>4. CASE m.leg # 1
      <4>1. h = Append(srv.setup[s].hash, i)
        BY <1>7, <3>4, Zenon
      <4>2. ASSUME alters = 0, srv.dialect = \h0311
            PROVE  c.hash = Append(srv.setup[s].hash, i)
        BY <3>2, <3>4, <4>2, Zenon
      <4>. QED
        BY <4>1, <4>2, Zenon
    <3>. QED
      BY <3>3, <3>4, Zenon
  <2>2. cli'.setup[s] = c
    BY <1>4, Zenon
  <2>. HIDE DEF c
  <2>3. alters = 0 /\ srv.dialect = \h0311 => HashesAgree(s)'
    BY <1>1, <1>5, <1>9, <1>11, <1>17, <1>18, <2>1, <2>2 DEF HashesAgree
  <2>. QED
    BY <1>1, <1>4, <1>11, <1>17, <1>18, <2>2, <2>3 DEF HonestSetupOK
<1>. QED
  BY <1>4, <1>17, <1>18, <1>19, <1>20, <1>21, <1>22, OneSetup, Zenon

\* A key of 3.1.1 tells the hash it was made of.
LEMMA KeyTells ==
  ASSUME NEW s, NEW d, NEW g, NEW h, Key(s, d, g) = Key(s, \h0311, h)
  PROVE  d = \h0311 /\ g = h
<1>1. Key(s, \h0311, h).family = "3.1.1" /\ Key(s, \h0311, h).hash = h
  BY DEF Key, Family
<1>2. /\ Key(s, d, g).family = "3.1.1" => d = \h0311
      /\ Key(s, d, g).hash = IF d = \h0311 THEN g ELSE <<>>
  BY DEF Key, Family
<1>. QED
  BY <1>1, <1>2

\* The client and the server that hashed the same exchange agree.
LEMMA SameExchange ==
  ASSUME ServerOK, WireOK, Told, srv.dialect = \h0311, NEW h,
         Begins(h, cli.offer, cli.told), Begins(h, srv.preauth[1], srv.preauth[2])
  PROVE  Agreed
<1>1. PICK o \in Accepted : ChoseFor(o)
  BY Zenon DEF WireOK, ServerOK
<1>2. srv.preauth = Exchange(o, Response(o))
  BY <1>1, Zenon DEF ChoseFor
<1>3. srv.preauth[1] = o /\ srv.preauth[2] = Response(o)
  <2>1. o \in Item /\ Response(o) \in Item
    BY ResponseFields, PlausibleItem DEF Item, Accepted
  <2>. QED
    <3>1. PICK r : r = Response(o)
      BY Zenon
    <3>2. Begins(Exchange(o, r), o, r)
      BY <2>1, <3>1, BeginsExchange, Zenon
    <3>. QED
      BY <1>2, <3>1, <3>2, Zenon DEF Begins
<1>4. cli.offer = o /\ cli.told = Response(o)
  BY <1>3 DEF Begins
<1>. QED
  BY <1>1, <1>4, ResponseFields DEF ChoseFor, Agreed

\* The client's record of a setup after a verdict.
LEMMA NewState ==
  ASSUME NEW c, CliSetup(c), NEW k, NEW x, x = [c EXCEPT !.state = k]
  PROVE  CliSetup(x) /\ x.leg = c.leg /\ x.hash = c.hash /\ x.state = k
BY Zenon DEF CliSetup

\* The client's record of a setup after one more message was hashed.
LEMMA NewHash ==
  ASSUME NEW c, CliSetup(c), NEW k, NEW x, x = [c EXCEPT !.hash = k]
  PROVE  CliSetup(x) /\ x.leg = c.leg /\ x.hash = k /\ x.state = c.state
BY Zenon DEF CliSetup

\* What the client makes of the last answer.
Verdict(s) ==
  IF ~(~legs[s].altered /\ legs[s].key = Key(s, cli.told.dialect, cli.setup[s].hash)) THEN "failed"
  ELSE IF cli.told.dialect = \h0311 THEN "trusted" ELSE "validate"

\* The client trusts only what agrees, and gives up only what was altered.
LEMMA VerdictOK ==
  ASSUME ShakeInv, NEW s \in Setups, legs[s].to = "client", legs[s].last
  PROVE  /\ Verdict(s) \in {"failed", "trusted", "validate"}
         /\ Verdict(s) = "trusted" => Agreed
         /\ Verdict(s) = "validate" => cli.told.dialect # \h0311
         /\ Verdict(s) = "failed" => alters # 0
<1>. DEFINE c == cli.setup[s]
            g == srv.setup[s].hash
<1>1. /\ SetupTypeOK(s) /\ SetupOK(s) /\ HonestSetupOK(s) /\ WireOK /\ ServerOK /\ HonestOK
      /\ legs[s].key = Key(s, srv.dialect, g) /\ legs[s].leg = c.leg /\ c.leg \in Nat /\ legs[s] # NoLeg
  BY NoLegFields DEF ShakeInv, ShakeTypeOK, SetupTypeOK, SetupOK, Progress, HashOK, KeyOK
<1>2. c.leg > 0 /\ Told /\ Begins(c.hash, cli.offer, cli.told)
  BY <1>1 DEF SetupOK, Progress, HashOK, KeyOK
<1>3. srv.dialect = \h0311 => Begins(g, srv.preauth[1], srv.preauth[2])
  BY <1>1, <1>2 DEF SetupOK, Progress, HashOK, KeyOK, Continues
<1>4. Verdict(s) = "trusted" => cli.told.dialect = \h0311 /\ legs[s].key = Key(s, cli.told.dialect, c.hash)
  BY DEF Verdict
<1>5. Verdict(s) = "trusted" => Agreed
  <2>. SUFFICES ASSUME Verdict(s) = "trusted"
                PROVE  Agreed
    BY Zenon
  <2>1. Key(s, srv.dialect, g) = Key(s, \h0311, c.hash)
    BY <1>1, <1>4
  <2>2. srv.dialect = \h0311 /\ g = c.hash
    <3>. HIDE DEF c, g
    <3>. QED
      BY <2>1, KeyTells
  <2>. QED
    BY <1>1, <1>2, <1>3, <2>2, SameExchange, Zenon
<1>6. alters = 0 => Verdict(s) # "failed"
  <2>. SUFFICES ASSUME alters = 0
                PROVE  Verdict(s) # "failed"
    BY Zenon
  <2>1. legs[s].altered = FALSE /\ (srv.dialect = \h0311 => g = c.hash)
    BY <1>1, Zenon DEF HonestSetupOK, HashesAgree
  <2>2. cli.offer \in Offers /\ ChoseFor(cli.offer) /\ cli.told = Response(cli.offer)
    BY <1>1, <1>2, Zenon DEF HonestOK, WireOK
  <2>3. cli.told.dialect = srv.dialect
    BY <2>2 DEF ChoseFor, Response
  <2>4. Key(s, srv.dialect, g) = Key(s, srv.dialect, c.hash)
    BY <2>1 DEF Key
  <2>. QED
    BY <1>1, <2>1, <2>3, <2>4 DEF Verdict
<1>7. Verdict(s) = "validate" => cli.told.dialect # \h0311
  BY Zenon DEF Verdict
<1>8. Verdict(s) \in {"failed", "trusted", "validate"}
  BY DEF Verdict
<1>. QED
  BY <1>5, <1>6, <1>7, <1>8, Zenon

\* The client's part of a step of s.
LEMMA ClientStep ==
  ASSUME ShakeInv, NEW s \in Setups, NEW x, CliSetup(x), cli' = [cli EXCEPT !.setup[s] = x],
         prefs' = prefs, srv' = srv, wire' = wire, alters' = alters,
         LegsShape', \A t \in Setups : t # s => legs'[t] = legs[t],
         cli'.setup[s] = x => SetupTypeOK(s)' /\ SetupOK(s)' /\ HonestSetupOK(s)'
  PROVE  ShakeInv'
<1>1. /\ CliShape' /\ cli'.setup[s] = x
      /\ cli'.offer = cli.offer /\ cli'.told = cli.told /\ cli'.hash = cli.hash
      /\ \A t \in Setups : t # s => cli'.setup[t] = cli.setup[t]
  BY CliUpdate, Zenon DEF ShakeInv, ShakeTypeOK
<1>2. NegKept /\ SrvShape'
  BY <1>1 DEF NegKept, ShakeInv, ShakeTypeOK, SrvShape
<1>. QED
  BY <1>1, <1>2, OneSetup, Zenon

\* The client takes an answer.
LEMMA ClientAnsweredStep ==
  ASSUME ShakeInv, NEW s \in Setups, ClientAnswered(s)
  PROVE  ShakeInv'
<1>. DEFINE c == cli.setup[s]
            m == legs[s]
<1>1. /\ ShakeTypeOK /\ SetupTypeOK(s) /\ SetupOK(s) /\ HonestSetupOK(s) /\ WireOK /\ ServerOK
      /\ m.to = "client" /\ c.state = "legs" /\ m.leg = c.leg /\ c.leg \in Nat
      /\ m.last \in BOOLEAN /\ m.altered \in BOOLEAN /\ c.hash \in Seq(Item)
  BY DEF ShakeInv, ShakeTypeOK, SetupTypeOK, ClientAnswered, SetupOK, Progress, HashOK, KeyOK
<1>2. c.leg > 0 /\ Told /\ Begins(c.hash, cli.offer, cli.told) /\ Continues(srv.setup[s].hash)
  BY <1>1, NoLegFields DEF SetupOK, Progress, HashOK, KeyOK
<1>3. Message(m) /\ CliSetup(c)
  BY <1>1 DEF Message, CliSetup, ShakeTypeOK, LegsShape, CliShape
<1>4. /\ legs' = [legs EXCEPT ![s] = NoLeg]
      /\ prefs' = prefs /\ srv' = srv /\ wire' = wire /\ alters' = alters
  BY Zenon DEF ClientAnswered
<1>5. Message(NoLeg)
  BY Zenon DEF Message, NoLeg
<1>6. /\ LegsShape' /\ legs'[s] = NoLeg /\ \A t \in Setups : t # s => legs'[t] = legs[t]
  BY <1>1, <1>4, <1>5, LegsUpdate, Zenon DEF ShakeTypeOK
<1>7. Continues(srv.setup[s].hash)'
  BY <1>2, <1>4 DEF Continues
<1>8. ASSUME cli'.offer = cli.offer, cli'.told = cli.told
      PROVE  (Agreed => Agreed') /\ Told'
  <2>1. CipherFor(cli.offer)' = CipherFor(cli.offer)
    BY <1>4, <1>8, SamePrefs DEF CipherFor
  <2>. QED
    BY <1>2, <1>4, <1>8, <2>1, Zenon DEF Agreed, Told
<1>9. ASSUME NEW x, cli' = [cli EXCEPT !.setup[s] = x], CliSetup(x)
      PROVE  /\ cli'.setup[s] = x /\ cli'.offer = cli.offer /\ cli'.told = cli.told
  BY <1>1, <1>9, CliUpdate, Zenon DEF ShakeTypeOK
<1>10. CASE ~m.last
  <2>1. PICK x : x = [c EXCEPT !.hash = Append(c.hash, <<s, m>>)]
    BY Zenon
  <2>2. cli' = [cli EXCEPT !.setup[s] = x]
    BY <1>10, <2>1, Zenon DEF ClientAnswered, Hash
  <2>3. m \in Leg
    <3>1. m.key = Unset
      BY <1>1, <1>10, Zenon DEF SetupOK, Progress, HashOK, KeyOK
    <3>2. m = [to |-> "client", leg |-> m.leg, last |-> m.last, key |-> Unset, altered |-> m.altered]
      BY <1>1, <1>3, <3>1, Zenon DEF Message
    <3>. HIDE DEF m, c
    <3>. QED
      BY <1>1, <3>2 DEF Leg
  <2>4. PICK i \in Item : i = <<s, m>>
    <3>. HIDE DEF m
    <3>1. <<s, m>> \in Item
      BY <2>3, LegItem, Zenon
    <3>. QED
      BY <3>1, Zenon
  <2>5. PICK h : h = Append(c.hash, i)
    BY Zenon
  <2>6. Begins(h, cli.offer, cli.told)
    <3>1. Begins(Append(c.hash, i), cli.offer, cli.told)
      BY <1>2, BeginsAppend, Zenon
    <3>. QED
      BY <2>5, <3>1, Zenon
  <2>7. CliSetup(x) /\ x.leg = c.leg /\ x.hash = h /\ x.state = "legs"
    <3>1. x = [c EXCEPT !.hash = h]
      BY <2>1, <2>4, <2>5, Zenon
    <3>2. c.state = "legs"
      BY <1>1, Zenon
    <3>. HIDE DEF c
    <3>. QED
      BY <1>3, <3>1, <3>2, NewHash
  <2>8. cli'.setup[s] = x /\ cli'.offer = cli.offer /\ cli'.told = cli.told /\ Told'
    BY <1>8, <1>9, <2>2, <2>7, Zenon
  <2>. HIDE DEF c
  <2>9. SetupTypeOK(s)'
    BY <1>1, <1>4, <1>6, <2>6, <2>7, <2>8, NoLegFields DEF SetupTypeOK, Begins
  <2>10. SetupOK(s)'
    <3>1. Progress(s)'
      BY <1>1, <1>2, <1>6, <1>7, <2>6, <2>7, <2>8, NoLegFields, Zenon DEF SetupOK, Progress
    <3>2. HashOK(s)'
      BY <1>1, <1>2, <1>6, <1>7, <2>6, <2>7, <2>8, NoLegFields, Zenon DEF SetupOK, HashOK
    <3>3. KeyOK(s)'
      BY <1>6, <2>7, <2>8, NoLegFields, Zenon DEF KeyOK
    <3>. QED
      BY <3>1, <3>2, <3>3, Zenon DEF SetupOK
  <2>11. HonestSetupOK(s)'
    <3>1. ASSUME alters = 0, srv.dialect = \h0311
          PROVE  srv.setup[s].hash = h
      <4>1. srv.setup[s].hash = Append(c.hash, <<s, m>>)
        BY <1>1, <1>10, <3>1, Zenon DEF HonestSetupOK, HashesAgree, c
      <4>. HIDE DEF m
      <4>. QED
        BY <2>4, <2>5, <4>1, Zenon
    <3>2. alters = 0 /\ srv.dialect = \h0311 => HashesAgree(s)'
      BY <1>4, <1>6, <2>7, <2>8, <3>1, NoLegFields, Zenon DEF HashesAgree
    <3>. QED
      BY <1>4, <1>6, <2>7, <2>8, <3>2, NoLegFields, Zenon DEF HonestSetupOK
  <2>. QED
    BY <1>4, <1>6, <2>2, <2>7, <2>9, <2>10, <2>11, ClientStep, Zenon
<1>11. CASE m.last
  <2>1. PICK v : v = Verdict(s)
    BY Zenon
  <2>2. /\ v \in {"failed", "trusted", "validate"}
        /\ v = "trusted" => Agreed
        /\ v = "validate" => cli.told.dialect # \h0311
        /\ v = "failed" => alters # 0
    BY <1>1, <1>11, <2>1, VerdictOK
  <2>3. PICK x : x = [c EXCEPT !.state = v]
    BY Zenon
  <2>4. cli' = [cli EXCEPT !.setup[s] = x]
    <3>1. cli' = [cli EXCEPT !.setup[s] = IF ~m.last THEN [c EXCEPT !.hash = Hash(@, <<s, m>>)]
                                          ELSE [c EXCEPT !.state = Verdict(s)]]
      BY Zenon DEF ClientAnswered, Verdict
    <3>. HIDE DEF c
    <3>. QED
      BY <1>11, <2>1, <2>3, <3>1, Zenon
  <2>. HIDE DEF c
  <2>5. CliSetup(x) /\ x.leg = c.leg /\ x.hash = c.hash /\ x.state = v
    BY <1>3, <2>3, NewState
  <2>6. /\ cli'.setup[s] = x /\ cli'.offer = cli.offer /\ cli'.told = cli.told /\ Told'
        /\ v = "trusted" => Agreed'
    BY <1>8, <1>9, <2>2, <2>4, <2>5
  <2>9. SetupTypeOK(s)'
    BY <1>1, <1>4, <1>6, <2>2, <2>5, <2>6, NoLegFields DEF SetupTypeOK
  <2>10. SetupOK(s)'
    <3>1. Progress(s)'
      BY <1>1, <1>2, <1>6, <2>5, <2>6, NoLegFields DEF Progress
    <3>2. HashOK(s)'
      BY <1>2, <1>7, <2>5, <2>6, Zenon DEF HashOK
    <3>3. KeyOK(s)'
      BY <1>6, <2>2, <2>5, <2>6, NoLegFields DEF KeyOK
    <3>. QED
      BY <3>1, <3>2, <3>3, Zenon DEF SetupOK
  <2>11. HonestSetupOK(s)'
    <3>1. HashesAgree(s)'
      BY <1>6, <2>2, <2>5, <2>6, NoLegFields DEF HashesAgree
    <3>. QED
      BY <1>4, <1>6, <2>2, <2>5, <2>6, <3>1, NoLegFields DEF HonestSetupOK
  <2>. QED
    BY <1>4, <1>6, <2>4, <2>5, <2>9, <2>10, <2>11, ClientStep, Zenon
<1>. QED
  BY <1>1, <1>10, <1>11, Zenon

\* What comes of a validation.
LEMMA ValidateOK ==
  ASSUME ShakeInv, Told
  PROVE  /\ cli.told.dialect # \h0311 /\ Valid(cli.offer) /\ cli.told.dialect = srv.dialect
            /\ cli.told.caps = srv.server_caps => Agreed
         /\ alters = 0 => /\ Valid(cli.offer) /\ cli.told.dialect = srv.dialect
                          /\ cli.told.caps = srv.server_caps
<1>1. ServerOK /\ WireOK /\ HonestOK
  BY Zenon DEF ShakeInv
<1>2. cli.told.dialect # \h0311 => cli.told.cipher = Unset
  BY <1>1, Zenon DEF WireOK, Plausible
<1>3. PICK o \in Accepted : ChoseFor(o)
  BY <1>1, Zenon DEF WireOK, ServerOK
<1>4. srv.dialect # \h0311 => srv.cipher = Unset
  BY <1>3 DEF ChoseFor, CipherFor
<1>5. Chosen(cli.offer.dialects) # \h0311 => CipherFor(cli.offer) = Unset
  BY Zenon DEF CipherFor
<1>6. cli.told.dialect # \h0311 /\ Valid(cli.offer) /\ cli.told.dialect = srv.dialect
        /\ cli.told.caps = srv.server_caps => Agreed
  BY <1>2, <1>4, <1>5 DEF Valid, Agreed
<1>7. alters = 0 => ChoseFor(cli.offer) /\ cli.told = Response(cli.offer)
  BY <1>1, Zenon DEF HonestOK
<1>8. /\ Response(cli.offer).dialect = Chosen(cli.offer.dialects)
      /\ Response(cli.offer).caps = Caps(Chosen(cli.offer.dialects))
  BY Zenon DEF Response
<1>9. alters = 0 => Valid(cli.offer) /\ cli.told.dialect = srv.dialect /\ cli.told.caps = srv.server_caps
  BY <1>7, <1>8, Zenon DEF ChoseFor, Valid
<1>. QED
  BY <1>6, <1>9, Zenon

\* The client validates the negotiation of a dialect below 3.1.1: ioctl.
LEMMA ValidateStep ==
  ASSUME ShakeInv, NEW s \in Setups, Validate(s)
  PROVE  ShakeInv'
<1>. DEFINE c == cli.setup[s]
<1>1. /\ ShakeTypeOK /\ SetupTypeOK(s) /\ SetupOK(s) /\ HonestSetupOK(s)
      /\ c.state = "validate" /\ c.leg \in Nat /\ c.hash \in Seq(Item) /\ srv.setup[s].hash \in Seq(Item)
  BY Zenon DEF ShakeInv, ShakeTypeOK, SetupTypeOK, Validate
<1>2. /\ c.leg > 0 /\ Told /\ Begins(c.hash, cli.offer, cli.told) /\ Continues(srv.setup[s].hash)
      /\ legs[s] = NoLeg /\ cli.told.dialect # \h0311
  BY <1>1, NoLegFields DEF SetupOK, Progress, HashOK, KeyOK, SetupTypeOK
<1>3. CliSetup(c)
  BY <1>1 DEF CliSetup, ShakeTypeOK, CliShape
<1>4. prefs' = prefs /\ srv' = srv /\ wire' = wire /\ legs' = legs /\ alters' = alters
  BY Zenon DEF Validate
<1>5. PICK v \in {"trusted", "failed"} :
        /\ cli' = [cli EXCEPT !.setup[s].state = v]
        /\ v = "trusted" => Agreed
        /\ v = "failed" => alters # 0
  <2>. DEFINE w == IF cli.told.dialect = srv.dialect /\ cli.told.caps = srv.server_caps THEN "trusted" ELSE "failed"
  <2>1. CASE Valid(cli.offer)
    <3>1. cli' = [cli EXCEPT !.setup[s].state = w]
      BY <2>1, Zenon DEF Validate
    <3>2. w \in {"trusted", "failed"} /\ (w = "trusted" => Agreed) /\ (w = "failed" => alters # 0)
      BY <1>2, <2>1, ValidateOK, Zenon
    <3>. HIDE DEF w
    <3>. QED
      BY <3>1, <3>2, Zenon
  <2>2. CASE ~Valid(cli.offer)
    <3>1. cli' = [cli EXCEPT !.setup[s].state = "failed"] /\ alters # 0
      BY <1>2, <2>2, ValidateOK DEF Validate
    <3>. QED
      BY <3>1, Zenon
  <2>. QED
    BY <2>1, <2>2, Zenon
<1>6. PICK x : x = [c EXCEPT !.state = v]
  BY Zenon
<1>7. cli' = [cli EXCEPT !.setup[s] = x]
  BY <1>5, <1>6, Zenon
<1>8. CliSetup(x) /\ x.leg = c.leg /\ x.hash = c.hash /\ x.state = v
  <2>. HIDE DEF c
  <2>. QED
    BY <1>3, <1>6, NewState
<1>9. cli'.setup[s] = x /\ cli'.offer = cli.offer /\ cli'.told = cli.told
  BY <1>1, <1>7, <1>8, CliUpdate, Zenon DEF ShakeTypeOK
<1>10. v = "trusted" => Agreed'
  <2>1. CipherFor(cli.offer)' = CipherFor(cli.offer)
    BY <1>4, <1>9, SamePrefs DEF CipherFor
  <2>. QED
    BY <1>4, <1>5, <1>9, <2>1, Zenon DEF Agreed
<1>11. Told' /\ Continues(srv.setup[s].hash)'
  BY <1>2, <1>4, <1>9 DEF Told, Continues
<1>12. LegsShape'
  BY <1>1, <1>4, Zenon DEF ShakeTypeOK, LegsShape
<1>. HIDE DEF c
<1>13. SetupTypeOK(s)'
  BY <1>1, <1>2, <1>4, <1>8, <1>9, NoLegFields DEF SetupTypeOK
<1>14. SetupOK(s)'
  <2>1. Progress(s)'
    BY <1>1, <1>2, <1>4, <1>8, <1>9, <1>11, NoLegFields DEF Progress
  <2>2. HashOK(s)'
    BY <1>2, <1>8, <1>9, <1>11, Zenon DEF HashOK
  <2>3. KeyOK(s)'
    BY <1>2, <1>4, <1>5, <1>8, <1>9, <1>10, NoLegFields DEF KeyOK
  <2>. QED
    BY <2>1, <2>2, <2>3, Zenon DEF SetupOK
<1>15. HonestSetupOK(s)'
  <2>1. HashesAgree(s)'
    BY <1>2, <1>4, <1>8, <1>9, NoLegFields, Zenon DEF HashesAgree
  <2>. QED
    BY <1>2, <1>4, <1>5, <1>8, <1>9, <2>1, NoLegFields DEF HonestSetupOK
<1>. QED
  BY <1>4, <1>7, <1>8, <1>12, <1>13, <1>14, <1>15, ClientStep, Zenon

\* Somebody alters a message of a setup.
LEMMA AlterLegStep ==
  ASSUME ShakeInv, NEW s \in Setups, AlterLeg(s)
  PROVE  ShakeInv'
<1>. DEFINE m == legs[s]
<1>1. /\ ShakeTypeOK /\ SetupTypeOK(s) /\ SetupOK(s) /\ m # NoLeg /\ alters \in Nat
      /\ prefs' = prefs /\ srv' = srv /\ cli' = cli /\ wire' = wire /\ alters' = alters + 1
  BY Zenon DEF ShakeInv, ShakeTypeOK, AlterLeg
<1>2. Message(m)
  BY <1>1, Zenon DEF Message, ShakeTypeOK, LegsShape
<1>3. PICK b \in BOOLEAN : b
  BY Zenon
<1>4. PICK x : x = [m EXCEPT !.altered = b]
  BY Zenon
<1>5. legs' = [legs EXCEPT ![s] = x]
  BY <1>3, <1>4, Zenon DEF AlterLeg
<1>6. Message(x) /\ x.to = m.to /\ x.leg = m.leg /\ x.last = m.last /\ x.key = m.key /\ x.altered = b
  <2>. HIDE DEF m
  <2>. QED
    BY <1>2, <1>4, Zenon DEF Message
<1>7. /\ LegsShape' /\ legs'[s] = x /\ \A t \in Setups : t # s => legs'[t] = legs[t]
  BY <1>1, <1>5, <1>6, LegsUpdate, Zenon DEF ShakeTypeOK
<1>8. NegKept /\ CliShape' /\ SrvShape'
  BY <1>1 DEF NegKept, ShakeTypeOK, CliShape, SrvShape
<1>9. SetupTypeOK(s)'
  BY <1>1, <1>6, <1>7, Zenon DEF SetupTypeOK
<1>10. SetupOK(s)'
  <2>1. Told' <=> Told
    BY <1>1, Zenon DEF Told
  <2>2. CipherFor(cli.offer)' = CipherFor(cli.offer)
    BY <1>1, SamePrefs DEF CipherFor
  <2>3. Agreed' <=> Agreed
    BY <1>1, <2>2, Zenon DEF Agreed
  <2>4. Continues(srv.setup[s].hash)' <=> Continues(srv.setup[s].hash)
    BY <1>1 DEF Continues
  <2>5. m.to # "nobody" /\ cli.setup[s].leg # 0
    BY <1>1, Zenon DEF SetupOK, Progress, HashOK, KeyOK
  <2>. QED
    <3>1. Progress(s)'
      BY <1>1, <1>6, <1>7, <2>1, <2>3, <2>4, <2>5, Zenon DEF SetupOK, Progress
    <3>2. HashOK(s)'
      BY <1>1, <1>6, <1>7, <2>1, <2>3, <2>4, <2>5, Zenon DEF SetupOK, HashOK
    <3>3. KeyOK(s)'
      BY <1>1, <1>6, <1>7, <2>1, <2>3, <2>4, <2>5 DEF SetupOK, KeyOK
    <3>. QED
      BY <3>1, <3>2, <3>3, Zenon DEF SetupOK
<1>11. HonestSetupOK(s)'
  BY <1>1 DEF HonestSetupOK
<1>. QED
  BY <1>1, <1>7, <1>8, <1>9, <1>10, <1>11, OneSetup, Zenon

------------------------------------------------------------------------------
(* NEGOTIATE                                                               *)

\* A step before the client was told anything preserves the invariant if it preserves
\* the part that is about the NEGOTIATE: no setup has begun.
LEMMA NegotiationStep ==
  ASSUME ShakeInv, ~Told, SrvShape', CliShape',
         legs' = legs, srv'.setup = srv.setup, cli'.setup = cli.setup,
         wire' = [to |-> wire'.to, msg |-> wire'.msg],
         srv'.preauth \in Seq(Item), cli'.hash \in Seq(Item), alters' \in Nat,
         ServerOK', WireOK', HonestOK'
  PROVE  ShakeInv'
<1>1. \A s \in Setups : SetupTypeOK(s)' /\ SetupOK(s)' /\ HonestSetupOK(s)'
  <2>. TAKE s \in Setups
  <2>1. SetupTypeOK(s) /\ Progress(s)
    BY Zenon DEF ShakeInv, ShakeTypeOK, SetupOK
  <2>2. cli.setup[s].leg = 0 /\ cli.setup[s].state = "legs" /\ legs[s] = NoLeg
    BY <2>1, Zenon DEF Progress
  <2>. QED
    BY <2>1, <2>2, Unbegun, Zenon
<1>2. LegsShape'
  BY Zenon DEF ShakeInv, ShakeTypeOK, LegsShape
<1>3. ShakeTypeOK'
  BY <1>1, <1>2, Zenon DEF ShakeTypeOK
<1>. QED
  BY <1>1, <1>3, Zenon DEF ShakeInv

\* A step that touches none of it.
LEMMA IdleStep ==
  ASSUME ShakeInv, prefs' = prefs, srv' = srv, cli' = cli, wire' = wire, legs' = legs, alters' = alters
  PROVE  ShakeInv'
<1>1. NegKept
  BY DEF ShakeInv, ShakeTypeOK, NegKept
<1>2. ServerOK' /\ WireOK' /\ HonestOK'
  BY <1>1, NegotiationKept, Zenon DEF ShakeInv
<1>3. \A s \in Setups : SetupTypeOK(s)' /\ SetupOK(s)' /\ HonestSetupOK(s)'
  BY <1>1, SetupKept, Zenon DEF ShakeInv, ShakeTypeOK
<1>4. SrvShape' /\ CliShape' /\ LegsShape'
  BY Zenon DEF ShakeInv, ShakeTypeOK, SrvShape, CliShape, LegsShape
<1>5. ShakeTypeOK'
  BY <1>3, <1>4, Zenon DEF ShakeInv, ShakeTypeOK
<1>. QED
  BY <1>2, <1>3, <1>5, Zenon DEF ShakeInv

\* Before the first answer the server has chosen only if the answer is on its way.
LEMMA Undecided ==
  ASSUME ShakeInv, ~Told, wire.to # "client"
  PROVE  srv.dialect = Unset
BY Zenon DEF ShakeInv, WireOK

\* The client sends its NEGOTIATE.
LEMMA ClientNegotiateStep ==
  ASSUME ShakeInv, NEW o \in Offers, ClientNegotiate(o)
  PROVE  ShakeInv'
<1>1. /\ ShakeTypeOK /\ wire = Silence /\ ~Told /\ prefs' = prefs /\ srv' = srv /\ legs' = legs /\ alters' = alters
      /\ cli' = [cli EXCEPT !.offer = o, !.hash = Hash(<<>>, o)] /\ wire' = [to |-> "server", msg |-> o]
  BY Zenon DEF ShakeInv, ClientNegotiate
<1>2. srv.dialect = Unset
  <2>1. wire.to # "client"
    BY <1>1, NoLegFields, Zenon
  <2>. QED
    BY <1>1, <2>1, Undecided, Zenon
<1>3. PICK h : h = Append(<<>>, o)
  BY Zenon
<1>4. h \in Seq(Item)
  <2>1. o \in Item
    BY Zenon DEF Item
  <2>. QED
    BY <1>3, <2>1
<1>5. /\ cli' = [offer |-> o, told |-> cli.told, hash |-> h, setup |-> cli.setup]
      /\ cli'.offer = o /\ cli'.told = cli.told /\ cli'.hash = h /\ cli'.setup = cli.setup
  <2>1. cli = [offer |-> cli.offer, told |-> cli.told, hash |-> cli.hash, setup |-> cli.setup]
    BY <1>1, Zenon DEF ShakeTypeOK, CliShape
  <2>2. cli' = [cli EXCEPT !.offer = o, !.hash = h]
    BY <1>1, <1>3, Zenon DEF Hash
  <2>. QED
    BY <2>1, <2>2, Zenon
<1>6. CliShape'
  <2>1. cli.setup = [s \in Setups |-> [leg |-> cli.setup[s].leg, hash |-> cli.setup[s].hash, state |-> cli.setup[s].state]]
    BY <1>1 DEF ShakeTypeOK, CliShape
  <2>. QED
    BY <1>5, <2>1, Zenon DEF CliShape
<1>7. SrvShape' /\ srv'.preauth \in Seq(Item) /\ alters' \in Nat
  BY <1>1, Zenon DEF ShakeTypeOK, SrvShape
<1>8. ~Told'
  BY <1>1, <1>5, Zenon DEF Told
<1>9. wire'.to = "server" /\ wire'.msg = o /\ wire' = [to |-> wire'.to, msg |-> wire'.msg]
  BY <1>1, Zenon
<1>10. ServerOK'
  BY <1>1, <1>2, Zenon DEF ServerOK
<1>11. WireOK'
  BY <1>1, <1>2, <1>3, <1>5, <1>8, <1>9, Zenon DEF WireOK
<1>12. HonestOK'
  BY <1>5, <1>8, <1>9, Zenon DEF HonestOK
<1>. QED
  BY <1>1, <1>4, <1>5, <1>6, <1>7, <1>9, <1>10, <1>11, <1>12, NegotiationStep, Zenon

\* Somebody alters a message of the negotiation.
LEMMA AlterNegotiateStep ==
  ASSUME ShakeInv, NEW o \in Offers, AlterNegotiate(o)
  PROVE  ShakeInv'
<1>1. /\ ShakeTypeOK /\ WireOK /\ wire # Silence /\ prefs' = prefs /\ srv' = srv /\ cli' = cli /\ legs' = legs
      /\ alters' = alters + 1
  BY Zenon DEF ShakeInv, AlterNegotiate
<1>2. wire.to \in {"server", "client"} /\ ~Told /\ cli.offer \in Offers /\ cli.hash = Append(<<>>, cli.offer)
  BY <1>1, Zenon DEF WireOK
<1>3. PICK r : /\ wire' = [wire EXCEPT !.msg = r]
               /\ wire.to = "server" => r \in Offers
               /\ wire.to = "client" => srv.dialect # Unset /\ Plausible(r) /\ r # NoAnswer
  <2>1. CASE wire.to = "server"
    BY <2>1, Zenon DEF AlterNegotiate
  <2>2. CASE wire.to = "client"
    <3>1. wire.msg # NoAnswer /\ Acceptable(o) /\ wire' = [wire EXCEPT !.msg = Response(o)]
      BY <2>2, Zenon DEF AlterNegotiate
    <3>2. srv.dialect # Unset
      BY <1>1, <2>2, <3>1, Zenon DEF WireOK
    <3>3. Plausible(Response(o)) /\ Response(o) # NoAnswer
      BY <3>1, ResponseFields, Zenon DEF Accepted
    <3>. QED
      BY <2>2, <3>1, <3>2, <3>3, Zenon
  <2>. QED
    BY <1>2, <2>1, <2>2, Zenon
<1>4. wire'.to = wire.to /\ wire'.msg = r /\ wire' = [to |-> wire'.to, msg |-> wire'.msg]
  <2>1. wire = [to |-> wire.to, msg |-> wire.msg]
    BY <1>1, Zenon DEF ShakeTypeOK
  <2>. QED
    BY <1>3, <2>1, Zenon
<1>5. SrvShape' /\ CliShape' /\ srv'.preauth \in Seq(Item) /\ cli'.hash \in Seq(Item)
  BY <1>1, Zenon DEF ShakeTypeOK, SrvShape, CliShape
<1>6. alters' \in Nat /\ alters' # 0
  BY <1>1 DEF ShakeTypeOK
<1>7. ~Told'
  BY <1>1, <1>2, Zenon DEF Told
<1>8. ServerOK'
  <2>1. \A q : ChoseFor(q)' <=> ChoseFor(q)
    BY <1>1, SamePrefs DEF ChoseFor
  <2>. QED
    BY <1>1, <2>1, Zenon DEF ShakeInv, ServerOK
<1>9. WireOK'
  BY <1>1, <1>2, <1>3, <1>4, <1>7, Zenon DEF WireOK
<1>10. HonestOK'
  BY <1>6, Zenon DEF HonestOK
<1>. QED
  BY <1>1, <1>2, <1>4, <1>5, <1>6, <1>8, <1>9, <1>10, NegotiationStep, Zenon

\* What negotiate writes into the connection.
LEMMA SrvChosen ==
  ASSUME SrvShape, Negotiate, Acceptable(wire.msg)
  PROVE  /\ SrvShape' /\ srv'.setup = srv.setup
         /\ srv'.dialect = Chosen(wire.msg.dialects) /\ srv'.cipher = CipherFor(wire.msg)
         /\ srv'.client_neg = wire.msg.neg /\ srv'.server_caps = Caps(Chosen(wire.msg.dialects))
         /\ srv'.preauth = NegotiatedHash(wire.msg)
<1>1. srv.setup = [s \in Setups |-> [hash |-> srv.setup[s].hash, key |-> srv.setup[s].key]]
  BY DEF SrvShape
<1>2. srv = [dialect |-> srv.dialect, cipher |-> srv.cipher, client_neg |-> srv.client_neg,
             server_caps |-> srv.server_caps, preauth |-> srv.preauth, setup |-> srv.setup]
  BY Zenon DEF SrvShape
<1>3. srv' = [srv EXCEPT !.dialect = Chosen(wire.msg.dialects), !.cipher = CipherFor(wire.msg),
                         !.client_neg = wire.msg.neg, !.server_caps = Caps(Chosen(wire.msg.dialects)),
                         !.preauth = NegotiatedHash(wire.msg)]
  BY Zenon DEF Negotiate
<1>4. srv' = [dialect |-> Chosen(wire.msg.dialects), cipher |-> CipherFor(wire.msg),
              client_neg |-> wire.msg.neg, server_caps |-> Caps(Chosen(wire.msg.dialects)),
              preauth |-> NegotiatedHash(wire.msg), setup |-> srv.setup]
  BY <1>2, <1>3, Zenon
<1>5. /\ srv'.dialect = Chosen(wire.msg.dialects) /\ srv'.cipher = CipherFor(wire.msg)
      /\ srv'.client_neg = wire.msg.neg /\ srv'.server_caps = Caps(Chosen(wire.msg.dialects))
      /\ srv'.preauth = NegotiatedHash(wire.msg) /\ srv'.setup = srv.setup
  BY <1>4, Zenon
<1>. QED
  BY <1>1, <1>4, <1>5, Zenon DEF SrvShape

\* The server answers the NEGOTIATE: negotiate.
LEMMA NegotiateStep ==
  ASSUME ShakeInv, Negotiate
  PROVE  ShakeInv'
<1>1. /\ ShakeTypeOK /\ WireOK /\ HonestOK /\ wire.to = "server"
      /\ prefs' = prefs /\ cli' = cli /\ legs' = legs /\ alters' = alters
  BY Zenon DEF ShakeInv, Negotiate
<1>2. /\ ~Told /\ cli.offer \in Offers /\ cli.hash = Append(<<>>, cli.offer) /\ wire.msg \in Offers
  BY <1>1, Zenon DEF WireOK
<1>3. srv.dialect = Unset
  BY <1>1, <1>2, Undecided, Zenon
<1>4. CliShape' /\ cli'.hash \in Seq(Item) /\ alters' \in Nat /\ ~Told'
  BY <1>1, <1>2, Zenon DEF ShakeTypeOK, CliShape, Told
<1>5. CASE Acceptable(wire.msg)
  <2>1. PICK o \in Accepted : o = wire.msg
    BY <1>2, <1>5, Zenon DEF Accepted
  <2>2. PICK r : r = Response(wire.msg)
    BY Zenon
  <2>3. /\ SrvShape' /\ srv'.setup = srv.setup /\ srv'.dialect = Chosen(wire.msg.dialects)
        /\ srv'.cipher = CipherFor(wire.msg) /\ srv'.client_neg = wire.msg.neg
        /\ srv'.server_caps = Caps(Chosen(wire.msg.dialects)) /\ srv'.preauth = NegotiatedHash(wire.msg)
    BY <1>1, <1>5, SrvChosen, Zenon DEF ShakeTypeOK
  <2>4. PICK d, c, n, k, p :
          /\ d = Chosen(wire.msg.dialects) /\ c = CipherFor(wire.msg) /\ n = wire.msg.neg
          /\ k = Caps(Chosen(wire.msg.dialects)) /\ p = NegotiatedHash(wire.msg)
    BY Zenon
  <2>5. /\ SrvShape' /\ srv'.setup = srv.setup /\ srv'.dialect = d /\ srv'.cipher = c
        /\ srv'.client_neg = n /\ srv'.server_caps = k /\ srv'.preauth = p
    BY <2>3, <2>4, Zenon
  <2>6. /\ r = Response(o) /\ d = Chosen(o.dialects) /\ c = CipherFor(o) /\ n = o.neg /\ k = Caps(d)
         /\ p = NegotiatedHash(o)
    BY <2>1, <2>2, <2>4, Zenon
  <2>7. wire' = [to |-> "client", msg |-> r]
    BY <1>5, <2>2, Zenon DEF Negotiate
  <2>8. wire'.to = "client" /\ wire'.msg = r /\ wire' = [to |-> wire'.to, msg |-> wire'.msg]
    BY <2>7, Zenon
  <2>9. Plausible(r) /\ r # NoAnswer /\ r.dialect = d
    BY <2>6, ResponseFields, Zenon
  <2>10. o \in Item /\ r \in Item /\ d # Unset
    BY <2>9, PlausibleItem, Zenon DEF Accepted, Item
  <2>11. (d = \h0311 => p = Exchange(o, r)) /\ p \in Seq(Item)
    <3>1. CASE d = \h0311
      <4>1. p = Exchange(o, Response(o))
        BY <2>6, <3>1 DEF NegotiatedHash, Hash, Exchange
      <4>2. Exchange(o, r) \in Seq(Item)
        BY <2>10, BeginsExchange, Zenon DEF Begins
      <4>. QED
        BY <2>6, <4>1, <4>2, Zenon
    <3>2. CASE d # \h0311
      BY <1>1, <2>6, <3>2, Zenon DEF ShakeTypeOK, NegotiatedHash
    <3>. QED
      BY <3>1, <3>2, Zenon
  <2>12. CipherFor(o)' = c /\ Caps(d)' = k /\ Response(o)' = r
    BY <1>1, <2>6, SamePrefs, Zenon
  <2>13. ChoseFor(o)'
    <3>1. Caps(srv.dialect)' = k
      BY <2>5, <2>12 DEF Caps
    <3>2. srv'.dialect = \h0311 => srv'.preauth = Exchange(o, Response(o)')
      BY <2>5, <2>11, <2>12, Zenon
    <3>. QED
      BY <2>5, <2>12, <2>6, <3>1, <3>2, Zenon DEF ChoseFor
  <2>14. ServerOK'
    BY <2>13, Zenon DEF ServerOK
  <2>15. WireOK'
    BY <1>1, <1>2, <1>4, <2>5, <2>8, <2>9, <2>10, Zenon DEF WireOK
  <2>16. HonestOK'
    <3>1. ASSUME alters' = 0
          PROVE  ChoseFor(cli.offer)' /\ wire'.msg = Response(cli.offer)'
      <4>1. cli'.offer = o
        BY <1>1, <2>1, <3>1, Zenon DEF HonestOK
      <4>2. ChoseFor(cli.offer)' <=> ChoseFor(o)'
        BY <4>1, Zenon DEF ChoseFor
      <4>3. Response(cli.offer)' = Response(o)'
        BY <4>1, Zenon DEF Response
      <4>. QED
        BY <2>8, <2>12, <2>13, <4>2, <4>3, Zenon
    <3>. QED
      BY <1>4, <2>8, <3>1, Zenon DEF HonestOK
  <2>. QED
    BY <1>1, <1>2, <1>4, <2>5, <2>8, <2>11, <2>14, <2>15, <2>16, NegotiationStep, Zenon
<1>6. CASE ~Acceptable(wire.msg)
  <2>1. srv' = srv /\ wire' = [to |-> "client", msg |-> NoAnswer]
    BY <1>6, Zenon DEF Negotiate
  <2>2. wire'.to = "client" /\ wire'.msg = NoAnswer /\ wire' = [to |-> wire'.to, msg |-> wire'.msg]
    BY <2>1, Zenon
  <2>3. SrvShape' /\ srv'.preauth \in Seq(Item)
    BY <1>1, <2>1, Zenon DEF ShakeTypeOK, SrvShape
  <2>4. ServerOK'
    BY <1>3, <2>1, Zenon DEF ServerOK
  <2>5. WireOK'
    BY <1>1, <1>2, <1>3, <1>4, <2>1, <2>2, Zenon DEF WireOK
  <2>6. HonestOK'
    BY <1>4, <2>2, Zenon DEF HonestOK
  <2>. QED
    BY <1>1, <1>2, <1>4, <2>1, <2>2, <2>3, <2>4, <2>5, <2>6, NegotiationStep, Zenon
<1>. QED
  BY <1>5, <1>6, Zenon

\* The client takes the answer to its NEGOTIATE.
LEMMA ClientToldStep ==
  ASSUME ShakeInv, ClientTold
  PROVE  ShakeInv'
<1>1. /\ ShakeTypeOK /\ WireOK /\ HonestOK /\ wire.to = "client"
      /\ prefs' = prefs /\ srv' = srv /\ legs' = legs /\ alters' = alters /\ wire' = Silence
  BY Zenon DEF ShakeInv, ClientTold
<1>2. ~Told /\ cli.offer \in Offers /\ cli.hash = Append(<<>>, cli.offer)
  BY <1>1, Zenon DEF WireOK
<1>3. SrvShape' /\ srv'.preauth \in Seq(Item) /\ alters' \in Nat
  BY <1>1, Zenon DEF ShakeTypeOK, SrvShape
<1>4. wire'.to = "nobody" /\ wire' = [to |-> wire'.to, msg |-> wire'.msg]
  BY <1>1, Zenon DEF Silence
<1>5. ServerOK' /\ \A o : ChoseFor(o)' <=> ChoseFor(o)
  <2>1. \A o : ChoseFor(o)' <=> ChoseFor(o)
    BY <1>1, SamePrefs DEF ChoseFor
  <2>. QED
    BY <1>1, <2>1, Zenon DEF ShakeInv, ServerOK
<1>6. CASE wire.msg = NoAnswer
  <2>1. cli' = cli
    BY <1>6, Zenon DEF ClientTold
  <2>2. srv.dialect = Unset
    BY <1>1, <1>2, <1>6, Zenon DEF WireOK
  <2>3. CliShape' /\ cli'.hash \in Seq(Item) /\ ~Told'
    BY <1>1, <1>2, <2>1, Zenon DEF ShakeTypeOK, CliShape, Told
  <2>4. WireOK'
    BY <1>1, <1>4, <2>2, <2>3, Zenon DEF WireOK
  <2>5. HonestOK'
    BY <1>4, <2>3, Zenon DEF HonestOK
  <2>. QED
    BY <1>1, <1>2, <1>3, <1>4, <1>5, <2>1, <2>3, <2>4, <2>5, NegotiationStep, Zenon
<1>7. CASE wire.msg # NoAnswer
  <2>1. PICK r, h : r = wire.msg /\ h = Append(cli.hash, r)
    BY Zenon
  <2>2. cli' = [cli EXCEPT !.told = r, !.hash = h]
    BY <1>7, <2>1, Zenon DEF ClientTold, Hash
  <2>3. srv.dialect # Unset /\ Plausible(r)
    BY <1>1, <1>7, <2>1, Zenon DEF WireOK
  <2>4. /\ cli' = [offer |-> cli.offer, told |-> r, hash |-> h, setup |-> cli.setup]
        /\ cli'.offer = cli.offer /\ cli'.told = r /\ cli'.hash = h /\ cli'.setup = cli.setup
    <3>1. cli = [offer |-> cli.offer, told |-> cli.told, hash |-> cli.hash, setup |-> cli.setup]
      BY <1>1, Zenon DEF ShakeTypeOK, CliShape
    <3>. QED
      BY <2>2, <3>1, Zenon
  <2>5. CliShape'
    <3>1. cli.setup = [s \in Setups |-> [leg |-> cli.setup[s].leg, hash |-> cli.setup[s].hash,
                                         state |-> cli.setup[s].state]]
      BY <1>1 DEF ShakeTypeOK, CliShape
    <3>. QED
      BY <2>4, <3>1, Zenon DEF CliShape
  <2>6. h = Exchange(cli.offer, r)
    BY <1>2, <2>1, Zenon DEF Exchange
  <2>7. h \in Seq(Item)
    <3>1. PICK o \in Item : o = cli.offer
      BY <1>2, Zenon DEF Item
    <3>2. r \in Item
      BY <2>3, PlausibleItem, Zenon
    <3>3. Begins(Exchange(o, r), o, r)
      BY <3>2, BeginsExchange, Zenon
    <3>. QED
      BY <2>6, <3>1, <3>3, Zenon DEF Begins
  <2>8. Told'
    BY <2>3, <2>4, PlausibleItem, Zenon DEF Told
  <2>9. WireOK'
    BY <1>1, <1>2, <1>4, <2>3, <2>4, <2>6, <2>8, Zenon DEF WireOK
  <2>10. HonestOK'
    <3>1. ASSUME alters' = 0
          PROVE  ChoseFor(cli.offer)' /\ cli'.told = Response(cli.offer)'
      <4>1. ChoseFor(cli.offer) /\ r = Response(cli.offer)
        BY <1>1, <1>7, <2>1, <3>1, Zenon DEF HonestOK
      <4>2. PICK o : o = cli.offer
        BY Zenon
      <4>3. ChoseFor(o)' /\ Response(o)' = Response(o) /\ cli'.offer = o
        BY <1>1, <1>5, <2>4, <4>1, <4>2, SamePrefs, Zenon
      <4>4. (ChoseFor(cli.offer)' <=> ChoseFor(o)') /\ Response(cli.offer)' = Response(o)'
        BY <4>3, Zenon DEF ChoseFor, Response
      <4>. QED
        BY <2>4, <4>1, <4>2, <4>3, <4>4, Zenon
    <3>. QED
      BY <1>4, <3>1, Zenon DEF HonestOK
  <2>. QED
    BY <1>1, <1>2, <1>3, <1>4, <1>5, <2>4, <2>5, <2>7, <2>9, <2>10, NegotiationStep, Zenon
<1>. QED
  BY <1>6, <1>7, Zenon

\* The server answers an SMB1 NEGOTIATE.
LEMMA Smb1Step ==
  ASSUME ShakeInv, NEW b \in BOOLEAN, Smb1(b)
  PROVE  ShakeInv'
<1>1. /\ ShakeTypeOK /\ WireOK /\ srv.dialect = Unset /\ wire = Silence
      /\ prefs' = prefs /\ cli' = cli /\ wire' = wire /\ legs' = legs /\ alters' = alters
  BY Zenon DEF ShakeInv, Smb1
<1>2. ~Told
  BY <1>1, Zenon DEF WireOK
<1>3. CASE ~b
  <2>1. srv' = srv
    BY <1>3 DEF Smb1
  <2>. QED
    BY <1>1, <2>1, IdleStep, Zenon
<1>4. CASE b
  <2>1. PICK k : k = Caps(\h02FF)
    BY Zenon
  <2>2. srv' = [srv EXCEPT !.server_caps = k]
    BY <1>4, <2>1, Zenon DEF Smb1
  <2>3. srv.setup = [s \in Setups |-> [hash |-> srv.setup[s].hash, key |-> srv.setup[s].key]]
    BY <1>1 DEF ShakeTypeOK, SrvShape
  <2>4. SrvShape' /\ srv'.setup = srv.setup /\ srv'.dialect = srv.dialect /\ srv'.preauth = srv.preauth
    <3>1. srv = [dialect |-> srv.dialect, cipher |-> srv.cipher, client_neg |-> srv.client_neg,
                 server_caps |-> srv.server_caps, preauth |-> srv.preauth, setup |-> srv.setup]
      BY <1>1, Zenon DEF ShakeTypeOK, SrvShape
    <3>2. srv' = [dialect |-> srv.dialect, cipher |-> srv.cipher, client_neg |-> srv.client_neg,
                  server_caps |-> k, preauth |-> srv.preauth, setup |-> srv.setup]
      BY <2>2, <3>1, Zenon
    <3>3. /\ srv'.dialect = srv.dialect /\ srv'.cipher = srv.cipher /\ srv'.client_neg = srv.client_neg
          /\ srv'.server_caps = k /\ srv'.preauth = srv.preauth /\ srv'.setup = srv.setup
      BY <3>2, Zenon
    <3>. QED
      BY <2>3, <3>2, <3>3, Zenon DEF SrvShape
  <2>5. CliShape' /\ cli'.hash \in Seq(Item) /\ srv'.preauth \in Seq(Item) /\ alters' \in Nat /\ ~Told'
    BY <1>1, <1>2, <2>4, Zenon DEF ShakeTypeOK, CliShape, Told
  <2>6. wire'.to = "nobody" /\ wire' = [to |-> wire'.to, msg |-> wire'.msg]
    BY <1>1, Zenon DEF Silence
  <2>7. ServerOK'
    BY <1>1, <2>4, Zenon DEF ServerOK
  <2>8. WireOK'
    BY <1>1, <2>4, <2>5, <2>6, Zenon DEF WireOK
  <2>9. HonestOK'
    BY <2>5, <2>6, Zenon DEF HonestOK
  <2>. QED
    BY <1>1, <1>2, <2>4, <2>5, <2>6, <2>7, <2>8, <2>9, NegotiationStep, Zenon
<1>. QED
  BY <1>3, <1>4, Zenon

------------------------------------------------------------------------------
(* All of it                                                               *)

\* The invariant holds at the start.
LEMMA InitStep ==
  ShakeInit => ShakeInv
<1>. SUFFICES ASSUME ShakeInit
              PROVE  ShakeInv
  BY Zenon
<1>1. /\ srv.dialect = Unset /\ srv.preauth = <<>> /\ cli.told = NoAnswer /\ cli.hash = <<>>
      /\ wire = Silence /\ alters = 0
  BY Zenon DEF ShakeInit
<1>2. ~Told
  BY <1>1, NoLegFields, Zenon DEF Told
<1>3. SrvShape /\ CliShape
  BY Zenon DEF ShakeInit, SrvShape, CliShape
<1>4. LegsShape
  BY Zenon DEF ShakeInit, LegsShape, NoLeg
<1>5. ASSUME NEW s \in Setups
      PROVE  /\ cli.setup[s].leg = 0 /\ cli.setup[s].hash = <<>> /\ cli.setup[s].state = "legs"
             /\ srv.setup[s].hash = <<>> /\ legs[s] = NoLeg
  BY Zenon DEF ShakeInit
<1>6. <<>> \in Seq(Item)
  OBVIOUS
<1>7. ASSUME NEW s \in Setups
      PROVE  SetupTypeOK(s) /\ SetupOK(s) /\ HonestSetupOK(s)
  <2>1. SetupTypeOK(s)
    <3>1. cli.setup[s].hash \in Seq(Item) /\ srv.setup[s].hash \in Seq(Item)
      BY <1>5, <1>6, Zenon
    <3>2. legs[s].to = "nobody" /\ legs[s].leg = 0 /\ legs[s].last \in BOOLEAN /\ legs[s].altered \in BOOLEAN
      BY <1>5, NoLegFields, Zenon
    <3>3. cli.setup[s].leg = 0 /\ cli.setup[s].state = "legs"
      BY <1>5, Zenon
    <3>. QED
      BY <3>1, <3>2, <3>3 DEF SetupTypeOK
  <2>2. Progress(s) /\ HashOK(s) /\ KeyOK(s)
    <3>1. Progress(s)
      BY <1>5, NoLegFields, Zenon DEF Progress
    <3>2. HashOK(s)
      BY <1>5 DEF HashOK
    <3>3. KeyOK(s)
      BY <1>5, NoLegFields DEF KeyOK
    <3>. QED
      BY <3>1, <3>2, <3>3, Zenon
  <2>3. HonestSetupOK(s)
    <3>1. legs[s].altered = FALSE /\ legs[s].to = "nobody" /\ cli.setup[s].state = "legs"
      BY <1>5, NoLegFields, Zenon
    <3>2. HashesAgree(s)
      BY <1>5, <3>1, Zenon DEF HashesAgree
    <3>. QED
      BY <3>1, <3>2 DEF HonestSetupOK
  <2>. QED
    BY <2>1, <2>2, <2>3, Zenon DEF SetupOK
<1>8. ShakeTypeOK
  BY <1>1, <1>3, <1>4, <1>6, <1>7, Zenon DEF ShakeTypeOK, Silence
<1>9. ServerOK /\ WireOK /\ HonestOK
  BY <1>1, <1>2, NoLegFields, Zenon DEF ServerOK, WireOK, HonestOK
<1>. QED
  BY <1>7, <1>8, <1>9, Zenon DEF ShakeInv

\* Every step preserves the invariant.
LEMMA InvStep ==
  ShakeInv /\ [ShakeNext]_shakevars => ShakeInv'
<1>. SUFFICES ASSUME ShakeInv, [ShakeNext]_shakevars
              PROVE  ShakeInv'
  BY Zenon
<1>1. CASE \E o \in Offers : ClientNegotiate(o) \/ AlterNegotiate(o)
  BY <1>1, ClientNegotiateStep, AlterNegotiateStep, Zenon
<1>2. CASE Negotiate
  BY <1>2, NegotiateStep, Zenon
<1>3. CASE ClientTold
  BY <1>3, ClientToldStep, Zenon
<1>4. CASE Again
  BY <1>4, IdleStep, Zenon DEF Again
<1>5. CASE \E b \in BOOLEAN : Smb1(b)
  BY <1>5, Smb1Step, Zenon
<1>6. ASSUME NEW s \in Setups
      PROVE  /\ (\E last \in BOOLEAN : ClientLeg(s, last)) \/ SetupLeg(s) => ShakeInv'
             /\ ClientAnswered(s) \/ Validate(s) \/ AlterLeg(s) => ShakeInv'
  BY ClientLegStep, SetupLegStep, ClientAnsweredStep, ValidateStep, AlterLegStep, Zenon
<1>7. CASE UNCHANGED shakevars
  BY <1>7, IdleStep, Zenon DEF shakevars
<1>. QED
  BY <1>1, <1>2, <1>3, <1>4, <1>5, <1>6, <1>7, Zenon DEF ShakeNext

\* Whatever is altered on the way before there are keys, a client trusts a session only
\* if it agrees with the server on what its own offer leads to; and a setup fails only if
\* something was altered (negotiate, the setup handlers, ioctl).
THEOREM TrustMeansAgreement ==
  ShakeSpec => []HandshakeAgrees
<1>1. ShakeInv => HandshakeAgrees
  <2>. SUFFICES ASSUME ShakeInv, NEW s \in Setups
                PROVE  /\ cli.setup[s].state = "trusted" => Agreed
                       /\ cli.setup[s].state = "failed" => alters > 0
    BY Zenon DEF HandshakeAgrees, Agreed
  <2>1. KeyOK(s) /\ HonestSetupOK(s) /\ alters \in Nat
    BY Zenon DEF ShakeInv, ShakeTypeOK, SetupOK
  <2>2. cli.setup[s].state = "trusted" => Agreed
    BY <2>1, Zenon DEF KeyOK
  <2>3. cli.setup[s].state = "failed" => alters # 0
    BY <2>1, Zenon DEF HonestSetupOK
  <2>. QED
    BY <2>1, <2>2, <2>3
<1>. QED
  BY <1>1, InitStep, InvStep, PTL DEF ShakeSpec
==============================================================================
