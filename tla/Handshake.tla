------------------------------ MODULE Handshake ------------------------------
(***************************************************************************)
(* NEGOTIATE, the legs of SESSION_SETUP and VALIDATE_NEGOTIATE_INFO on one *)
(* connection: the dialect and cipher that are chosen, the preauth hash    *)
(* both sides keep, and the keys that come of it.  Messages before the     *)
(* first key are not protected, and may be altered on the way.  A hash is  *)
(* the sequence of the messages that went into it.                         *)
(***************************************************************************)
EXTENDS Integers, Sequences

CONSTANTS
  Offers,      \* NEGOTIATE requests: dialects, preauth context, ciphers, and the
               \* mode, capabilities and GUID that VALIDATE_NEGOTIATE_INFO repeats
  Setups,      \* sessions set up on the connection
  MaxLegs,     \* bound: legs of a SESSION_SETUP
  MaxTries,    \* bound: NEGOTIATE requests
  MaxAlters,   \* bound: messages altered
  Unset

ASSUME HandshakeAssumption == MaxLegs \in Nat \ {0} /\ MaxTries \in Nat /\ MaxAlters \in Nat

VARIABLES
  prefs,       \* prefer_aes256, multichannel and oplocks of the configuration
  srv,         \* ProtoConn: dialect, cipher, client_neg, server_caps, preauth_neg, and per
               \* session the preauth hash so far and the key
  cli,         \* the client: its request, what it was told, its hash, and per session
  wire,        \* the NEGOTIATE message in flight and whom it goes to
  legs,        \* per session, the SESSION_SETUP message in flight and whom it goes to
  tries, alters,
  down         \* the connection is closed

shakevars == <<prefs, srv, cli, wire, legs, tries, alters, down>>

SUPPORTED_DIALECTS == <<\h0311, \h0302, \h0300, \h0210, \h0202>>
Ciphers == {"aes128", "aes256"}   \* GCM and CCM of a size are one

Hash(h, m) == Append(h, m)

------------------------------------------------------------------------------
(* negotiate *)

\* The first dialect of the server's list that the client offers, or Unset.
Chosen(dialects) ==
  LET common == SelectSeq(SUPPORTED_DIALECTS, LAMBDA d : d \in dialects)
  IN  IF common = <<>> THEN Unset ELSE common[1]

Among(c, ciphers) == \E i \in DOMAIN ciphers : ciphers[i] = c

\* The ciphers of a request that the server supports.
Supported(ciphers) == SelectSeq(ciphers, LAMBDA c : c \in Ciphers)

\* The server's preference, or the first of the client's that is supported.
Cipher(ciphers) ==
  LET offered == Supported(ciphers)
  IN  IF offered = <<>> THEN Unset
      ELSE IF prefs.aes256 /\ Among("aes256", offered) THEN "aes256" ELSE offered[1]

CipherFor(o) == IF Chosen(o.dialects) = \h0311 THEN Cipher(o.ciphers) ELSE Unset

\* negotiate_body's capabilities.
Caps(dialect) ==
  {"large_mtu"} \cup (IF dialect >= \h0300 /\ prefs.multichannel THEN {"multi_channel"} ELSE {})
                \cup (IF dialect >= \h0210 /\ prefs.oplocks THEN {"leasing"} ELSE {})

\* A request the server takes: a common dialect and, for 3.1.1, a preauth context.
Acceptable(o) == Chosen(o.dialects) # Unset /\ (Chosen(o.dialects) = \h0311 => o.preauth)

\* What the server answers to o.
Response(o) ==
  [dialect |-> Chosen(o.dialects), cipher |-> CipherFor(o), caps |-> Caps(Chosen(o.dialects))]

\* Of a 3.1.1 exchange the server keeps the hash.
NegotiatedHash(o) ==
  IF Chosen(o.dialects) = \h0311 THEN Hash(Hash(<<>>, o), Response(o)) ELSE srv.preauth

\* What stands for an error, and for no message.
NoAnswer == [dialect |-> Unset, cipher |-> Unset, caps |-> {}]
Silence == [to |-> "nobody", msg |-> NoAnswer]

Told == cli.told.dialect # Unset

\* The client asks; it may ask again after an error.
ClientNegotiate(o) ==
  /\ ~down /\ wire = Silence /\ ~Told /\ tries < MaxTries
  /\ tries' = tries + 1
  /\ cli' = [cli EXCEPT !.offer = o, !.hash = Hash(<<>>, o)]
  /\ wire' = [to |-> "server", msg |-> o]
  /\ UNCHANGED <<prefs, srv, legs, alters, down>>

\* The server chooses, remembers what the client sent, and hashes the exchange.
Negotiate ==
  /\ wire.to = "server"
  /\ LET o == wire.msg
         d == Chosen(o.dialects)
     IN  IF Acceptable(o)
         THEN /\ srv' = [srv EXCEPT !.dialect = d, !.cipher = CipherFor(o), !.client_neg = o.neg,
                                    !.server_caps = Caps(d), !.preauth = NegotiatedHash(o)]
              /\ wire' = [to |-> "client", msg |-> Response(o)]
         ELSE UNCHANGED srv /\ wire' = [to |-> "client", msg |-> NoAnswer]
  /\ UNCHANGED <<prefs, cli, legs, tries, alters, down>>

\* The client takes an answer that is one to its question.
ClientTold ==
  /\ wire.to = "client"
  /\ LET r == wire.msg
     IN  IF r = NoAnswer THEN UNCHANGED <<cli, down>>
         ELSE /\ down' = ~(r.dialect \in cli.offer.dialects /\ (r.cipher = Unset \/ Among(r.cipher, cli.offer.ciphers)))
              /\ cli' = [cli EXCEPT !.told = r, !.hash = Hash(@, r)]
  /\ wire' = Silence
  /\ UNCHANGED <<prefs, srv, legs, tries, alters>>

\* A second NEGOTIATE, or SMB1 after the first, ends the connection.
Again ==
  /\ ~down /\ srv.dialect # Unset /\ Told /\ tries < MaxTries
  /\ down' = TRUE /\ tries' = tries + 1
  /\ UNCHANGED <<prefs, srv, cli, wire, legs, alters>>

\* An SMB1 NEGOTIATE first: one that offers SMB2 gets the wildcard answer, whose
\* capabilities stand until the SMB2 NEGOTIATE, any other ends the connection.
Smb1(offersSmb2) ==
  /\ ~down /\ srv.dialect = Unset /\ wire = Silence /\ tries < MaxTries
  /\ tries' = tries + 1
  /\ srv' = IF offersSmb2 THEN [srv EXCEPT !.server_caps = Caps(\h02FF)] ELSE srv
  /\ down' = ~offersSmb2
  /\ UNCHANGED <<prefs, cli, wire, legs, alters>>

------------------------------------------------------------------------------
(* SESSION_SETUP *)

\* A signing key: the session key itself before 3.0, derived from it for 3.0 and
\* 3.0.2 alike, and from it and the hash for 3.1.1.
Family(dialect) == IF dialect = \h0311 THEN "3.1.1" ELSE IF dialect \in {\h0202, \h0210} THEN "2" ELSE "3.0"
Key(s, dialect, h) == [session |-> s, family |-> Family(dialect), hash |-> IF dialect = \h0311 THEN h ELSE <<>>]

NoLeg == [to |-> "nobody", leg |-> 0, last |-> FALSE, key |-> Unset, altered |-> FALSE]

\* The client sends its next leg.
ClientLeg(s, last) ==
  LET c == cli.setup[s]
      m == [to |-> "server", leg |-> c.leg + 1, last |-> last, key |-> Unset, altered |-> FALSE]
  IN  /\ ~down /\ Told /\ legs[s] = NoLeg /\ c.state = "legs" /\ c.leg < MaxLegs
      /\ c.leg + 1 = MaxLegs => last
      /\ legs' = [legs EXCEPT ![s] = m]
      /\ cli' = [cli EXCEPT !.setup[s] = [c EXCEPT !.leg = @ + 1,
                                                   !.hash = Hash(IF c.leg = 0 THEN cli.hash ELSE @, <<s, m>>)]]
      /\ UNCHANGED <<prefs, srv, wire, tries, alters, down>>

\* Mutant: the key is derived before the request is hashed.
SetupLeg_KeyFirst(s) ==
  LET m == legs[s]
      h == Hash(IF m.leg = 1 THEN srv.preauth ELSE srv.setup[s].hash, <<s, m>>)
      key == IF m.last THEN Key(s, srv.dialect, IF m.leg = 1 THEN srv.preauth ELSE srv.setup[s].hash) ELSE Unset
      resp == [m EXCEPT !.to = "client", !.key = key, !.altered = FALSE]
  IN  /\ ~down /\ m.to = "server"
      /\ legs' = [legs EXCEPT ![s] = resp]
      /\ srv' = [srv EXCEPT !.setup[s] =
                   [key |-> key, hash |-> IF srv.dialect # \h0311 THEN <<>>
                                          ELSE IF m.last THEN h ELSE Hash(h, <<s, resp>>)]]
      /\ UNCHANGED <<prefs, cli, wire, tries, alters, down>>

\* A leg at the server: the request is hashed before a key is derived; the last leg
\* of an authentication is answered under the new key, and the response to any other
\* is hashed too.
SetupLeg(s) ==
  LET m == legs[s]
      h == Hash(IF m.leg = 1 THEN srv.preauth ELSE srv.setup[s].hash, <<s, m>>)
      key == IF m.last THEN Key(s, srv.dialect, h) ELSE Unset
      resp == [m EXCEPT !.to = "client", !.key = key, !.altered = FALSE]
  IN  /\ ~down /\ m.to = "server"
      /\ legs' = [legs EXCEPT ![s] = resp]
      /\ srv' = [srv EXCEPT !.setup[s] =
                   [key |-> key, hash |-> IF srv.dialect # \h0311 THEN <<>>
                                          ELSE IF m.last THEN h ELSE Hash(h, <<s, resp>>)]]
      /\ UNCHANGED <<prefs, cli, wire, tries, alters, down>>

\* The client takes the answer; the last one has to verify under its own key.
ClientAnswered(s) ==
  LET m == legs[s]
      c == cli.setup[s]
      good == ~m.altered /\ m.key = Key(s, cli.told.dialect, c.hash)
  IN  /\ ~down /\ m.to = "client"
      /\ legs' = [legs EXCEPT ![s] = NoLeg]
      /\ cli' = [cli EXCEPT !.setup[s] =
                   IF ~m.last THEN [c EXCEPT !.hash = Hash(@, <<s, m>>)]
                   ELSE [c EXCEPT !.state = IF ~good THEN "failed"
                                            ELSE IF cli.told.dialect = \h0311 THEN "trusted" ELSE "validate"]]
      /\ UNCHANGED <<prefs, srv, wire, tries, alters, down>>

------------------------------------------------------------------------------
(* ioctl: FSCTL_VALIDATE_NEGOTIATE_INFO *)

\* What the client repeats is what the server got, and leads to the same dialect.
Valid(o) == o.neg = srv.client_neg /\ Chosen(o.dialects) = srv.dialect

\* Signed both ways: the server compares, then the client does.
Validate(s) ==
  /\ ~down /\ cli.setup[s].state = "validate"
  /\ IF Valid(cli.offer)
     THEN /\ cli' = [cli EXCEPT !.setup[s].state =
                       IF cli.told.dialect = srv.dialect /\ cli.told.caps = srv.server_caps
                       THEN "trusted" ELSE "failed"]
          /\ UNCHANGED down
     ELSE down' = TRUE /\ cli' = [cli EXCEPT !.setup[s].state = "failed"]
  /\ UNCHANGED <<prefs, srv, wire, legs, tries, alters>>

------------------------------------------------------------------------------
(* Messages that change on the way *)

AlterNegotiate(o) ==
  /\ alters < MaxAlters /\ wire # Silence
  /\ IF wire.to = "server" THEN wire' = [wire EXCEPT !.msg = o]
     ELSE /\ wire.msg # NoAnswer /\ Acceptable(o)
          /\ wire' = [wire EXCEPT !.msg = Response(o)]
  /\ wire' # wire
  /\ alters' = alters + 1
  /\ UNCHANGED <<prefs, srv, cli, legs, tries, down>>

AlterLeg(s) ==
  /\ alters < MaxAlters /\ legs[s] # NoLeg /\ ~legs[s].altered
  /\ legs' = [legs EXCEPT ![s].altered = TRUE]
  /\ alters' = alters + 1
  /\ UNCHANGED <<prefs, srv, cli, wire, tries, down>>

------------------------------------------------------------------------------

ShakeInit ==
  /\ prefs \in [aes256 : BOOLEAN, multichannel : BOOLEAN, oplocks : {TRUE}]
  /\ srv = [dialect |-> Unset, cipher |-> Unset, client_neg |-> Unset, server_caps |-> {}, preauth |-> <<>>,
            setup |-> [s \in Setups |-> [hash |-> <<>>, key |-> Unset]]]
  /\ cli = [offer |-> Unset, told |-> NoAnswer, hash |-> <<>>,
            setup |-> [s \in Setups |-> [leg |-> 0, hash |-> <<>>, state |-> "legs"]]]
  /\ wire = Silence
  /\ legs = [s \in Setups |-> NoLeg]
  /\ tries = 0 /\ alters = 0
  /\ down = FALSE

ShakeNext ==
  \/ \E o \in Offers : ClientNegotiate(o) \/ AlterNegotiate(o)
  \/ Negotiate \/ ClientTold \/ Again
  \/ \E b \in BOOLEAN : Smb1(b)
  \/ \E s \in Setups :
       \/ \E last \in BOOLEAN : ClientLeg(s, last)
       \/ SetupLeg(s) \/ ClientAnswered(s) \/ Validate(s) \/ AlterLeg(s)

ShakeSpec == ShakeInit /\ [][ShakeNext]_shakevars

------------------------------------------------------------------------------
(* Properties *)

\* A client that trusts a session agrees with the server on the dialect, the cipher and
\* the capabilities, and they are the ones its own offer leads to, whatever was altered
\* on the way: the preauth hash (3.1.1) or VALIDATE_NEGOTIATE_INFO notices. And only
\* then does a setup fail: while nothing was altered the two hashes agree, for any number
\* of legs of interleaved setups (negotiate, the post-pass of process_plain, the setup
\* handlers, ioctl).
HandshakeAgrees ==
  \A s \in Setups :
    /\ cli.setup[s].state = "trusted" =>
         /\ srv.dialect = Chosen(cli.offer.dialects) /\ cli.told.dialect = srv.dialect
         /\ srv.cipher = CipherFor(cli.offer) /\ cli.told.cipher = srv.cipher
         /\ cli.told.caps = srv.server_caps
    /\ cli.setup[s].state = "failed" => alters > 0
==============================================================================
