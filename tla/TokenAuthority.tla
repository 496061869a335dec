--------------------------- MODULE TokenAuthority ---------------------------
(***************************************************************************)
(* The coordinator's token authority and the start-up that gives it its   *)
(* secret.  runServer (src/unnamed/part_000) loads the server config       *)
(* (LoadServerConfig, src/internal/config/config.go), validates it and     *)
(* starts the server, whose cfg.AuthToken is the HMAC secret with which    *)
(* GenerateToken signs and ValidateToken verifies the relay tokens         *)
(* (src/internal/coord/auth.go).  The operator may edit the config file    *)
(* and the coordinator may be stopped and started again, with the same or  *)
(* another secret.  Clients present the tokens they were given, or tokens  *)
(* they signed themselves with the empty secret, which anyone can compute. *)
(*                                                                         *)
(* Time is counted in ticks, TPS ticks to a second, and TokenExpiry (24 h  *)
(* in the code) is Expiry seconds: what matters is that jwt's NumericDate  *)
(* keeps whole seconds while time.Now does not.  A config file is          *)
(* abstracted to the fields Validate looks at: whether listen is set, the  *)
(* auth token, and whether mesh_cidr is empty, valid or not a CIDR.        *)
(***************************************************************************)
EXTENDS Naturals, FiniteSets

CONSTANTS
  Secrets,     \* non-empty auth_token values
  Peers,       \* peer names a token is issued to
  ConfigFiles, \* contents the config file may have
  TPS,         \* clock ticks per second
  Expiry,      \* TokenExpiry in seconds
  MaxTime,     \* bound on the clock, in ticks
  MaxTokens,   \* bound on the tokens issued
  MaxStarts,   \* bound on runServer invocations
  MaxEdits,    \* bound on edits of the config file
  Missing,     \* the config file cannot be read
  Malformed,   \* the config file is not valid YAML
  NoTime       \* no GenerateToken call in progress

ASSUME TPS \in Nat \ {0} /\ Expiry \in Nat \ {0}
ASSUME MaxTime \in Nat /\ MaxTokens \in Nat /\ MaxStarts \in Nat /\ MaxEdits \in Nat

Empty == ""                 \* an unset string field
Keys == Secrets \cup {Empty}
Down == "down"              \* no coordinator process is running
Unreadable == {Missing, Malformed}

(* The parsed fields of a config file.                                     *)
ServerConfigs == [listen : BOOLEAN, authToken : Keys, meshCIDR : {Empty, "valid", "bad"}]

ASSUME ConfigFiles \subseteq ServerConfigs \cup Unreadable

Seconds == 0..(MaxTime \div TPS + Expiry)
Token == [peer : Peers, key : Keys, iat : Seconds, exp : Seconds]

VARIABLES
  now,      \* the clock, in ticks
  file,     \* the contents of the config file
  edits,    \* edits of the config file so far
  srv,      \* the running coordinator's cfg.AuthToken, or Down
  starts,   \* runServer invocations so far
  gen,      \* per peer: the first time.Now of a GenerateToken call
  issued,   \* the tokens GenerateToken has returned
  last      \* the last ValidateToken call: token, time and verdict

vars == <<now, file, edits, srv, starts, gen, issued, last>>

NoCheck == [tok |-> "none"]

TypeOK ==
  /\ now \in 0..MaxTime
  /\ file \in ConfigFiles /\ edits \in 0..MaxEdits
  /\ srv \in Keys \cup {Down} /\ starts \in 0..MaxStarts
  /\ gen \in [Peers -> 0..MaxTime \cup {NoTime}]
  /\ issued \subseteq Token /\ Cardinality(issued) <= MaxTokens
  /\ last \in [tok : Token, at : 0..MaxTime, ok : BOOLEAN] \cup {NoCheck}

Init ==
  /\ now = 0
  /\ file \in ConfigFiles /\ edits = 0
  /\ srv = Down /\ starts = 0
  /\ gen = [p \in Peers |-> NoTime]
  /\ issued = {}
  /\ last = NoCheck

-----------------------------------------------------------------------------
(* Configuration and start-up                                              *)

(* LoadServerConfig: a read or YAML error is returned; otherwise an empty  *)
(* mesh_cidr becomes the default 10.99.0.0/16 (and an empty domain suffix  *)
(* ".mesh", which nothing here reads).                                     *)
LoadServerConfig(f) ==
  IF f \in Unreadable THEN f
  ELSE [f EXCEPT !.meshCIDR = IF @ = Empty THEN "valid" ELSE @]

(* Variant of Validate that does not require an auth_token.               *)
ValidateWithoutToken(c) ==
  /\ c.listen
  /\ c.meshCIDR /= "bad"

(* ServerConfig.Validate: listen and auth_token are required, and a        *)
(* non-empty mesh_cidr must parse.                                         *)
Validate(c) ==
  /\ c.listen
  /\ c.authToken /= Empty
  /\ c.meshCIDR /= "bad"

(* runServer: load, validate and serve with cfg.AuthToken; any error ends  *)
(* the process, and the coordinator stays down.                           *)
RunServer ==
  /\ srv = Down
  /\ starts < MaxStarts
  /\ starts' = starts + 1
  /\ LET c == LoadServerConfig(file) IN
       srv' = IF c \notin Unreadable /\ Validate(c) THEN c.authToken ELSE Down
  /\ UNCHANGED <<now, file, edits, gen, issued, last>>

(* SIGINT or SIGTERM: os.Exit(0), in the middle of whatever it was doing.  *)
Shutdown ==
  /\ srv /= Down
  /\ srv' = Down
  /\ gen' = [p \in Peers |-> NoTime]
  /\ UNCHANGED <<now, file, edits, starts, issued, last>>

(* The operator rewrites the config file; the running coordinator keeps    *)
(* the secret it started with.                                             *)
EditConfig(f) ==
  /\ edits < MaxEdits
  /\ file /= f
  /\ file' = f
  /\ edits' = edits + 1
  /\ UNCHANGED <<now, srv, starts, gen, issued, last>>

Tick ==
  /\ now < MaxTime
  /\ now' = now + 1
  /\ UNCHANGED <<file, edits, srv, starts, gen, issued, last>>

-----------------------------------------------------------------------------
(* GenerateToken reads the clock twice: first for ExpiresAt, then for      *)
(* IssuedAt.  NewNumericDate truncates each to the second.                 *)

(* time.Now().Add(TokenExpiry) for ExpiresAt.                              *)
GenReadExp(p) ==
  /\ srv /= Down
  /\ gen[p] = NoTime
  /\ Cardinality(issued) < MaxTokens
  /\ gen' = [gen EXCEPT ![p] = now]
  /\ UNCHANGED <<now, file, edits, srv, starts, issued, last>>

(* Variant of GenSign that keeps ExpiresAt in clock ticks, not seconds.   *)
GenSignTicks(p) ==
  /\ srv /= Down
  /\ gen[p] /= NoTime
  /\ issued' = issued \cup {[peer |-> p, key |-> srv,
                             iat |-> now \div TPS,
                             exp |-> gen[p] + Expiry * TPS]}
  /\ gen' = [gen EXCEPT ![p] = NoTime]
  /\ UNCHANGED <<now, file, edits, srv, starts, last>>

(* Variant of GenSign that reads IssuedAt first and ExpiresAt second.      *)
GenSignSwapped(p) ==
  /\ srv /= Down
  /\ gen[p] /= NoTime
  /\ issued' = issued \cup {[peer |-> p, key |-> srv,
                             iat |-> gen[p] \div TPS,
                             exp |-> now \div TPS + Expiry]}
  /\ gen' = [gen EXCEPT ![p] = NoTime]
  /\ UNCHANGED <<now, file, edits, srv, starts, last>>

(* time.Now() for IssuedAt, then SignedString with cfg.AuthToken.          *)
GenSign(p) ==
  /\ srv /= Down
  /\ gen[p] /= NoTime
  /\ issued' = issued \cup {[peer |-> p, key |-> srv,
                             iat |-> now \div TPS,
                             exp |-> gen[p] \div TPS + Expiry]}
  /\ gen' = [gen EXCEPT ![p] = NoTime]
  /\ UNCHANGED <<now, file, edits, srv, starts, last>>

(* Tokens a client may sign itself: with the empty secret, any claims.     *)
Forged == [peer : Peers, key : {Empty}, iat : Seconds, exp : Seconds]

(* ValidateToken: the HMAC must verify under cfg.AuthToken, and jwt's      *)
(* default validator requires now < exp (time.Now against whole seconds;   *)
(* iat is not checked without WithIssuedAt).                               *)
ValidateToken(t) ==
  /\ srv /= Down
  /\ last' = [tok |-> t, at |-> now, ok |-> t.key = srv /\ now < t.exp * TPS]
  /\ UNCHANGED <<now, file, edits, srv, starts, gen, issued>>

-----------------------------------------------------------------------------
Next ==
  \/ RunServer \/ Shutdown \/ Tick
  \/ \E f \in ConfigFiles : EditConfig(f)
  \/ \E p \in Peers : GenReadExp(p) \/ GenSign(p)
  \/ \E t \in issued \cup Forged : ValidateToken(t)

Spec == Init /\ [][Next]_vars

-----------------------------------------------------------------------------
(* PROPERTIES                                                              *)

(* The coordinator only accepts tokens it issued itself.  A client can     *)
(* always sign claims with the empty secret; runServer refuses to start    *)
(* unless Validate finds an auth_token, across config edits and restarts,  *)
(* so ValidateToken never runs with that secret.                           *)
AcceptsOnlyIssued ==
  last /= NoCheck /\ last.ok => last.tok \in issued

(* No token is accepted later than TokenExpiry after its IssuedAt, the     *)
(* bound the description gives (now <= iat + 24h).  GenerateToken reads    *)
(* the clock for ExpiresAt before it reads it for IssuedAt, and both are   *)
(* truncated to the second.                                                *)
NoAcceptBeyondLifetime ==
  last /= NoCheck /\ last.ok /\ last.tok \in issued
    => last.at <= (last.tok.iat + Expiry) * TPS

=============================================================================
