----------------------------- MODULE Enrollment -----------------------------
(***************************************************************************)
(* How agents and collectors get their client certificates: the operator's *)
(* one-time token, POST /api/v1/enroll, the three files the program keeps  *)
(* and the authority the server loads when it starts.  Programs crash and  *)
(* are restarted by systemd, the server restarts, answers are lost.        *)
(*                                                                         *)
(* The program makes a key for every attempt.  Key, certificate and the    *)
(* identity's row bear one name here, a member of Key.                     *)
(***************************************************************************)
EXTENDS Naturals, FiniteSets

CONSTANTS
    Host,       \* hosts with an agent or a collector
    Token,      \* enrollment tokens
    Key,        \* key pairs of enrollment attempts
    NoToken,    \* GOLIVE_ENROLLMENT_TOKEN is not set
    NoFile,     \* a file that is not there, or not whole
    Idle        \* no request

\* The stored authority and one that only the running server has; "void" is
\* one that an earlier server took with it.
Signer == {"stored", "memory"}
Signed == Signer \cup {"void"}

ASSUME NameAssumption ==
    /\ NoToken \notin Token
    /\ NoFile \notin Key \cup Signed
    /\ Key \cap Signed = {}

VARIABLES
    token,      \* rows of enrollment_tokens
    configured, \* the token in the environment file of a host
    identity,   \* rows of enrolled_identities: who signed the certificate
    made,       \* certificates whose URI names a token's enrollment
    file,       \* client.crt, client.key and ca.crt of a host
    program,    \* the program on a host
    request,    \* POST /api/v1/enroll for a key
    authority   \* the authority the server has in memory

database == <<token, identity, made>>
vars == <<database, configured, file, program, request, authority>>

-----------------------------------------------------------------------------
File == {"client.crt", "client.key", "ca.crt"}

Off == [state |-> "off"]
Program ==
    {Off} \cup [state : {"waiting", "running"}, key : Key]
          \cup [state : {"writing"}, key : Key, ca : Signed, left : SUBSET File]

Waiting(h, c) == program[h] = [state |-> "waiting", key |-> c]
Writing(h)    == program[h].state = "writing"
Running(h)    == program[h].state = "running"

Request == [host : Host, token : Token, stage : {"sent", "consumed", "saved"}]

Held(c) ==
    \/ \E h \in Host : c \in {file[h][f] : f \in File}
    \/ \E h \in Host : program[h] # Off /\ program[h].key = c
    \/ request[c] # Idle

NewKey == CHOOSE c \in Key : ~Held(c)

\* The row of an identity stays, but one that no file, program or request
\* holds any more is of no use to anyone: its name becomes free.
Forget == identity' = [c \in Key |-> IF Held(c)' THEN identity[c] ELSE "none"]

\* The server has created its authority; nothing is enrolled.
Init ==
    /\ token = [t \in Token |-> "over"]
    /\ configured = [h \in Host |-> NoToken]
    /\ identity = [c \in Key |-> "none"]
    /\ made = [t \in Token |-> 0]
    /\ file = [h \in Host |-> [f \in File |-> NoFile]]
    /\ program = [h \in Host |-> Off]
    /\ request = [c \in Key |-> Idle]
    /\ authority = "stored"

-----------------------------------------------------------------------------
(* The operator.                                                           *)

Fresh(t) == t # NoToken /\ token[t] = "fresh"

\* The name of a token that is in no other host's file and in no request is
\* given again.
Free(t, h) ==
    /\ \A g \in Host \ {h} : configured[g] # t
    /\ \A c \in Key : request[c] # Idle => request[c].token # t

\* CreateEnrollment; the token goes into the environment file of a host that
\* has no fresh one, and the service is restarted.
CreateEnrollment(h) ==
  LET t == CHOOSE u \in Token : Free(u, h) IN
    /\ ~Fresh(configured[h])
    /\ \E u \in Token : Free(u, h)
    /\ token' = [token EXCEPT ![t] = "fresh"]
    /\ configured' = [configured EXCEPT ![h] = t]
    /\ made' = [made EXCEPT ![t] = 0]
    /\ program' = [program EXCEPT ![h] = Off]
    /\ UNCHANGED <<file, request, authority>>
    /\ Forget

\* INSTALL.md says after successful enrollment; a program that only says that
\* its token has been used invites it as well.
RemoveToken(h) ==
    /\ configured[h] # NoToken
    /\ Running(h) \/ ~Fresh(configured[h])
    /\ configured' = [configured EXCEPT ![h] = NoToken]
    /\ UNCHANGED <<database, file, program, request, authority>>

\* 15 minutes go by.
TokenExpires(t) ==
    /\ token[t] = "fresh"
    /\ token' = [token EXCEPT ![t] = "over"]
    /\ UNCHANGED <<configured, identity, made, file, program, request, authority>>

\* RevokeIdentity, or the year of the certificate is over: nothing renews it.
RevokeIdentity(c) ==
    /\ identity[c] \in Signer
    /\ identity' = [identity EXCEPT ![c] = "void"]
    /\ UNCHANGED <<token, made, configured, file, program, request, authority>>

-----------------------------------------------------------------------------
(* The server.                                                             *)

\* Mutant: a token that has been used is taken again.
Redeemable_Used(t) == token[t] \in {"fresh", "over"}

\* used_at IS NULL AND expires_at > now()
Redeemable(t) == token[t] = "fresh"

ConsumeEnrollment(c) ==
    /\ request[c] # Idle
    /\ request[c].stage = "sent"
    /\ Redeemable(request[c].token)
    /\ token' = [token EXCEPT ![request[c].token] = "over"]
    /\ request' = [request EXCEPT ![c].stage = "consumed"]
    /\ UNCHANGED <<identity, made, configured, file, program, authority>>

\* Bound: more than two are not told apart.
Counted(n) == IF n = 2 THEN 2 ELSE n + 1

\* The token was pasted on another host too, whose request comes through: all
\* it shares with the hosts here is the token.
UseElsewhere(h) ==
    /\ configured[h] # NoToken
    /\ Redeemable(configured[h])
    /\ token' = [token EXCEPT ![configured[h]] = "over"]
    /\ made' = [made EXCEPT ![configured[h]] = Counted(@)]
    /\ UNCHANGED <<identity, configured, file, program, request, authority>>

\* Mutant: the certificate is sent although its row could not be saved.
Saved_Sometimes(c) == {identity, [identity EXCEPT ![c] = authority]}

\* SaveIdentity: one transaction.  That it also makes a collector the one of its
\* site is EnrollCollector of Monitoring.
Saved(c) == {[identity EXCEPT ![c] = authority]}

IssueClient(c) ==
    /\ request[c] # Idle
    /\ request[c].stage = "consumed"
    /\ identity' \in Saved(c)
    /\ made' = [made EXCEPT ![request[c].token] = Counted(@)]
    /\ request' = [request EXCEPT ![c].stage = "saved"]
    /\ UNCHANGED <<token, configured, file, program, authority>>

\* The certificate reaches the program.
Answer(c) ==
    /\ request[c] # Idle
    /\ request[c].stage = "saved"
    /\ Waiting(request[c].host, c)
    /\ program' = [program EXCEPT ![request[c].host] =
                      [state |-> "writing", key |-> c, ca |-> authority, left |-> File]]
    /\ request' = [request EXCEPT ![c] = Idle]
    /\ UNCHANGED <<database, configured, file, authority>>

\* An error at any stage, a refused token, or an answer that is lost.
RequestEnds(c) ==
    /\ request[c] # Idle
    /\ request' = [request EXCEPT ![c] = Idle]
    /\ UNCHANGED <<token, made, configured, file, program, authority>>
    /\ Forget

\* What becomes of what was signed by an authority that was not stored.
Outlived(s) == IF s = "memory" THEN "void" ELSE s

(***************************************************************************)
(* LoadOrCreate: when the stored authority cannot be read, because of a    *)
(* failing query or another encryption key, the server makes one and       *)
(* SaveCA leaves the stored one in its place.                              *)
(***************************************************************************)
RestartServer ==
    /\ authority' \in Signer
    /\ request' = [c \in Key |-> Idle]
    /\ file' = [h \in Host |-> [file[h] EXCEPT !["ca.crt"] = Outlived(@)]]
    /\ program' = [h \in Host |-> IF Writing(h) THEN [program[h] EXCEPT !.ca = Outlived(@)]
                                  ELSE program[h]]
    /\ identity' = [c \in Key |-> IF Held(c)' THEN Outlived(identity[c]) ELSE "none"]
    /\ UNCHANGED <<token, made, configured>>

-----------------------------------------------------------------------------
(* The program.                                                            *)

\* By the next start (RestartSec=10) the server has given up the request of
\* the program's predecessor.  Bound: a name is left for the key.
Unhindered(h) ==
    /\ \A c \in Key : request[c] # Idle => request[c].host # h
    /\ \E c \in Key : ~Held(c)

\* Sends the request; the key is new.
StartEnrolling(h) ==
  LET c == NewKey IN
    /\ program[h] = Off
    /\ configured[h] # NoToken
    /\ Unhindered(h)
    /\ program' = [program EXCEPT ![h] = [state |-> "waiting", key |-> c]]
    /\ request' = [request EXCEPT ![c] =
                      [host |-> h, token |-> configured[h], stage |-> "sent"]]
    /\ UNCHANGED <<database, configured, file, authority>>

\* Mutant: the files are there.
Loadable_Exist(h) == \A f \in File : file[h][f] # NoFile

\* LoadX509KeyPair and AppendCertsFromPEM succeed.
Loadable(h) ==
    /\ file[h]["client.crt"] \in Key
    /\ file[h]["client.key"] = file[h]["client.crt"]
    /\ file[h]["ca.crt"] \in Signed

\* identityClient, after enroll or without a token.  An agent that has no
\* client.crt runs without an identity only if it has the shared
\* GOLIVE_AGENT_TOKEN, which is left out; main() stops it otherwise.
Load(h) ==
    /\ \/ program[h] = Off /\ configured[h] = NoToken
       \/ Writing(h) /\ program[h].left = {}
    /\ Loadable(h)
    /\ program' = [program EXCEPT ![h] = [state |-> "running", key |-> file[h]["client.crt"]]]
    /\ UNCHANGED <<database, configured, file, request, authority>>

\* Mutant: a key that is there is kept.
Contents_KeepsKey(h, f) ==
    IF f = "ca.crt" THEN program[h].ca
    ELSE IF f = "client.key" /\ file[h][f] # NoFile THEN file[h][f]
    ELSE program[h].key

\* What enroll writes over what was there.
Contents(h, f) == IF f = "ca.crt" THEN program[h].ca ELSE program[h].key

\* The files are written in the order in which Go happens to range over a map.
WriteFile(h, f) ==
    /\ Writing(h)
    /\ f \in program[h].left
    /\ file' = [file EXCEPT ![h][f] = Contents(h, f)]
    /\ program' = [program EXCEPT ![h].left = @ \ {f}]
    /\ UNCHANGED <<token, made, configured, request, authority>>
    /\ Forget

\* The program is killed, or a file cannot be written: os.WriteFile truncates
\* the file before it writes.
Stop(h) ==
    /\ program[h] # Off
    /\ \/ UNCHANGED file
       \/ Writing(h) /\ \E f \in program[h].left : file' = [file EXCEPT ![h][f] = NoFile]
    /\ program' = [program EXCEPT ![h] = Off]
    /\ UNCHANGED <<token, made, configured, request, authority>>
    /\ Forget

\* Its request has come to nothing: an error, and the program exits.
GiveUp(h) ==
    /\ \E c \in Key : Waiting(h, c) /\ request[c] = Idle
    /\ program' = [program EXCEPT ![h] = Off]
    /\ UNCHANGED <<token, made, configured, file, request, authority>>
    /\ Forget

-----------------------------------------------------------------------------
Next ==
    \/ \E h \in Host : CreateEnrollment(h)
    \/ \E h \in Host : RemoveToken(h)
    \/ \E t \in Token : TokenExpires(t)
    \/ \E c \in Key : RevokeIdentity(c)
    \/ \E c \in Key : ConsumeEnrollment(c)
    \/ \E h \in Host : UseElsewhere(h)
    \/ \E c \in Key : IssueClient(c)
    \/ \E c \in Key : Answer(c)
    \/ \E c \in Key : RequestEnds(c)
    \/ RestartServer
    \/ \E h \in Host : StartEnrolling(h)
    \/ \E h \in Host : Load(h)
    \/ \E h \in Host, f \in File : WriteFile(h, f)
    \/ \E h \in Host : Stop(h)
    \/ \E h \in Host : GiveUp(h)

\* The server answers a report of h: the TLS handshake succeeds on both sides
\* and IdentityBySerial finds a row.
Reporting(h) ==
    /\ Running(h)
    /\ identity[program[h].key] = authority
    /\ file[h]["ca.crt"] = authority

\* The request of the program that runs on h.
Current(h, c) == program[h] # Off /\ program[h].key = c

\* The certificate that the program on h is about to get, or gets, is valid.
Valid(h) == program[h] # Off /\ identity[program[h].key] = authority

\* The operator gives a new token to a host that does not report; programs are
\* started again; no step of an enrollment fails, and no revocation or restart
\* of the server makes it useless, every time; every request ends.
Fairness ==
  /\ \A c \in Key :
      WF_vars(ConsumeEnrollment(c) \/ IssueClient(c) \/ Answer(c) \/ RequestEnds(c))
  /\ \A h \in Host :
      /\ SF_vars(~Reporting(h) /\ Unhindered(h) /\ CreateEnrollment(h))
      /\ SF_vars(Fresh(configured[h]) /\ StartEnrolling(h))
      /\ SF_vars(\E c \in Key : Current(h, c) /\ ConsumeEnrollment(c))
      /\ SF_vars(\E c \in Key : Current(h, c) /\ IssueClient(c))
      /\ SF_vars(Valid(h) /\ \E c \in Key : Current(h, c) /\ Answer(c))
      /\ \A n \in 1 .. 3 : SF_vars(\E f \in File :
            Valid(h) /\ Writing(h) /\ Cardinality(program[h].left) = n /\ WriteFile(h, f))
      /\ SF_vars(Valid(h) /\ Writing(h) /\ Load(h))
      /\ WF_vars(\E f \in File : WriteFile(h, f))
      /\ WF_vars(Load(h))
      /\ WF_vars(GiveUp(h))

Spec == Init /\ [][Next]_vars
FairSpec == Spec /\ Fairness

-----------------------------------------------------------------------------
\* Types of the variables.
TypeOK ==
    /\ token \in [Token -> {"fresh", "over"}]
    /\ configured \in [Host -> Token \cup {NoToken}]
    /\ identity \in [Key -> Signed \cup {"none"}]
    /\ made \in [Token -> 0 .. 2]
    /\ file \in [Host -> [File -> Key \cup Signed \cup {NoFile}]]
    /\ \A h \in Host, f \in File : file[h][f] \in Signed => f = "ca.crt"
    /\ program \in [Host -> Program]
    /\ request \in [Key -> Request \cup {Idle}]
    /\ authority \in Signer

\* However many hosts send a token, and however often, it makes one identity.
OneIdentityPerToken == \A t \in Token : made[t] < 2

\* A key or certificate on a host belongs to a row of the database, so that
\* the operator can revoke it, whatever was lost on the way.
HeldIsKnown ==
    \A h \in Host, f \in File : file[h][f] \in Key => identity[file[h][f]] # "none"

\* What a running program has loaded is on its disk, whole, for the next start.
RunningCanRestart ==
    \A h \in Host : Running(h) =>
      /\ file[h]["client.crt"] = program[h].key
      /\ file[h]["client.key"] = program[h].key
      /\ file[h]["ca.crt"] \in Signed

\* An operator who answers silence with new tokens has the host reporting
\* again and again, whatever crashes, losses and restarts there are.
HostsReport == \A h \in Host : []<>Reporting(h)
=============================================================================
