-------------------------- MODULE EnrollmentProofs --------------------------
(***************************************************************************)
(* Enrollment for any number of hosts, tokens and keys: one token makes    *)
(* one identity, the database knows what hosts hold, and a running program *)
(* finds its files again.                                                  *)
(***************************************************************************)
EXTENDS Enrollment, TLAPS

USE NameAssumption DEF database

\* The request for a key is at a stage.
At(c, stage) == request[c] # Idle /\ request[c].stage = stage

(***************************************************************************)
(* A token is redeemed before its certificate is made: a fresh one has     *)
(* made none and is in no request that went on, one that was redeemed is   *)
(* in at most one such request.                                            *)
(***************************************************************************)
Redeemed ==
    \A c \in Key : At(c, "consumed") =>
      /\ token[request[c].token] = "over"
      /\ made[request[c].token] = 0
      /\ \A d \in Key : At(d, "consumed") /\ request[d].token = request[c].token => d = c

Unspent == \A t \in Token : token[t] = "fresh" => made[t] = 0

\* What is on its way to a host is known too.
OnItsWayIsKnown ==
    /\ \A c \in Key : At(c, "saved") => identity[c] # "none"
    /\ \A h \in Host : Writing(h) => identity[program[h].key] # "none"

TokensHold == Redeemed /\ Unspent /\ OneIdentityPerToken
KeysHold == OnItsWayIsKnown /\ HeldIsKnown
IInv == TypeOK /\ TokensHold /\ KeysHold /\ RunningCanRestart

-----------------------------------------------------------------------------
\* The rows that are held stay.
LEMMA ForgetType ==
    ASSUME TypeOK, Forget
    PROVE  /\ identity' \in [Key -> Signed \cup {"none"}]
           /\ \A c \in Key : Held(c)' => identity'[c] = identity[c]
  BY DEF Forget, TypeOK

LEMMA NewKeyIsFree ==
    ASSUME NEW h \in Host, Unhindered(h)
    PROVE  NewKey \in Key /\ ~Held(NewKey)
  BY DEF Unhindered, NewKey

LEMMA SignedFacts ==
    /\ Signer \subseteq Signed
    /\ "none" \notin Signed
    /\ \A s \in Signed : Outlived(s) \in Signed
    /\ Outlived("none") = "none"
    /\ NoFile # "memory" /\ Outlived(NoFile) = NoFile
    /\ \A s : Outlived(s) = s \/ (s = "memory" /\ Outlived(s) = "void")
  BY DEF Signer, Signed, Outlived

\* A program that writes or runs is one of these records.
LEMMA ProgramShape ==
    ASSUME TypeOK, NEW h \in Host
    PROVE  /\ program[h] # Off => program[h].key \in Key
           /\ Writing(h) => program[h] \in [state : {"writing"}, key : Key, ca : Signed, left : SUBSET File]
           /\ Running(h) => program[h] \in [state : {"waiting", "running"}, key : Key]
  BY DEF TypeOK, Program, Off, Writing, Running

-----------------------------------------------------------------------------
(* Type correctness.                                                       *)

LEMMA TypeStep ==
    ASSUME TypeOK, [Next]_vars
    PROVE  TypeOK'
  <1>1. CASE UNCHANGED vars
    BY <1>1 DEF vars, TypeOK
  <1>2. ASSUME NEW h \in Host, CreateEnrollment(h)
        PROVE  TypeOK'
    BY <1>2, ForgetType DEF CreateEnrollment, TypeOK, Program
  <1>3. ASSUME NEW h \in Host, RemoveToken(h)
        PROVE  TypeOK'
    BY <1>3 DEF RemoveToken, TypeOK
  <1>4. ASSUME NEW t \in Token, TokenExpires(t)
        PROVE  TypeOK'
    BY <1>4 DEF TokenExpires, TypeOK
  <1>5. ASSUME NEW c \in Key, RevokeIdentity(c)
        PROVE  TypeOK'
    BY <1>5 DEF RevokeIdentity, TypeOK, Signed
  <1>6. ASSUME NEW c \in Key, ConsumeEnrollment(c)
        PROVE  TypeOK'
    <2>1. request[c] \in Request
      BY <1>6 DEF ConsumeEnrollment, TypeOK
    <2>2. QED
      BY <1>6, <2>1 DEF ConsumeEnrollment, TypeOK, Request
  <1>7. ASSUME NEW h \in Host, UseElsewhere(h)
        PROVE  TypeOK'
    BY <1>7 DEF UseElsewhere, TypeOK, Counted
  <1>8. ASSUME NEW c \in Key, IssueClient(c)
        PROVE  TypeOK'
    <2>1. request[c] \in Request
      BY <1>8 DEF IssueClient, TypeOK
    <2>2. QED
      BY <1>8, <2>1 DEF IssueClient, TypeOK, Request, Saved, Counted, Signed
  <1>9. ASSUME NEW c \in Key, Answer(c)
        PROVE  TypeOK'
    <2>1. request[c] \in Request
      BY <1>9 DEF Answer, TypeOK
    <2>2. QED
      BY <1>9, <2>1 DEF Answer, TypeOK, Request, Program, Signed
  <1>10. ASSUME NEW c \in Key, RequestEnds(c)
         PROVE  TypeOK'
    BY <1>10, ForgetType DEF RequestEnds, TypeOK
  <1>11. CASE RestartServer
    <2>1. file' \in [Host -> [File -> Key \cup Signed \cup {NoFile}]]
      <3>1. SUFFICES ASSUME NEW h \in Host
                     PROVE  [file[h] EXCEPT !["ca.crt"] = Outlived(@)]
                              \in [File -> Key \cup Signed \cup {NoFile}]
        BY <1>11 DEF RestartServer
      <3>2. file[h] \in [File -> Key \cup Signed \cup {NoFile}]
        BY DEF TypeOK
      <3>3. Outlived(file[h]["ca.crt"]) \in Key \cup Signed \cup {NoFile}
        <4>1. file[h]["ca.crt"] \in Key \cup Signed \cup {NoFile}
          BY <3>2 DEF File
        <4>2. QED
          BY <4>1 DEF Outlived, Signed
      <3>4. QED
        BY <3>2, <3>3
    <2>2. \A h \in Host, f \in File : file'[h][f] \in Signed => f = "ca.crt"
      BY <1>11 DEF RestartServer, TypeOK, File
    <2>3. program' \in [Host -> Program]
      <3>1. SUFFICES ASSUME NEW h \in Host, Writing(h)
                     PROVE  [program[h] EXCEPT !.ca = Outlived(@)] \in Program
        BY <1>11 DEF RestartServer, TypeOK
      <3>2. QED
        BY <3>1, ProgramShape, SignedFacts DEF Program
    <2>4. identity' \in [Key -> Signed \cup {"none"}]
      BY <1>11, SignedFacts DEF RestartServer, TypeOK
    <2>5. QED
      BY <1>11, <2>1, <2>2, <2>3, <2>4 DEF RestartServer, TypeOK
  <1>12. ASSUME NEW h \in Host, StartEnrolling(h)
         PROVE  TypeOK'
    <2>1. NewKey \in Key /\ configured[h] \in Token
      BY <1>12, NewKeyIsFree DEF StartEnrolling, TypeOK
    <2>2. QED
      BY <1>12, <2>1 DEF StartEnrolling, TypeOK, Program, Request
  <1>13. ASSUME NEW h \in Host, Load(h)
         PROVE  TypeOK'
    BY <1>13 DEF Load, Loadable, TypeOK, Program
  <1>14. ASSUME NEW h \in Host, NEW f \in File, WriteFile(h, f)
         PROVE  TypeOK'
    <2>1. program[h] \in [state : {"writing"}, key : Key, ca : Signed, left : SUBSET File]
      BY <1>14, ProgramShape DEF WriteFile
    <2>2. program' \in [Host -> Program]
      BY <1>14, <2>1 DEF WriteFile, TypeOK, Program
    <2>3. Contents(h, f) \in Key \cup Signed /\ (Contents(h, f) \in Signed => f = "ca.crt")
      BY <2>1 DEF Contents
    <2>4. QED
      BY <1>14, <2>2, <2>3, ForgetType DEF WriteFile, TypeOK
  <1>15. ASSUME NEW h \in Host, Stop(h)
         PROVE  TypeOK'
    <2>1. file' \in [Host -> [File -> Key \cup Signed \cup {NoFile}]]
      <3>1. CASE UNCHANGED file
        BY <3>1 DEF TypeOK
      <3>2. ASSUME NEW f \in program[h].left, Writing(h), file' = [file EXCEPT ![h][f] = NoFile]
            PROVE  file' \in [Host -> [File -> Key \cup Signed \cup {NoFile}]]
        BY <3>2, ProgramShape DEF TypeOK
      <3>3. QED
        BY <1>15, <3>1, <3>2 DEF Stop
    <2>2. \A g \in Host, f \in File : file'[g][f] = file[g][f] \/ file'[g][f] = NoFile
      <3>1. CASE UNCHANGED file
        BY <3>1
      <3>2. ASSUME NEW f \in program[h].left, Writing(h), file' = [file EXCEPT ![h][f] = NoFile]
            PROVE  \A g \in Host, x \in File : file'[g][x] = file[g][x] \/ file'[g][x] = NoFile
        BY <3>2 DEF TypeOK
      <3>3. QED
        BY <1>15, <3>1, <3>2 DEF Stop
    <2>3. QED
      BY <1>15, <2>1, <2>2, ForgetType DEF Stop, TypeOK, Program
  <1>16. ASSUME NEW h \in Host, GiveUp(h)
         PROVE  TypeOK'
    BY <1>16, ForgetType DEF GiveUp, TypeOK, Program
  <1>17. QED
    BY <1>1, <1>2, <1>3, <1>4, <1>5, <1>6, <1>7, <1>8, <1>9, <1>10, <1>11, <1>12,
       <1>13, <1>14, <1>15, <1>16 DEF Next

\* The types of the variables hold in every state.
THEOREM EnrollmentTypes == Spec => []TypeOK
  <1>1. Init => TypeOK
    BY DEF Init, TypeOK, Program, Signer, Signed
  <1>2. TypeOK /\ [Next]_vars => TypeOK'
    BY TypeStep
  <1>3. QED
    BY <1>1, <1>2, PTL DEF Spec

-----------------------------------------------------------------------------
(* One token, one identity.                                                *)

LEMMA TokenStep ==
    ASSUME TypeOK, TokensHold, [Next]_vars
    PROVE  TokensHold'
  <1> USE DEF TokensHold, Redeemed, Unspent, OneIdentityPerToken, At
  <1>1. CASE UNCHANGED <<token, made, request>>
    BY <1>1
  <1>2. ASSUME NEW h \in Host, CreateEnrollment(h)
        PROVE  TokensHold'
    <2>1. PICK t \in Token : /\ Free(t, h)
                             /\ token' = [token EXCEPT ![t] = "fresh"]
                             /\ made' = [made EXCEPT ![t] = 0]
      BY <1>2 DEF CreateEnrollment
    <2>2. \A c \in Key : request[c] # Idle => request[c].token # t
      BY <2>1 DEF Free
    <2>3. UNCHANGED request
      BY <1>2 DEF CreateEnrollment
    <2>4. QED
      BY <2>1, <2>2, <2>3 DEF TypeOK
  <1>3. ASSUME NEW t \in Token, TokenExpires(t)
        PROVE  TokensHold'
    BY <1>3 DEF TokenExpires, TypeOK
  <1>4. ASSUME NEW c \in Key, ConsumeEnrollment(c)
        PROVE  TokensHold'
    <2>1. request[c].token \in Token /\ request[c] \in Request
      BY <1>4 DEF ConsumeEnrollment, TypeOK, Request
    <2>2. \A d \in Key : At(d, "consumed") => request[d].token # request[c].token
      BY <1>4 DEF ConsumeEnrollment, Redeemable
    <2>3. \A d \in Key : /\ request'[d].token = request[d].token
                         /\ d # c => request'[d] = request[d]
      BY <1>4, <2>1 DEF ConsumeEnrollment, TypeOK, Request
    <2>4. made[request[c].token] = 0 /\ token'[request[c].token] = "over"
      BY <1>4, <2>1 DEF ConsumeEnrollment, Redeemable, TypeOK
    <2>5. \A t \in Token : token'[t] = "fresh" => token[t] = "fresh"
      BY <1>4 DEF ConsumeEnrollment, TypeOK
    <2>6. \A t \in Token : token[t] = "over" => token'[t] = "over"
      BY <1>4 DEF ConsumeEnrollment, TypeOK
    <2>7. QED
      BY <1>4, <2>1, <2>2, <2>3, <2>4, <2>5, <2>6 DEF ConsumeEnrollment
  <1>5. ASSUME NEW h \in Host, UseElsewhere(h)
        PROVE  TokensHold'
    <2>1. configured[h] \in Token /\ token[configured[h]] = "fresh"
      BY <1>5 DEF UseElsewhere, TypeOK, Redeemable
    <2>2. QED
      BY <1>5, <2>1 DEF UseElsewhere, Counted, TypeOK
  <1>6. ASSUME NEW c \in Key, IssueClient(c)
        PROVE  TokensHold'
    <2>1. request[c].token \in Token
      BY <1>6 DEF IssueClient, TypeOK, Request
    <2>2. /\ token[request[c].token] = "over" /\ made[request[c].token] = 0
          /\ \A d \in Key \ {c} : At(d, "consumed") => request[d].token # request[c].token
      BY <1>6 DEF IssueClient
    <2>3. \A d \in Key : At(d, "consumed")' => d # c /\ request'[d] = request[d]
      BY <1>6 DEF IssueClient, TypeOK, Request
    <2>4. made' = [made EXCEPT ![request[c].token] = 1] /\ UNCHANGED token
      BY <1>6, <2>1, <2>2 DEF IssueClient, Counted, TypeOK
    <2>5. QED
      BY <2>1, <2>2, <2>3, <2>4 DEF TypeOK
  <1>7. ASSUME UNCHANGED <<token, made>>,
               \A c \in Key : request'[c] = Idle \/ request'[c] = request[c]
                              \/ (request'[c].stage = "sent")
        PROVE  TokensHold'
    BY <1>7
  <1>8. ASSUME NEW c \in Key, Answer(c) \/ RequestEnds(c)
        PROVE  TokensHold'
    BY <1>7, <1>8 DEF Answer, RequestEnds, TypeOK
  <1>9. CASE RestartServer
    BY <1>7, <1>9 DEF RestartServer
  <1>10. ASSUME NEW h \in Host, StartEnrolling(h)
         PROVE  TokensHold'
    BY <1>7, <1>10 DEF StartEnrolling, TypeOK
  <1>11. QED
    <2>1. ASSUME NEW h \in Host, RemoveToken(h) \/ Load(h) \/ Stop(h) \/ GiveUp(h)
          PROVE  TokensHold'
      BY <1>1, <2>1 DEF RemoveToken, Load, Stop, GiveUp
    <2>2. ASSUME NEW h \in Host, NEW f \in File, WriteFile(h, f)
          PROVE  TokensHold'
      BY <1>1, <2>2 DEF WriteFile
    <2>3. ASSUME NEW c \in Key, RevokeIdentity(c)
          PROVE  TokensHold'
      BY <1>1, <2>3 DEF RevokeIdentity
    <2>4. CASE UNCHANGED vars
      BY <1>1, <2>4 DEF vars
    <2>5. QED
      BY <1>2, <1>3, <1>4, <1>5, <1>6, <1>8, <1>9, <1>10, <2>1, <2>2, <2>3, <2>4 DEF Next

-----------------------------------------------------------------------------
(* The database knows what hosts hold.                                     *)

\* What is held after a step and was known before it is known after it.
LEMMA ForgetKeeps ==
    ASSUME TypeOK', Forget,
           \A h \in Host, f \in File : file'[h][f] \in Key => identity[file'[h][f]] # "none",
           \A h \in Host : Writing(h)' => identity[program'[h].key] # "none",
           \A c \in Key : At(c, "saved")' => identity[c] # "none"
    PROVE  KeysHold'
  <1>1. \A c \in Key : Held(c)' => identity'[c] = identity[c]
    BY DEF Forget
  <1>2. \A h \in Host : Writing(h)' => program'[h].key \in Key /\ program'[h] # Off
    BY DEF TypeOK, Program, Off, Writing
  <1>3. QED
    BY <1>1, <1>2 DEF KeysHold, HeldIsKnown, OnItsWayIsKnown, Held, At

LEMMA KnownStep ==
    ASSUME TypeOK, KeysHold, [Next]_vars
    PROVE  KeysHold'
  <1> USE DEF KeysHold, HeldIsKnown, OnItsWayIsKnown, At
  <1>1. TypeOK'
    BY TypeStep
  <1>2. CASE UNCHANGED <<identity, file, program, request>>
    BY <1>2 DEF Writing
  <1>3. ASSUME NEW h \in Host, CreateEnrollment(h)
        PROVE  KeysHold'
    <2>1. Forget /\ UNCHANGED <<file, request>> /\ program' = [program EXCEPT ![h] = Off]
      BY <1>3 DEF CreateEnrollment
    <2>2. \A g \in Host : Writing(g)' => Writing(g) /\ program'[g] = program[g]
      BY <2>1 DEF Writing, Off, TypeOK
    <2>3. QED
      BY <1>1, <2>1, <2>2, ForgetKeeps
  <1>4. ASSUME NEW c \in Key, RevokeIdentity(c)
        PROVE  KeysHold'
    BY <1>4 DEF RevokeIdentity, TypeOK, Writing
  <1>5. ASSUME NEW c \in Key, ConsumeEnrollment(c)
        PROVE  KeysHold'
    <2>1. \A d \in Key : At(d, "saved")' => At(d, "saved")
      BY <1>5 DEF ConsumeEnrollment, TypeOK, Request
    <2>2. QED
      BY <1>5, <2>1 DEF ConsumeEnrollment, Writing
  <1>6. ASSUME NEW c \in Key, IssueClient(c)
        PROVE  KeysHold'
    <2>1. identity' = [identity EXCEPT ![c] = authority] /\ UNCHANGED <<file, program>>
      BY <1>6 DEF IssueClient, Saved
    <2>2. authority # "none"
      BY DEF TypeOK, Signer
    <2>3. \A d \in Key : identity[d] # "none" => identity'[d] # "none"
      BY <2>1, <2>2 DEF TypeOK
    <2>4. identity'[c] # "none"
      BY <2>1, <2>2 DEF TypeOK
    <2>5. \A d \in Key \ {c} : request'[d] = request[d]
      BY <1>6 DEF IssueClient, TypeOK
    <2>6. \A h \in Host : Writing(h) => program[h].key \in Key
      BY ProgramShape
    <2>7. QED
      BY <2>1, <2>3, <2>4, <2>5, <2>6 DEF Writing
  <1>7. ASSUME NEW c \in Key, Answer(c)
        PROVE  KeysHold'
    <2>1. At(c, "saved") /\ UNCHANGED <<identity, file>>
      BY <1>7 DEF Answer
    <2>2. \A d \in Key : At(d, "saved")' => At(d, "saved")
      BY <1>7 DEF Answer, TypeOK
    <2>3. \A h \in Host : Writing(h)' => program'[h].key = c \/ program'[h] = program[h]
      BY <1>7 DEF Answer, TypeOK
    <2>4. QED
      BY <2>1, <2>2, <2>3 DEF Writing
  <1>8. ASSUME NEW c \in Key, RequestEnds(c)
        PROVE  KeysHold'
    <2>1. Forget /\ UNCHANGED <<file, program>>
      BY <1>8 DEF RequestEnds
    <2>2. \A d \in Key : At(d, "saved")' => At(d, "saved")
      BY <1>8 DEF RequestEnds, TypeOK
    <2>3. QED
      BY <1>1, <2>1, <2>2, ForgetKeeps DEF Writing
  <1>9. CASE RestartServer
    <2>1. \A h \in Host, f \in File : file'[h][f] \in Key => file'[h][f] = file[h][f]
      BY <1>9, SignedFacts DEF RestartServer, TypeOK, Outlived, Signed, File
    <2>2. \A h \in Host : Writing(h)' => /\ Writing(h) /\ program'[h].key = program[h].key
                                         /\ program'[h] # Off /\ program[h].key \in Key
      BY <1>1, <1>9, ProgramShape DEF RestartServer, TypeOK, Writing, Off
    <2>3. \A c \in Key : identity[c] # "none" => Outlived(identity[c]) # "none"
      BY DEF Outlived
    <2>4. \A c \in Key : Held(c)' /\ identity[c] # "none" => identity'[c] # "none"
      BY <1>9, <2>3 DEF RestartServer
    <2>5. \A c \in Key : (\E h \in Host, f \in File : file'[h][f] = c) => Held(c)'
      BY DEF Held
    <2>6. \A c \in Key : (\E h \in Host : program'[h] # Off /\ program'[h].key = c) => Held(c)'
      BY DEF Held
    <2>7. \A c \in Key : ~At(c, "saved")'
      BY <1>9 DEF RestartServer
    <2>8. QED
      BY <2>1, <2>2, <2>4, <2>5, <2>6, <2>7
  <1>10. ASSUME NEW h \in Host, StartEnrolling(h)
         PROVE  KeysHold'
    <2>1. \A d \in Key : At(d, "saved")' => At(d, "saved")
      BY <1>10 DEF StartEnrolling, TypeOK
    <2>2. \A g \in Host : Writing(g)' => Writing(g) /\ program'[g] = program[g]
      BY <1>10 DEF StartEnrolling, Writing, TypeOK
    <2>3. QED
      BY <1>10, <2>1, <2>2 DEF StartEnrolling
  <1>11. ASSUME NEW h \in Host, Load(h)
         PROVE  KeysHold'
    <2>1. \A g \in Host : Writing(g)' => Writing(g) /\ program'[g] = program[g]
      BY <1>11 DEF Load, Writing, TypeOK
    <2>2. QED
      BY <1>11, <2>1 DEF Load
  <1>12. ASSUME NEW h \in Host, NEW f \in File, WriteFile(h, f)
         PROVE  KeysHold'
    <2>1. /\ Forget /\ Writing(h) /\ UNCHANGED request
          /\ file' = [file EXCEPT ![h][f] = Contents(h, f)]
      BY <1>12 DEF WriteFile
    <2>2. program[h] \in [state : {"writing"}, key : Key, ca : Signed, left : SUBSET File]
      BY <2>1, ProgramShape
    <2>3. Contents(h, f) \in Key => Contents(h, f) = program[h].key
      BY <2>2 DEF Contents
    <2>4. \A g \in Host, e \in File : file'[g][e] = file[g][e] \/ file'[g][e] = Contents(h, f)
      BY <2>1 DEF TypeOK
    <2>5. program'[h].key = program[h].key
      BY <1>12, <2>2 DEF WriteFile, TypeOK
    <2>6. \A g \in Host \ {h} : program'[g] = program[g]
      BY <1>12 DEF WriteFile, TypeOK
    <2>7. \A g \in Host : Writing(g)' => identity[program'[g].key] # "none"
      BY <2>1, <2>5, <2>6 DEF Writing
    <2>8. \A g \in Host, e \in File : file'[g][e] \in Key => identity[file'[g][e]] # "none"
      BY <2>1, <2>3, <2>4
    <2>9. QED
      BY <1>1, <2>1, <2>7, <2>8, ForgetKeeps
  <1>13. ASSUME NEW h \in Host, Stop(h) \/ GiveUp(h)
         PROVE  KeysHold'
    <2>1. Forget /\ UNCHANGED request /\ program' = [program EXCEPT ![h] = Off]
      BY <1>13 DEF Stop, GiveUp
    <2>2. \A g \in Host : Writing(g)' => Writing(g) /\ program'[g] = program[g]
      BY <2>1 DEF Writing, Off, TypeOK
    <2>3. \A g \in Host, f \in File : file'[g][f] = file[g][f] \/ file'[g][f] = NoFile
      <3>1. CASE UNCHANGED file
        BY <3>1
      <3>2. CASE Writing(h) /\ \E f \in program[h].left : file' = [file EXCEPT ![h][f] = NoFile]
        BY <3>2, ProgramShape DEF TypeOK
      <3>3. QED
        BY <1>13, <3>1, <3>2 DEF Stop, GiveUp
    <2>4. QED
      BY <1>1, <2>1, <2>2, <2>3, ForgetKeeps
  <1>14. QED
    <2>1. ASSUME NEW h \in Host, RemoveToken(h) \/ UseElsewhere(h)
          PROVE  KeysHold'
      BY <1>2, <2>1 DEF RemoveToken, UseElsewhere
    <2>2. ASSUME NEW t \in Token, TokenExpires(t)
          PROVE  KeysHold'
      BY <1>2, <2>2 DEF TokenExpires
    <2>3. CASE UNCHANGED vars
      BY <1>2, <2>3 DEF vars
    <2>4. QED
      BY <1>3, <1>4, <1>5, <1>6, <1>7, <1>8, <1>9, <1>10, <1>11, <1>12, <1>13,
         <2>1, <2>2, <2>3 DEF Next

-----------------------------------------------------------------------------
(* A running program finds its files again.                                *)

LEMMA RunningStep ==
    ASSUME TypeOK, RunningCanRestart, [Next]_vars
    PROVE  RunningCanRestart'
  <1> USE DEF RunningCanRestart
  <1>1. CASE UNCHANGED <<file, program>>
    BY <1>1 DEF Running
  <1>2. ASSUME NEW h \in Host, ~Running(h)',
               \A g \in Host \ {h} : program'[g] = program[g] /\ file'[g] = file[g]
        PROVE  RunningCanRestart'
    BY <1>2 DEF Running
  <1>3. ASSUME NEW h \in Host, CreateEnrollment(h) \/ GiveUp(h) \/ StartEnrolling(h) \/ Stop(h)
        PROVE  RunningCanRestart'
    BY <1>2, <1>3 DEF CreateEnrollment, GiveUp, StartEnrolling, Stop, Running, Off, TypeOK
  <1>4. ASSUME NEW h \in Host, NEW f \in File, WriteFile(h, f)
        PROVE  RunningCanRestart'
    <2>1. program'[h] = [program[h] EXCEPT !.left = program[h].left \ {f}]
      BY <1>4 DEF WriteFile, TypeOK
    <2>2. program'[h].state = "writing"
      BY <1>4, <2>1, ProgramShape DEF WriteFile
    <2>3. ~Running(h)'
      BY <2>2 DEF Running
    <2>4. QED
      BY <1>2, <1>4, <2>3 DEF WriteFile, TypeOK
  <1>5. ASSUME NEW c \in Key, Answer(c)
        PROVE  RunningCanRestart'
    <2>1. PICK h \in Host : program' = [program EXCEPT ![h] =
                 [state |-> "writing", key |-> c, ca |-> authority, left |-> File]]
      BY <1>5 DEF Answer, TypeOK, Request
    <2>2. QED
      BY <1>2, <1>5, <2>1 DEF Answer, Running, TypeOK
  <1>6. ASSUME NEW h \in Host, Load(h)
        PROVE  RunningCanRestart'
    BY <1>6 DEF Load, Loadable, Running, TypeOK
  <1>7. CASE RestartServer
    <2>1. \A h \in Host : Running(h)' => Running(h) /\ program'[h] = program[h]
      <3>1. SUFFICES ASSUME NEW h \in Host, Writing(h)
                     PROVE  [program[h] EXCEPT !.ca = Outlived(@)].state # "running"
        BY <1>7 DEF RestartServer, Running
      <3>2. QED
        BY <3>1, ProgramShape DEF Writing
    <2>2. \A h \in Host : /\ file'[h]["client.crt"] = file[h]["client.crt"]
                          /\ file'[h]["client.key"] = file[h]["client.key"]
                          /\ file'[h]["ca.crt"] = Outlived(file[h]["ca.crt"])
      BY <1>7 DEF RestartServer, TypeOK, File
    <2>3. QED
      BY <2>1, <2>2, SignedFacts
  <1>8. QED
    <2>1. ASSUME NEW h \in Host, RemoveToken(h) \/ UseElsewhere(h)
          PROVE  RunningCanRestart'
      BY <1>1, <2>1 DEF RemoveToken, UseElsewhere
    <2>2. ASSUME NEW t \in Token, TokenExpires(t)
          PROVE  RunningCanRestart'
      BY <1>1, <2>2 DEF TokenExpires
    <2>3. ASSUME NEW c \in Key, RevokeIdentity(c) \/ ConsumeEnrollment(c)
                                \/ IssueClient(c) \/ RequestEnds(c)
          PROVE  RunningCanRestart'
      BY <1>1, <2>3 DEF RevokeIdentity, ConsumeEnrollment, IssueClient, RequestEnds
    <2>4. CASE UNCHANGED vars
      BY <1>1, <2>4 DEF vars
    <2>5. QED
      BY <1>3, <1>4, <1>5, <1>6, <1>7, <2>1, <2>2, <2>3, <2>4 DEF Next

-----------------------------------------------------------------------------
LEMMA EnrollmentInvariant == Spec => []IInv
  <1>1. Init => IInv
    BY DEF Init, IInv, TypeOK, Program, Signer, Signed, TokensHold, Redeemed,
       Unspent, OneIdentityPerToken, At, KeysHold, OnItsWayIsKnown, HeldIsKnown, Writing,
       RunningCanRestart, Running, Off
  <1>2. IInv /\ [Next]_vars => IInv'
    BY TypeStep, TokenStep, KnownStep, RunningStep DEF IInv
  <1>3. QED
    BY <1>1, <1>2, PTL DEF Spec

\* A token makes one identity, however many hosts present it, in whatever
\* order the server takes their requests.
THEOREM TokenUsedOnce == Spec => []OneIdentityPerToken
  <1>1. IInv => OneIdentityPerToken
    BY DEF IInv, TokensHold
  <1>2. QED
    BY <1>1, EnrollmentInvariant, PTL

\* What a host holds, the operator can find and revoke.
THEOREM HostsAreKnown == Spec => []HeldIsKnown
  <1>1. IInv => HeldIsKnown
    BY DEF IInv, KeysHold
  <1>2. QED
    BY <1>1, EnrollmentInvariant, PTL

\* A running program has its key and certificate on its disk.
THEOREM ProgramsRestart == Spec => []RunningCanRestart
  <1>1. IInv => RunningCanRestart
    BY DEF IInv
  <1>2. QED
    BY <1>1, EnrollmentInvariant, PTL
=============================================================================
