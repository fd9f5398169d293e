------------------------- MODULE ModelAccess_proofs -------------------------
(***************************************************************************)
(* Proofs about ModelAccess: about the subscription (CodexTokens) for every *)
(* set of turns, renewals and sign-ins, about the settings (LLMSettings)    *)
(* for every set of tabs, sign-ins, hosts and environments, and then about  *)
(* the process that has both.                                               *)
(***************************************************************************)
EXTENDS ModelAccess, TLAPS

-----------------------------------------------------------------------------
(* The inductive invariant, in six parts.                                  *)

\* Where credentials come from: the first sign-in, or one that succeeded. What is loaded,
\* stored, presented or returned later is never of a sign-in that failed.
Known(c) == c # NoCred => c[1] = Earlier \/ status[c[1]] = "success"

SourceInv ==
    /\ Known(file)
    /\ \A t \in Turns : Known(copy[t]) /\ Known(cred[t])
    /\ \A a \in Attempts : Known(sent[a]) /\ Known(result[a])
    /\ \A f \in Flows : exchange[f] = "saving" => status[f] = "pending"

\* A turn has a store once it shared one, and all stores but the shared one are retired.
StoreInv ==
    /\ \A t \in Turns :
          /\ at[t] = "loaded" => copy[t] # NoCred
          /\ at[t] \in {"idle", "loaded"} => t \notin Stores
          /\ at[t] \in {"ready", "waiting"} => storeOf[t] \in Stores
    /\ retired \subseteq Stores
    /\ \A s \in Stores \ retired : s = shared
    /\ shared # NoStore => shared \in Stores \ retired

\* Until it commits, a renewal is the one its store has in flight, of the credential the
\* store holds; it stays within the sign-in it started from.
LatchInv ==
    \A a \in Attempts :
        /\ step[a] # "idle" => /\ ownerOf[a] \in Stores
                               /\ sent[a] # NoCred
                               /\ sent[a][1] = cred[ownerOf[a]][1]
        /\ step[a] \in {"asking", "answered"} => /\ inFlight[ownerOf[a]] = a
                                                 /\ sent[a] = cred[ownerOf[a]]
        /\ step[a] \in {"idle", "asking"} => result[a] = NoCred
        /\ step[a] = "committed" => result[a] # NoCred
        /\ result[a] # NoCred => result[a][1] = sent[a][1]

\* Unless a turn crossed a retirement, no two stores are of one sign-in, nothing is shared
\* while the file is being replaced, and a retired store is not of the sign-in in the file.
CrossInv ==
    "crossed" \notin trouble =>
        /\ Replacing => shared = NoStore
        /\ signOut = "done" => file = NoCred /\ shared = NoStore
        /\ \A s, r \in Stores : cred[s][1] = cred[r][1] => s = r
        /\ ~Replacing /\ file # NoCred => \A s \in retired : cred[s][1] # file[1]

\* A store holds the last renewal of its sign-in, or that renewal is about to be committed.
Latest(s) ==
    LET f == cred[s][1]  a == inFlight[s] IN
    \/ cred[s][2] = issuer[f]
    \/ a # NoAttempt /\ step[a] = "answered" /\ result[a] = <<f, issuer[f]>>

\* Unless a turn crossed a retirement or an answer got lost, every store is that recent,
\* and a sign-in without a store was never renewed.
TokenInv ==
    trouble \cap {"crossed", "lost"} = {} =>
        /\ \A s \in Stores : Latest(s)
        /\ \A a \in Attempts :
              step[a] = "answered" /\ result[a] # NoCred => result[a][2] = issuer[sent[a][1]]
        /\ \A f \in SignIns : (\A s \in Stores : cred[s][1] # f) =>
              issuer[f] = 0 /\ (file # NoCred /\ file[1] = f => file[2] = 0)

\* Unless a turn crossed a retirement, the shared store is of the sign-in in the file, and
\* what a renewal returned is no newer than the issuer's latest.
FileInv ==
    /\ "crossed" \notin trouble /\ shared # NoStore => file # NoCred /\ file[1] = cred[shared][1]
    /\ \A a \in Attempts : result[a] # NoCred => result[a][2] <= issuer[result[a][1]]
    /\ FileIsNotStranded

IInv == TypeOK /\ SourceInv /\ StoreInv /\ LatchInv /\ CrossInv /\ TokenInv /\ FileInv

-----------------------------------------------------------------------------
(* Credentials.                                                             *)

LEMMA CredShape ==
    ASSUME NEW c \in Creds
    PROVE  c[1] \in SignIns /\ c[2] \in Nat /\ c = <<c[1], c[2]>> /\ c # NoCred
BY NullAssumption DEF Creds, SignIns

LEMMA RenewedShape ==
    ASSUME NEW f \in SignIns, NEW g \in Nat
    PROVE  <<f, g>> \in Creds /\ <<f, g>>[1] = f /\ <<f, g>>[2] = g
BY DEF Creds

-----------------------------------------------------------------------------
(* Type correctness.                                                        *)

LEMMA InitType == Init => TypeOK
BY DEF Init, TypeOK, Creds, SignIns

LEMMA TurnType ==
    ASSUME TypeOK, NEW t \in Turns, Turn(t) \/ Age(t)
    PROVE  TypeOK'
<1> USE DEF fileVars, storeVars, turnVars, renewVars, flowVars
<1>1. CASE LoadCredential(t)
    BY <1>1 DEF LoadCredential, TypeOK
<1>2. CASE ShareStore(t)
  <2>1. trouble' = trouble \/ trouble' = trouble \cup {"crossed"}
        BY <1>2 DEF ShareStore, Trouble
  <2>2. trouble' \subseteq {"crossed", "lost", "refused", "overtaken"}
        BY <2>1 DEF TypeOK
  <2>3. QED
        BY <1>2, <2>2 DEF ShareStore, TypeOK
<1>3. CASE Age(t)
    BY <1>3 DEF Age, Stores, TypeOK
<1>4. CASE JoinRefresh(t)
    BY <1>4 DEF JoinRefresh, AwaitAttempt, TypeOK
<1>5. ASSUME NEW a \in Attempts, StartRefresh(t, a) PROVE TypeOK'
    BY <1>5 DEF StartRefresh, MayRenew, AwaitAttempt, TypeOK
<1>6. CASE Wake(t)
    BY <1>6 DEF Wake, TypeOK
<1>7. CASE GiveUp(t)
    BY <1>7 DEF GiveUp, TypeOK
<1>8. QED
    BY <1>1, <1>2, <1>3, <1>4, <1>5, <1>6, <1>7 DEF Turn

LEMMA RenewalType ==
    ASSUME TypeOK, LatchInv, NEW a \in Attempts, Renewal(a)
    PROVE  TypeOK'
<1> USE DEF fileVars, storeVars, turnVars, renewVars, flowVars
<1>1. CASE IssuerRenews(a)
  <2> DEFINE f == sent[a][1]
             g == sent[a][2]
  <2>1. sent[a] \in Creds
        BY <1>1 DEF IssuerRenews, LatchInv, TypeOK
  <2>2. f \in SignIns /\ g \in Nat /\ <<f, g + 1>> \in Creds
        BY <2>1, CredShape, RenewedShape
  <2>3. issuer' = [issuer EXCEPT ![f] = g + 1] /\ g + 1 \in Nat
        BY <1>1, <2>2 DEF IssuerRenews
  <2>4. result' = result \/ result' = [result EXCEPT ![a] = <<f, g + 1>>]
        BY <1>1 DEF IssuerRenews
  <2>5. issuer' \in [SignIns -> Nat] /\ result' \in [Attempts -> Creds \cup {NoCred}]
        BY <2>2, <2>3, <2>4 DEF TypeOK
  <2>6. trouble' \subseteq {"crossed", "lost", "refused", "overtaken"}
        BY <1>1 DEF IssuerRenews, Trouble, TypeOK
  <2>7. QED
        BY <1>1, <2>5, <2>6 DEF IssuerRenews, TypeOK
<1>2. CASE IssuerRefuses(a)
    BY <1>2 DEF IssuerRefuses, TypeOK
<1>3. CASE Commit(a)
    BY <1>3 DEF Commit, TypeOK
<1>4. CASE Persist(a)
  <2>1. UNCHANGED trouble \/ Trouble("overtaken", file # NoCred /\ file[1] = result[a][1] /\ file[2] > result[a][2])
           \/ Trouble("refused", TRUE)
        BY <1>4 DEF Persist
  <2>2. trouble \subseteq {"crossed", "lost", "refused", "overtaken"}
        BY DEF TypeOK
  <2>3. trouble' \subseteq {"crossed", "lost", "refused", "overtaken"}
        BY <2>1, <2>2 DEF Trouble
  <2>4. file' \in Creds \cup {NoCred}
    <3>1. file' = result[a] \/ file' = file
          BY <1>4 DEF Persist
    <3>2. QED
          BY <3>1 DEF TypeOK
  <2>5. QED
        BY <1>4, <2>3, <2>4 DEF Persist, TypeOK
<1>5. QED
    BY <1>1, <1>2, <1>3, <1>4 DEF Renewal

LEMMA SignInType ==
    ASSUME TypeOK, NEW f \in Flows, SignIn(f)
    PROVE  TypeOK'
<1> USE DEF fileVars, storeVars, turnVars, renewVars, flowVars
<1>1. CASE StartFlow(f)
    BY <1>1 DEF StartFlow, TypeOK
<1>2. CASE EndFlow(f)
    BY <1>2 DEF EndFlow, TypeOK
<1>3. CASE Submit(f)
    BY <1>3 DEF Submit, TypeOK
<1>4. CASE IssuerAnswers(f)
    BY <1>4 DEF IssuerAnswers, TypeOK
<1>5. CASE FinishExchange(f)
    BY <1>5 DEF FinishExchange, Retire, TypeOK
<1>6. CASE SaveSignIn(f)
  <2>1. <<f, 0>> \in Creds
        BY DEF Creds, SignIns
  <2>2. QED
        BY <1>6, <2>1 DEF SaveSignIn, Trouble, TypeOK
<1>7. QED
    BY <1>1, <1>2, <1>3, <1>4, <1>5, <1>6 DEF SignIn, Redirect, Paste, Cancel, TimeOut

LEMMA SignOutType == TypeOK /\ (BeginSignOut \/ FinishSignOut) => TypeOK'
BY ZenonT(60) DEF TypeOK, BeginSignOut, FinishSignOut, Retire, Trouble,
       fileVars, storeVars, turnVars, renewVars, flowVars

LEMMA TypeStep == TypeOK /\ LatchInv /\ [Next]_vars => TypeOK'
<1> SUFFICES ASSUME TypeOK, LatchInv, [Next]_vars PROVE TypeOK'
    OBVIOUS
<1>1. CASE UNCHANGED vars
    BY <1>1 DEF TypeOK, vars, fileVars, storeVars, turnVars, renewVars, flowVars
<1>2. QED
    BY <1>1, TurnType, RenewalType, SignInType, SignOutType DEF Next

-----------------------------------------------------------------------------
(* Where credentials come from.                                             *)

\* A sign-in that succeeded stays one.
LEMMA SuccessStays ==
    ASSUME TypeOK, Next
    PROVE  \A f \in Flows : status[f] = "success" => status'[f] = "success"
<1> USE DEF fileVars, storeVars, turnVars, renewVars, flowVars
<1>1. ASSUME NEW t \in Turns, Turn(t) \/ Age(t) PROVE UNCHANGED status
    BY <1>1 DEF Turn, Age, LoadCredential, ShareStore, JoinRefresh, Wake, GiveUp, StartRefresh
<1>2. ASSUME NEW a \in Attempts, Renewal(a) PROVE UNCHANGED status
    BY <1>2 DEF Renewal, IssuerRenews, IssuerRefuses, Commit, Persist
<1>3. ASSUME NEW f \in Flows, SignIn(f)
      PROVE  \A g \in Flows : status[g] = "success" => status'[g] = "success"
    BY <1>3 DEF SignIn, Redirect, Paste, Cancel, TimeOut, StartFlow, EndFlow, Submit,
            IssuerAnswers, FinishExchange, SaveSignIn, TypeOK
<1>4. CASE BeginSignOut \/ FinishSignOut
    BY <1>4 DEF BeginSignOut, FinishSignOut
<1>5. QED
    BY <1>1, <1>2, <1>3, <1>4 DEF Next

KnownNext(c) == c # NoCred => c[1] = Earlier \/ status'[c[1]] = "success"

LEMMA KnownStays ==
    ASSUME TypeOK, SourceInv, Next
    PROVE  /\ KnownNext(file)
           /\ \A t \in Turns : KnownNext(copy[t]) /\ KnownNext(cred[t])
           /\ \A a \in Attempts : KnownNext(sent[a]) /\ KnownNext(result[a])
<1>1. ASSUME NEW c \in Creds \cup {NoCred}, Known(c) PROVE KnownNext(c)
  <2>1. c # NoCred => c[1] = Earlier \/ c[1] \in Flows
        BY CredShape DEF SignIns
  <2>2. QED
        BY <1>1, <2>1, SuccessStays DEF Known, KnownNext
<1>2. QED
    BY <1>1 DEF SourceInv, TypeOK

LEMMA SourceStep ==
    ASSUME TypeOK, SourceInv, LatchInv, Next
    PROVE  SourceInv'
<1> USE KnownStays DEF KnownNext, Known, SourceInv, fileVars, storeVars, turnVars, renewVars, flowVars
<1>1. ASSUME NEW t \in Turns, LoadCredential(t) PROVE SourceInv'
    BY <1>1 DEF LoadCredential, TypeOK
<1>2. ASSUME NEW t \in Turns, ShareStore(t) PROVE SourceInv'
    BY <1>2 DEF ShareStore, TypeOK
<1>3. ASSUME NEW t \in Turns, Age(t) \/ JoinRefresh(t) \/ Wake(t) \/ GiveUp(t) PROVE SourceInv'
    BY <1>3 DEF Age, JoinRefresh, AwaitAttempt, Wake, GiveUp
<1>4. ASSUME NEW t \in Turns, NEW a \in Attempts, StartRefresh(t, a) PROVE SourceInv'
  <2>1. KnownNext(cred[storeOf[t]])
        BY <1>4 DEF StartRefresh, MayRenew, TypeOK
  <2>2. QED
        BY <1>4, <2>1 DEF StartRefresh, AwaitAttempt, TypeOK
<1>5. ASSUME NEW a \in Attempts, IssuerRenews(a) PROVE SourceInv'
  <2> DEFINE c == <<sent[a][1], sent[a][2] + 1>>
  <2>1. sent[a] # NoCred /\ c[1] = sent[a][1]
        BY <1>5 DEF IssuerRenews, LatchInv
  <2>2. KnownNext(c)
        BY <2>1
  <2>3. result' = result \/ result' = [result EXCEPT ![a] = c]
        BY <1>5 DEF IssuerRenews
  <2>4. UNCHANGED <<file, copy, cred, sent, status, exchange>>
        BY <1>5 DEF IssuerRenews
  <2>5. \A b \in Attempts : KnownNext(result'[b])
        BY <2>2, <2>3 DEF TypeOK
  <2>6. QED
        BY <2>4, <2>5
<1>6. ASSUME NEW a \in Attempts, IssuerRefuses(a) PROVE SourceInv'
    BY <1>6 DEF IssuerRefuses
<1>7. ASSUME NEW a \in Attempts, Commit(a) PROVE SourceInv'
    BY <1>7 DEF Commit, TypeOK
<1>8. ASSUME NEW a \in Attempts, Persist(a) PROVE SourceInv'
  <2>1. file' = file \/ file' = result[a]
        BY <1>8 DEF Persist
  <2>2. UNCHANGED <<copy, cred, sent, result, status, exchange>>
        BY <1>8 DEF Persist
  <2>3. QED
        BY <2>1, <2>2
<1>9. ASSUME NEW f \in Flows, StartFlow(f) \/ EndFlow(f) \/ Submit(f) \/ IssuerAnswers(f)
      PROVE  SourceInv'
    BY <1>9 DEF StartFlow, EndFlow, Submit, IssuerAnswers, TypeOK
<1>10. ASSUME NEW f \in Flows, FinishExchange(f) PROVE SourceInv'
    BY <1>10 DEF FinishExchange, MaySave, Retire, TypeOK
<1>11. ASSUME NEW f \in Flows, SaveSignIn(f) PROVE SourceInv'
  <2>1. exchange[f] = "saving" /\ status[f] = "pending"
        BY <1>11 DEF SaveSignIn
  <2>2. \/ file' = <<f, 0>> /\ status' = [status EXCEPT ![f] = "success"]
        \/ file' = file /\ status' = [status EXCEPT ![f] = "error"]
        BY <1>11, <2>1 DEF SaveSignIn
  <2>3. UNCHANGED <<copy, cred, sent, result>> /\ exchange' = [exchange EXCEPT ![f] = "over"]
        BY <1>11 DEF SaveSignIn
  <2>4. \A g \in Flows : exchange'[g] = "saving" => status'[g] = "pending"
        BY <2>2, <2>3 DEF TypeOK
  <2>5. KnownNext(file')
        BY <2>2 DEF TypeOK
  <2>6. QED
        BY <2>3, <2>4, <2>5
<1>12. CASE BeginSignOut \/ FinishSignOut
    BY <1>12 DEF BeginSignOut, FinishSignOut, Retire
<1>13. QED
    BY <1>1, <1>2, <1>3, <1>4, <1>5, <1>6, <1>7, <1>8, <1>9, <1>10, <1>11, <1>12
    DEF Next, Turn, Renewal, SignIn, Redirect, Paste, Cancel, TimeOut

-----------------------------------------------------------------------------
(* Stores.                                                                  *)

LEMMA StoreStep ==
    ASSUME TypeOK, StoreInv, LatchInv, Next
    PROVE  StoreInv'
<1> USE DEF StoreInv, Stores, fileVars, storeVars, turnVars, renewVars, flowVars
<1>1. ASSUME NEW t \in Turns, LoadCredential(t) PROVE StoreInv'
    BY <1>1 DEF LoadCredential, TypeOK
<1>2. ASSUME NEW t \in Turns, ShareStore(t) PROVE StoreInv'
    BY <1>2, NullAssumption DEF ShareStore, TypeOK
<1>3. ASSUME NEW t \in Turns, Age(t) PROVE StoreInv'
    BY <1>3 DEF Age
<1>4. ASSUME NEW t \in Turns, JoinRefresh(t) PROVE StoreInv'
    BY <1>4 DEF JoinRefresh, AwaitAttempt, TypeOK
<1>5. ASSUME NEW t \in Turns, NEW a \in Attempts, StartRefresh(t, a) PROVE StoreInv'
    BY <1>5 DEF StartRefresh, AwaitAttempt, TypeOK
<1>6. ASSUME NEW t \in Turns, Wake(t) \/ GiveUp(t) PROVE StoreInv'
    BY <1>6 DEF Wake, GiveUp, TypeOK
<1>7. ASSUME NEW a \in Attempts, Commit(a) PROVE StoreInv'
    BY <1>7 DEF Commit, LatchInv, TypeOK
<1>8. ASSUME NEW a \in Attempts, IssuerRenews(a) \/ IssuerRefuses(a) \/ Persist(a) PROVE StoreInv'
    BY <1>8 DEF IssuerRenews, IssuerRefuses, Persist
<1>9. CASE Retire /\ UNCHANGED turnVars
    BY <1>9, NullAssumption DEF Retire, TypeOK
<1>10. ASSUME NEW f \in Flows, SignIn(f) PROVE StoreInv'
  <2>1. Retire \/ UNCHANGED storeVars
        BY <1>10
        DEF SignIn, Redirect, Paste, Cancel, TimeOut, StartFlow, EndFlow, Submit,
            IssuerAnswers, FinishExchange, SaveSignIn
  <2>2. UNCHANGED turnVars
        BY <1>10
        DEF SignIn, Redirect, Paste, Cancel, TimeOut, StartFlow, EndFlow, Submit,
            IssuerAnswers, FinishExchange, SaveSignIn
  <2>3. QED
        BY <1>9, <2>1, <2>2
<1>11. CASE BeginSignOut
    BY <1>9, <1>11 DEF BeginSignOut
<1>12. CASE FinishSignOut
    BY <1>12 DEF FinishSignOut
<1>13. QED
    BY <1>1, <1>2, <1>3, <1>4, <1>5, <1>6, <1>7, <1>8, <1>10, <1>11, <1>12
    DEF Next, Turn, Renewal

-----------------------------------------------------------------------------
(* Renewals.                                                                *)

\* The store of a renewal in flight has no other.
LEMMA OneInFlight ==
    ASSUME LatchInv, NEW a \in Attempts, NEW b \in Attempts,
           step[a] \in {"asking", "answered"}, step[b] \in {"asking", "answered"},
           ownerOf[a] = ownerOf[b]
    PROVE  a = b
BY DEF LatchInv

LEMMA LatchStep ==
    ASSUME TypeOK, StoreInv, LatchInv, Next
    PROVE  LatchInv'
<1> USE DEF Stores, fileVars, storeVars, turnVars, renewVars, flowVars
<1>1. ASSUME UNCHANGED <<cred, inFlight, step, ownerOf, sent, result>> PROVE LatchInv'
    BY <1>1 DEF LatchInv
<1>2. ASSUME NEW t \in Turns, ShareStore(t) PROVE LatchInv'
  <2>1. t \notin Stores
        BY <1>2 DEF ShareStore, StoreInv
  <2>2. \A s \in Stores : cred'[s] = cred[s]
        BY <1>2, <2>1 DEF ShareStore, TypeOK
  <2>3. Stores \subseteq Stores'
        BY <2>2
  <2>4. UNCHANGED <<inFlight, step, ownerOf, sent, result>>
        BY <1>2 DEF ShareStore
  <2>5. QED
        BY <2>2, <2>3, <2>4 DEF LatchInv
<1>3. ASSUME NEW t \in Turns, NEW a \in Attempts, StartRefresh(t, a) PROVE LatchInv'
  <2> DEFINE s == storeOf[t]
  <2>1. s \in Stores /\ inFlight[s] = NoAttempt /\ step[a] = "idle"
        BY <1>3 DEF StartRefresh, MayRenew, StoreInv
  <2>2. \A b \in Attempts : step[b] \in {"asking", "answered"} => ownerOf[b] # s
        BY <2>1, NullAssumption DEF LatchInv
  <2>3. QED
        BY <1>3, <2>1, <2>2 DEF StartRefresh, LatchInv, TypeOK
<1>4. ASSUME NEW a \in Attempts, IssuerRenews(a) PROVE LatchInv'
  <2> DEFINE c == <<sent[a][1], sent[a][2] + 1>>
  <2>1. step[a] = "asking" /\ step' = [step EXCEPT ![a] = "answered"]
        BY <1>4 DEF IssuerRenews
  <2>2. result' = result \/ result' = [result EXCEPT ![a] = c]
        BY <1>4 DEF IssuerRenews
  <2>3. c # NoCred /\ c[1] = sent[a][1]
        BY <2>1, CredShape, RenewedShape, SMTT(40) DEF LatchInv, TypeOK
  <2>4. UNCHANGED <<cred, inFlight, ownerOf, sent>>
        BY <1>4 DEF IssuerRenews
  <2>5. result'[a] \in {NoCred, c} /\ \A b \in Attempts : b # a => result'[b] = result[b]
        BY <2>1, <2>2 DEF LatchInv, TypeOK
  <2>6. QED
        BY <2>1, <2>3, <2>4, <2>5 DEF LatchInv, TypeOK
<1>5. ASSUME NEW a \in Attempts, IssuerRefuses(a) PROVE LatchInv'
    BY <1>5 DEF IssuerRefuses, LatchInv, TypeOK
<1>6. ASSUME NEW a \in Attempts, Commit(a) PROVE LatchInv'
  <2> DEFINE s == ownerOf[a]
  <2>1. s \in Stores /\ step[a] = "answered"
        BY <1>6 DEF Commit, LatchInv
  <2>2. \A b \in Attempts : step'[b] \in {"asking", "answered"} =>
            b # a /\ step[b] \in {"asking", "answered"} /\ ownerOf[b] # s
        BY <1>6, <2>1, OneInFlight DEF Commit, TypeOK
  <2>3. cred'[s] # NoCred /\ cred'[s][1] = cred[s][1]
        BY <1>6, <2>1 DEF Commit, LatchInv, TypeOK
  <2>4. \A r \in Turns : r # s => cred'[r] = cred[r] /\ inFlight'[r] = inFlight[r]
        BY <1>6, <2>1 DEF Commit, TypeOK
  <2>5. UNCHANGED <<ownerOf, sent, result>>
        BY <1>6 DEF Commit
  <2>6. step' = [step EXCEPT ![a] = IF result[a] # NoCred THEN "committed" ELSE "done"]
        BY <1>6 DEF Commit
  <2>7. QED
        BY <2>1, <2>2, <2>3, <2>4, <2>5, <2>6 DEF LatchInv, TypeOK
<1>7. ASSUME NEW a \in Attempts, Persist(a) PROVE LatchInv'
  <2>1. /\ step[a] = "committed" /\ step' = [step EXCEPT ![a] = "done"]
        /\ UNCHANGED <<cred, inFlight, ownerOf, sent, result>>
        BY <1>7 DEF Persist
  <2>2. QED
        BY <2>1 DEF LatchInv, TypeOK
<1>8. ASSUME NEW t \in Turns, LoadCredential(t) \/ Age(t) \/ JoinRefresh(t) \/ Wake(t) \/ GiveUp(t)
      PROVE  LatchInv'
    BY <1>1, <1>8 DEF LoadCredential, Age, JoinRefresh, Wake, GiveUp
<1>9. ASSUME NEW f \in Flows, SignIn(f) PROVE LatchInv'
    BY <1>1, <1>9
    DEF SignIn, Redirect, Paste, Cancel, TimeOut, StartFlow, EndFlow, Submit,
            IssuerAnswers, FinishExchange, SaveSignIn, Retire
<1>10. CASE BeginSignOut \/ FinishSignOut
    BY <1>1, <1>10 DEF BeginSignOut, FinishSignOut, Retire
<1>11. QED
    BY <1>2, <1>3, <1>4, <1>5, <1>6, <1>7, <1>8, <1>9, <1>10 DEF Next, Turn, Renewal

-----------------------------------------------------------------------------
(* Stores and sign-ins.                                                     *)

\* A renewal that was not answered before it was retired is of the shared store.
LEMMA UnretiredIsShared ==
    ASSUME TypeOK, StoreInv, NEW s \in Stores, s \notin retired
    PROVE  s = shared /\ shared # NoStore
BY NullAssumption DEF StoreInv, Stores

\* A commit leaves every store with the sign-in it had.
LEMMA CommitKeepsSignIns ==
    ASSUME TypeOK, LatchInv, NEW a \in Attempts, Commit(a)
    PROVE  Stores' = Stores /\ \A s \in Stores : cred'[s][1] = cred[s][1]
<1> DEFINE s == ownerOf[a]
<1>1. s \in Stores /\ (result[a] # NoCred => result[a][1] = cred[s][1])
      BY DEF Commit, LatchInv
<1>2. cred' = [cred EXCEPT ![s] = IF result[a] # NoCred THEN result[a] ELSE @]
      BY DEF Commit
<1>3. QED
      BY <1>1, <1>2 DEF Stores, TypeOK

LEMMA CrossStep ==
    ASSUME TypeOK, SourceInv, StoreInv, LatchInv, CrossInv, Next
    PROVE  CrossInv'
<1> USE DEF fileVars, storeVars, turnVars, renewVars, flowVars
<1>1. ASSUME UNCHANGED <<file, signOut, shared, retired, exchange>>, Stores' = Stores,
             \A s \in Stores : cred'[s][1] = cred[s][1],
             "crossed" \in trouble => "crossed" \in trouble'
      PROVE  CrossInv'
  <2>1. Replacing' = Replacing
        BY <1>1 DEF Replacing
  <2>2. retired \subseteq Stores
        BY DEF StoreInv
  <2>3. QED
        BY <1>1, <2>1, <2>2 DEF CrossInv
<1>2. ASSUME NEW t \in Turns, ShareStore(t) PROVE CrossInv'
  <2>1. CASE shared # NoStore
        BY <1>1, <1>2, <2>1 DEF ShareStore, Stores
  <2>2. CASE shared = NoStore
    <3> SUFFICES ASSUME "crossed" \notin trouble' PROVE CrossInv'
        BY DEF CrossInv
    <3>1. t \notin Stores /\ copy[t] # NoCred /\ Stores = retired
          BY <1>2, <2>2, UnretiredIsShared DEF ShareStore, StoreInv
    <3>2. "crossed" \notin trouble /\ copy[t] = file /\ ~Replacing
          BY <1>2, <2>2 DEF ShareStore, Trouble
    <3>3. /\ cred' = [cred EXCEPT ![t] = file] /\ shared' = t
          /\ UNCHANGED <<file, signOut, retired, exchange>>
          BY <1>2, <2>2, <3>2 DEF ShareStore
    <3>4. Stores' = Stores \cup {t} /\ cred'[t] = file /\ \A s \in Stores : cred'[s] = cred[s]
          BY <3>1, <3>2, <3>3 DEF Stores, TypeOK
    <3>5. \A s \in Stores : cred[s][1] # file[1]
          BY <3>1, <3>2 DEF CrossInv
    <3>6. signOut # "done" /\ ~Replacing'
          BY <3>1, <3>2, <3>3 DEF CrossInv, Replacing
    <3>7. \A s, r \in Stores' : cred'[s][1] = cred'[r][1] => s = r
          BY <3>2, <3>4, <3>5 DEF CrossInv
    <3>8. QED
          BY <3>1, <3>3, <3>4, <3>5, <3>6, <3>7 DEF CrossInv
  <2>3. QED
        BY <2>1, <2>2
<1>3. ASSUME NEW t \in Turns, NEW a \in Attempts, StartRefresh(t, a) PROVE CrossInv'
    BY <1>1, <1>3 DEF StartRefresh, Stores
<1>4. ASSUME NEW t \in Turns, LoadCredential(t) \/ Age(t) \/ JoinRefresh(t) \/ Wake(t) \/ GiveUp(t)
      PROVE  CrossInv'
    BY <1>1, <1>4 DEF LoadCredential, Age, JoinRefresh, Wake, GiveUp, Stores
<1>5. ASSUME NEW a \in Attempts, IssuerRenews(a) \/ IssuerRefuses(a) PROVE CrossInv'
    BY <1>1, <1>5 DEF IssuerRenews, IssuerRefuses, Trouble, Stores
<1>6. ASSUME NEW a \in Attempts, Commit(a) PROVE CrossInv'
    BY <1>1, <1>6, CommitKeepsSignIns DEF Commit
<1>7. ASSUME NEW a \in Attempts, Persist(a) PROVE CrossInv'
  <2> DEFINE s == ownerOf[a]
  <2> SUFFICES ASSUME "crossed" \notin trouble' PROVE CrossInv'
      BY DEF CrossInv
  <2>1. /\ "crossed" \notin trouble
        /\ UNCHANGED <<signOut, shared, cred, retired, exchange>>
        /\ file' = file \/ (s \notin retired /\ file' = result[a])
        BY <1>7 DEF Persist, MayPersist, Trouble
  <2>2. s \in Stores /\ result[a] # NoCred /\ result[a][1] = cred[s][1]
        BY <1>7 DEF Persist, LatchInv
  <2>3. Replacing' = Replacing /\ Stores' = Stores
        BY <2>1 DEF Replacing, Stores
  <2>4. CASE file' = file
        BY <2>1, <2>3, <2>4 DEF CrossInv
  <2>5. CASE s \notin retired /\ file' = result[a]
    <3>1. shared # NoStore
          BY <2>2, <2>5, UnretiredIsShared
    <3>2. \A r \in retired : cred[r][1] # result[a][1]
          BY <2>1, <2>2, <2>5 DEF CrossInv, StoreInv
    <3>3. QED
          BY <2>1, <2>3, <2>5, <3>1, <3>2 DEF CrossInv
  <2>6. QED
        BY <2>1, <2>4, <2>5
<1>8. ASSUME NEW f \in Flows, StartFlow(f) \/ EndFlow(f) PROVE CrossInv'
    BY <1>1, <1>8 DEF StartFlow, EndFlow, Stores
<1>9. ASSUME NEW f \in Flows, Submit(f) \/ IssuerAnswers(f) PROVE CrossInv'
  <2>1. Replacing' = Replacing
        BY <1>9 DEF Submit, IssuerAnswers, Replacing, TypeOK
  <2>2. UNCHANGED <<file, signOut, shared, cred, retired, trouble>>
        BY <1>9 DEF Submit, IssuerAnswers
  <2>3. QED
        BY <2>1, <2>2 DEF CrossInv, Stores
<1>10. ASSUME Retire, UNCHANGED <<file, trouble>>, signOut' \in {signOut, "retired"}, Replacing'
       PROVE  CrossInv'
    BY <1>10 DEF Retire, CrossInv, Stores
<1>11. ASSUME NEW f \in Flows, FinishExchange(f) PROVE CrossInv'
  <2>1. CASE MaySave(f)
    <3>1. Retire /\ UNCHANGED <<file, trouble, signOut>> /\ exchange'[f] = "saving"
          BY <1>11, <2>1 DEF FinishExchange, TypeOK
    <3>2. QED
          BY <1>10, <3>1 DEF Replacing
  <2>2. CASE ~MaySave(f)
    <3>1. Replacing' = Replacing
          BY <1>11, <2>2 DEF FinishExchange, Replacing, TypeOK
    <3>2. UNCHANGED <<file, signOut, shared, cred, retired, trouble>>
          BY <1>11, <2>2 DEF FinishExchange
    <3>3. QED
          BY <3>1, <3>2 DEF CrossInv, Stores
  <2>3. QED
        BY <2>1, <2>2
<1>12. ASSUME NEW f \in Flows, SaveSignIn(f) PROVE CrossInv'
  <2> SUFFICES ASSUME "crossed" \notin trouble' PROVE CrossInv'
      BY DEF CrossInv
  <2>1. exchange[f] = "saving" /\ status[f] = "pending"
        BY <1>12 DEF SaveSignIn, SourceInv
  <2>2. /\ file' = <<f, 0>> /\ signOut' # "done"
        /\ UNCHANGED <<shared, cred, retired, trouble>>
        BY <1>12 DEF SaveSignIn, Trouble
  <2>3. shared = NoStore
        BY <2>1, <2>2 DEF CrossInv, Replacing
  <2>4. \A s \in Stores : cred[s][1] # f
        BY <2>1, EarlierAssumption DEF SourceInv, Known, Stores
  <2>5. QED
        BY <2>2, <2>3, <2>4 DEF CrossInv, StoreInv, Stores
<1>13. CASE BeginSignOut
    BY <1>10, <1>13 DEF BeginSignOut, Replacing
<1>14. CASE FinishSignOut
  <2> SUFFICES ASSUME "crossed" \notin trouble' PROVE CrossInv'
      BY DEF CrossInv
  <2>1. file' = NoCred /\ shared = NoStore /\ UNCHANGED <<shared, cred, retired, trouble>>
        BY <1>14 DEF FinishSignOut, Trouble, CrossInv, Replacing
  <2>2. QED
        BY <2>1 DEF CrossInv, Stores
<1>15. QED
    BY <1>2, <1>3, <1>4, <1>5, <1>6, <1>7, <1>8, <1>9, <1>11, <1>12, <1>13, <1>14
    DEF Next, Turn, Renewal, SignIn, Redirect, Paste, Cancel, TimeOut

-----------------------------------------------------------------------------
(* Stores and the issuer.                                                   *)

\* A step that disturbs neither credentials nor renewals.
LEMMA TokenFrame ==
    ASSUME TokenInv,
           UNCHANGED <<cred, inFlight, step, result, sent, issuer>>,
           file' = file \/ file' = NoCred \/ file'[2] = 0,
           trouble \cap {"crossed", "lost"} \subseteq trouble'
    PROVE  TokenInv'
BY DEF TokenInv, Latest, Stores

LEMMA TokenShare ==
    ASSUME TypeOK, StoreInv, CrossInv, TokenInv, NEW t \in Turns, ShareStore(t)
    PROVE  TokenInv'
<1> USE DEF fileVars, storeVars, turnVars, renewVars, flowVars
<1> SUFFICES ASSUME trouble' \cap {"crossed", "lost"} = {} PROVE TokenInv'
    BY DEF TokenInv
<1>1. CASE shared # NoStore
    BY <1>1, TokenFrame DEF ShareStore
<1>2. CASE shared = NoStore
  <2>1. t \notin Stores /\ copy[t] # NoCred /\ Stores = retired
        BY <1>2, UnretiredIsShared DEF ShareStore, StoreInv
  <2>2. /\ trouble \cap {"crossed", "lost"} = {} /\ "crossed" \notin trouble
        /\ copy[t] = file /\ ~Replacing
        BY <1>2 DEF ShareStore, Trouble
  <2>3. /\ cred' = [cred EXCEPT ![t] = file]
        /\ UNCHANGED <<file, inFlight, step, sent, result, issuer>>
        BY <1>2, <2>2 DEF ShareStore
  <2>4. Stores' = Stores \cup {t} /\ cred'[t] = file /\ \A s \in Stores : cred'[s] = cred[s]
        BY <2>1, <2>2, <2>3 DEF Stores, TypeOK
  <2>5. \A s \in Stores : cred[s][1] # file[1]
        BY <2>1, <2>2 DEF CrossInv
  <2>6. file[1] \in SignIns
        BY <2>1, <2>2, CredShape DEF TypeOK
  <2>7. file[2] = issuer[file[1]]
        BY <2>1, <2>2, <2>5, <2>6 DEF TokenInv
  <2>8. \A s \in Stores' : Latest(s)'
        BY <2>2, <2>3, <2>4, <2>7 DEF TokenInv, Latest
  <2>9. QED
        BY <2>2, <2>3, <2>4, <2>8 DEF TokenInv
<1>3. QED
      BY <1>1, <1>2

LEMMA TokenStart ==
    ASSUME TypeOK, StoreInv, TokenInv, NEW t \in Turns, NEW a \in Attempts, StartRefresh(t, a)
    PROVE  TokenInv'
<1> DEFINE s == storeOf[t]
<1> SUFFICES ASSUME trouble' \cap {"crossed", "lost"} = {} PROVE TokenInv'
    BY DEF TokenInv
<1>1. /\ s \in Stores /\ inFlight[s] = NoAttempt /\ step[a] = "idle"
      /\ UNCHANGED <<file, cred, result, issuer, trouble>>
      /\ inFlight' = [inFlight EXCEPT ![s] = a]
      /\ step' = [step EXCEPT ![a] = "asking"]
      /\ sent' = [sent EXCEPT ![a] = cred[s]]
      BY DEF StartRefresh, MayRenew, StoreInv, fileVars, flowVars
<1>2. cred[s][2] = issuer[cred[s][1]]
      BY <1>1 DEF TokenInv, Latest
<1>3. \A r \in Stores : Latest(r)'
  <2> SUFFICES ASSUME NEW r \in Stores PROVE Latest(r)'
      OBVIOUS
  <2>1. CASE r = s
        BY <1>1, <1>2, <2>1 DEF Latest
  <2>2. CASE r # s
        BY <1>1, <2>2 DEF Latest, TokenInv, TypeOK, Stores
  <2>3. QED
        BY <2>1, <2>2
<1>4. QED
      BY <1>1, <1>3 DEF TokenInv, Stores, TypeOK

\* The store a renewal is of has its credential, and no other store has its sign-in.
LEMMA OwnerOfRenewal ==
    ASSUME LatchInv, CrossInv, "crossed" \notin trouble, NEW a \in Attempts,
           step[a] \in {"asking", "answered"}
    PROVE  /\ ownerOf[a] \in Stores /\ inFlight[ownerOf[a]] = a
           /\ sent[a] # NoCred /\ cred[ownerOf[a]] = sent[a]
           /\ \A r \in Stores : cred[r][1] = sent[a][1] => r = ownerOf[a]
BY DEF LatchInv, CrossInv

LEMMA TokenRenew ==
    ASSUME TypeOK, LatchInv, CrossInv, TokenInv, NEW a \in Attempts, IssuerRenews(a)
    PROVE  TokenInv'
<1> DEFINE s == ownerOf[a]
           f == sent[a][1]
           g == sent[a][2]
<1> SUFFICES ASSUME trouble' \cap {"crossed", "lost"} = {} PROVE TokenInv'
    BY DEF TokenInv
<1>1. /\ step[a] = "asking" /\ issuer[f] = g
      /\ UNCHANGED <<file, cred, inFlight, ownerOf, sent, trouble>>
      /\ result' = [result EXCEPT ![a] = <<f, g + 1>>]
      /\ step' = [step EXCEPT ![a] = "answered"]
      /\ issuer' = [issuer EXCEPT ![f] = g + 1]
      BY DEF IssuerRenews, Trouble, fileVars, storeVars
<1>2. /\ s \in Stores /\ inFlight[s] = a /\ cred[s] = sent[a] /\ sent[a] # NoCred
      /\ \A r \in Stores : cred[r][1] = f => r = s
      BY <1>1, OwnerOfRenewal
<1>3. f \in SignIns /\ g \in Nat
      BY <1>2, CredShape DEF TypeOK
<1>4. issuer'[f] = g + 1 /\ \A h \in SignIns : h # f => issuer'[h] = issuer[h]
      BY <1>1, <1>3 DEF TypeOK
<1>5. \A r \in Stores : Latest(r)'
  <2> SUFFICES ASSUME NEW r \in Stores PROVE Latest(r)'
      OBVIOUS
  <2>1. CASE r = s
    <3>1. cred[s][1] = f /\ a # NoAttempt /\ step'[a] = "answered" /\ result'[a] = <<f, g + 1>>
          BY <1>1, <1>2, NullAssumption DEF TypeOK
    <3>2. QED
          BY <1>1, <1>2, <1>4, <2>1, <3>1 DEF Latest
  <2>2. CASE r # s
    <3>1. cred[r][1] # f /\ cred[r][1] \in SignIns
          BY <1>2, <2>2, CredShape DEF TypeOK, Stores
    <3>2. inFlight[r] # NoAttempt /\ step[inFlight[r]] = "answered" =>
              /\ step'[inFlight[r]] = "answered"
              /\ result'[inFlight[r]] = result[inFlight[r]]
          BY <1>1 DEF TypeOK, Stores
    <3>3. Latest(r)
          BY <1>1 DEF TokenInv
    <3>4. issuer'[cred[r][1]] = issuer[cred[r][1]]
          BY <1>4, <3>1
    <3>5. QED
          BY <1>1, <3>2, <3>3, <3>4 DEF Latest
  <2>3. QED
        BY <2>1, <2>2
<1>6. ASSUME NEW b \in Attempts, step'[b] = "answered", result'[b] # NoCred
      PROVE  result'[b][2] = issuer'[sent[b][1]]
  <2>1. CASE b = a
        BY <1>1, <1>4, <2>1 DEF TypeOK
  <2>2. CASE b # a
    <3>1. step[b] = "answered" /\ result'[b] = result[b]
          BY <1>1, <1>6, <2>2 DEF TypeOK
    <3>2. /\ ownerOf[b] \in Stores /\ inFlight[ownerOf[b]] = b
          /\ cred[ownerOf[b]] = sent[b] /\ sent[b] # NoCred
          BY <1>1, <3>1, OwnerOfRenewal
    <3>3. sent[b][1] # f /\ sent[b][1] \in SignIns
          BY <1>2, <2>2, <3>2, CredShape DEF TypeOK
    <3>4. QED
          BY <1>1, <1>4, <1>6, <3>1, <3>3 DEF TokenInv
  <2>3. QED
        BY <2>1, <2>2
<1>7. QED
      BY <1>1, <1>2, <1>4, <1>5, <1>6 DEF TokenInv, Stores

LEMMA TokenRefuse ==
    ASSUME TypeOK, LatchInv, TokenInv, NEW a \in Attempts, IssuerRefuses(a)
    PROVE  TokenInv'
<1>1. /\ step[a] = "asking" /\ result[a] = NoCred
      /\ step' = [step EXCEPT ![a] = "answered"]
      /\ UNCHANGED <<file, cred, inFlight, sent, result, issuer, trouble>>
      BY DEF IssuerRefuses, LatchInv, fileVars, storeVars
<1>2. \A s \in Stores : Latest(s) => Latest(s)'
      BY <1>1 DEF Latest, TypeOK, Stores
<1>3. QED
      BY <1>1, <1>2 DEF TokenInv, TypeOK, Stores

LEMMA TokenCommit ==
    ASSUME TypeOK, LatchInv, CrossInv, TokenInv, NEW a \in Attempts, Commit(a)
    PROVE  TokenInv'
<1> DEFINE s == ownerOf[a]
<1> SUFFICES ASSUME trouble' \cap {"crossed", "lost"} = {} PROVE TokenInv'
    BY DEF TokenInv
<1>1. /\ step[a] = "answered"
      /\ UNCHANGED <<file, sent, result, issuer, trouble>>
      /\ inFlight' = [inFlight EXCEPT ![s] = NoAttempt]
      /\ cred' = [cred EXCEPT ![s] = IF result[a] # NoCred THEN result[a] ELSE @]
      /\ step' = [step EXCEPT ![a] = IF result[a] # NoCred THEN "committed" ELSE "done"]
      BY DEF Commit, fileVars
<1>2. /\ s \in Stores /\ inFlight[s] = a /\ cred[s] = sent[a] /\ sent[a] # NoCred
      /\ \A r \in Stores : cred[r][1] = sent[a][1] => r = s
      BY <1>1, OwnerOfRenewal
<1>3. Stores' = Stores /\ \A r \in Stores : cred'[r][1] = cred[r][1]
      BY CommitKeepsSignIns
<1>4. \A r \in Stores : Latest(r)'
  <2> SUFFICES ASSUME NEW r \in Stores PROVE Latest(r)'
      OBVIOUS
  <2>1. CASE r = s /\ result[a] # NoCred
    <3>1. cred'[s] = result[a] /\ result[a][1] = sent[a][1] /\ result[a][2] = issuer[sent[a][1]]
          BY <1>1, <1>2, <2>1 DEF TokenInv, LatchInv, TypeOK, Stores
    <3>2. QED
          BY <1>1, <2>1, <3>1 DEF Latest
  <2>2. CASE r = s /\ result[a] = NoCred
    <3>1. cred'[s] = cred[s]
          BY <1>1, <1>2, <2>2 DEF TypeOK, Stores
    <3>2. cred[s][1] \in SignIns /\ <<cred[s][1], issuer[cred[s][1]]>> # NoCred
          BY <1>2, CredShape, RenewedShape DEF TypeOK, Stores
    <3>3. cred[s][2] = issuer[cred[s][1]]
          BY <1>1, <1>2, <2>2, <3>2 DEF TokenInv, Latest
    <3>4. QED
          BY <1>1, <2>2, <3>1, <3>3 DEF Latest
  <2>3. CASE r # s
    <3>1. cred'[r] = cred[r] /\ inFlight'[r] = inFlight[r] /\ cred[r][1] # sent[a][1]
          BY <1>1, <1>2, <2>3 DEF TypeOK, Stores
    <3>2. result[a] # NoCred => result[a][1] = sent[a][1]
          BY DEF LatchInv
    <3>3. Latest(r)
          BY <1>1 DEF TokenInv
    <3>4. CASE inFlight[r] = a
      <4>1. cred[r][1] \in SignIns /\ issuer[cred[r][1]] \in Nat
            BY CredShape DEF TypeOK, Stores
      <4> DEFINE c == <<cred[r][1], issuer[cred[r][1]]>>
      <4>2. c \in Creds /\ c[1] = cred[r][1]
            BY <4>1, RenewedShape
      <4>3. c # NoCred
            BY <4>2, CredShape
      <4>4. result[a] # c
            BY <3>1, <3>2, <4>2, <4>3
      <4>5. QED
            BY <1>1, <3>1, <3>3, <3>4, <4>4 DEF Latest
    <3>5. CASE inFlight[r] # a
      <4>1. step'[inFlight[r]] = step[inFlight[r]]
            BY <1>1, <3>5 DEF TypeOK
      <4>2. QED
            BY <1>1, <3>1, <3>3, <4>1 DEF Latest
    <3>6. QED
          BY <3>4, <3>5
  <2>4. QED
        BY <2>1, <2>2, <2>3
<1>5. \A b \in Attempts : step'[b] = "answered" => step[b] = "answered"
      BY <1>1 DEF TypeOK
<1>6. QED
      BY <1>1, <1>3, <1>4, <1>5 DEF TokenInv

LEMMA TokenPersist ==
    ASSUME TypeOK, LatchInv, TokenInv, NEW a \in Attempts, Persist(a)
    PROVE  TokenInv'
<1>1. /\ step[a] = "committed" /\ step' = [step EXCEPT ![a] = "done"]
      /\ UNCHANGED <<cred, inFlight, sent, result, issuer>>
      /\ file' = file \/ file' = result[a]
      /\ trouble' \cap {"crossed", "lost"} = trouble \cap {"crossed", "lost"}
      BY DEF Persist, Trouble, storeVars
<1>2. ownerOf[a] \in Stores /\ result[a][1] = cred[ownerOf[a]][1]
      BY <1>1 DEF LatchInv
<1>3. \A s \in Stores : Latest(s) => Latest(s)'
      BY <1>1 DEF Latest, TypeOK, Stores
<1>4. \A b \in Attempts : step'[b] = "answered" => step[b] = "answered"
      BY <1>1 DEF TypeOK
<1>5. QED
      BY <1>1, <1>2, <1>3, <1>4 DEF TokenInv, Stores

LEMMA TokenStep ==
    ASSUME TypeOK, StoreInv, LatchInv, CrossInv, TokenInv, Next
    PROVE  TokenInv'
<1> USE DEF fileVars, storeVars, turnVars, renewVars, flowVars
<1>1. ASSUME NEW t \in Turns, LoadCredential(t) \/ Age(t) \/ JoinRefresh(t) \/ Wake(t) \/ GiveUp(t)
      PROVE  TokenInv'
    BY <1>1, TokenFrame DEF LoadCredential, Age, JoinRefresh, Wake, GiveUp
<1>2. ASSUME NEW f \in Flows, StartFlow(f) \/ EndFlow(f) \/ Submit(f) \/ IssuerAnswers(f)
      PROVE  TokenInv'
    BY <1>2, TokenFrame DEF StartFlow, EndFlow, Submit, IssuerAnswers
<1>3. ASSUME NEW f \in Flows, FinishExchange(f) PROVE TokenInv'
    BY <1>3, TokenFrame DEF FinishExchange, Retire
<1>4. ASSUME NEW f \in Flows, SaveSignIn(f) PROVE TokenInv'
  <2>1. file' = file \/ file' = <<f, 0>>
        BY <1>4 DEF SaveSignIn
  <2>2. trouble \subseteq trouble' /\ UNCHANGED <<cred, inFlight, step, result, sent, issuer>>
        BY <1>4 DEF SaveSignIn, Trouble
  <2>3. QED
        BY <2>1, <2>2, TokenFrame
<1>5. CASE BeginSignOut
    BY <1>5, TokenFrame DEF BeginSignOut, Retire
<1>6. CASE FinishSignOut
    BY <1>6, TokenFrame DEF FinishSignOut, Trouble
<1>7. QED
    BY <1>1, <1>2, <1>3, <1>4, <1>5, <1>6,
       TokenShare, TokenStart, TokenRenew, TokenRefuse, TokenCommit, TokenPersist
    DEF Next, Turn, Renewal, SignIn, Redirect, Paste, Cancel, TimeOut

-----------------------------------------------------------------------------
(* The file and the issuer.                                                 *)

LEMMA FileStep ==
    ASSUME TypeOK, SourceInv, StoreInv, LatchInv, CrossInv, TokenInv, FileInv, Next
    PROVE  FileInv'
<1> USE DEF fileVars, storeVars, turnVars, renewVars, flowVars
<1>1. ASSUME UNCHANGED <<file, shared, cred, retired, step, ownerOf, result, issuer, trouble,
                         signOut, exchange>>
      PROVE  FileInv'
    BY <1>1 DEF FileInv, FileIsNotStranded, Replacing
<1>2. ASSUME NEW t \in Turns, LoadCredential(t) \/ Age(t) \/ JoinRefresh(t) \/ Wake(t) \/ GiveUp(t)
      PROVE  FileInv'
    BY <1>1, <1>2 DEF LoadCredential, Age, JoinRefresh, Wake, GiveUp
<1>3. ASSUME NEW t \in Turns, ShareStore(t) PROVE FileInv'
  <2>1. CASE shared # NoStore
        BY <1>1, <1>3, <2>1 DEF ShareStore
  <2>2. CASE shared = NoStore
    <3>1. /\ UNCHANGED <<file, retired, step, ownerOf, result, issuer, signOut, exchange>>
          /\ shared' = t /\ cred' = [cred EXCEPT ![t] = copy[t]] /\ copy[t] # NoCred
          /\ Trouble("crossed", copy[t] # file \/ Replacing)
          BY <1>3, <2>2 DEF ShareStore, StoreInv
    <3>2. trouble \subseteq trouble' /\ ("crossed" \notin trouble' => cred'[t] = file /\ file # NoCred)
          BY <3>1 DEF Trouble, TypeOK
    <3>3. Replacing' = Replacing
          BY <3>1 DEF Replacing
    <3>4. QED
          BY <3>1, <3>2, <3>3 DEF FileInv, FileIsNotStranded
  <2>3. QED
        BY <2>1, <2>2
<1>4. ASSUME NEW t \in Turns, NEW a \in Attempts, StartRefresh(t, a) PROVE FileInv'
  <2>1. /\ UNCHANGED <<file, shared, cred, retired, result, issuer, trouble, signOut, exchange>>
        /\ step[a] = "idle" /\ \A b \in Attempts : b # a => UNCHANGED <<step[b], ownerOf[b]>>
        BY <1>4 DEF StartRefresh, TypeOK
  <2>2. Replacing' = Replacing
        BY <2>1 DEF Replacing
  <2>3. QED
        BY <2>1, <2>2 DEF FileInv, FileIsNotStranded
<1>5. ASSUME NEW a \in Attempts, IssuerRenews(a) PROVE FileInv'
  <2> DEFINE f == sent[a][1]
             g == sent[a][2]
             c == <<f, g + 1>>
  <2>1. /\ step[a] = "asking" /\ issuer[f] = g /\ sent[a] # NoCred /\ result[a] = NoCred
        /\ UNCHANGED <<file, shared, cred, retired, ownerOf, signOut, exchange>>
        /\ step' = [step EXCEPT ![a] = "answered"]
        /\ issuer' = [issuer EXCEPT ![f] = g + 1]
        /\ \/ result' = [result EXCEPT ![a] = c] /\ UNCHANGED trouble
           \/ UNCHANGED result /\ trouble' = trouble \cup {"lost"}
        BY <1>5 DEF IssuerRenews, LatchInv, Trouble
  <2>2. f \in SignIns /\ g \in Nat /\ c # NoCred /\ c[1] = f /\ c[2] = g + 1
        BY <2>1, CredShape, RenewedShape DEF TypeOK
  <2>3. issuer'[f] = g + 1 /\ \A h \in SignIns : h # f => issuer'[h] = issuer[h]
        BY <2>1, <2>2 DEF TypeOK
  <2>4. ASSUME NEW b \in Attempts, result'[b] # NoCred
        PROVE  result'[b][2] <= issuer'[result'[b][1]]
    <3>1. CASE result'[b] = c
          BY <2>2, <2>3, <3>1
    <3>2. CASE result'[b] # c
      <4>1. result'[b] = result[b]
            BY <2>1, <3>2 DEF TypeOK
      <4>2. result[b][1] \in SignIns /\ result[b][2] \in Nat /\ result[b][2] <= issuer[result[b][1]]
            BY <2>4, <4>1, CredShape DEF FileInv, TypeOK
      <4>3. CASE result[b][1] = f
            BY <2>1, <2>2, <2>3, <4>1, <4>2, <4>3
      <4>4. CASE result[b][1] # f
            BY <2>3, <4>1, <4>2, <4>4
      <4>5. QED
            BY <4>3, <4>4
    <3>3. QED
          BY <3>1, <3>2
  <2>5. Replacing' = Replacing
        BY <2>1 DEF Replacing
  <2>6. ASSUME trouble' = {}, ~Replacing, file # NoCred
        PROVE  \/ file[2] = issuer'[file[1]]
               \/ \E b \in Attempts : /\ step'[b] \in {"answered", "committed"}
                                      /\ ownerOf[b] \notin retired
                                      /\ result'[b] = <<file[1], issuer'[file[1]]>>
    <3>1. trouble = {} /\ "crossed" \notin trouble /\ result' = [result EXCEPT ![a] = c]
          BY <2>1, <2>6
    <3>2. CASE file[1] = f
      <4>1. ownerOf[a] \in Stores /\ cred[ownerOf[a]][1] = file[1]
            BY <2>1, <3>2 DEF LatchInv
      <4>2. ownerOf[a] \notin retired
            BY <2>6, <3>1, <4>1 DEF CrossInv
      <4>3. step'[a] = "answered" /\ result'[a] = c
            BY <2>1, <3>1 DEF TypeOK
      <4>4. QED
            BY <2>3, <3>2, <4>2, <4>3
    <3>3. CASE file[1] # f
      <4>1. issuer'[file[1]] = issuer[file[1]]
            BY <2>3, <2>6, <3>3, CredShape DEF TypeOK
      <4>2. \A b \in Attempts : step[b] \in {"answered", "committed"} =>
                step'[b] = step[b] /\ result'[b] = result[b]
            BY <2>1, <3>1 DEF TypeOK
      <4>3. QED
            BY <2>6, <3>1, <4>1, <4>2 DEF FileInv, FileIsNotStranded
    <3>4. QED
          BY <3>2, <3>3
  <2>7. "crossed" \in trouble => "crossed" \in trouble'
        BY <2>1
  <2>8. QED
        BY <2>1, <2>4, <2>5, <2>6, <2>7 DEF FileInv, FileIsNotStranded
<1>6. ASSUME NEW a \in Attempts, IssuerRefuses(a) PROVE FileInv'
  <2>1. /\ UNCHANGED <<file, shared, cred, retired, ownerOf, result, issuer, trouble, signOut, exchange>>
        /\ step[a] = "asking" /\ \A b \in Attempts : b # a => step'[b] = step[b]
        BY <1>6 DEF IssuerRefuses, TypeOK
  <2>2. Replacing' = Replacing
        BY <2>1 DEF Replacing
  <2>3. QED
        BY <2>1, <2>2 DEF FileInv, FileIsNotStranded
<1>7. ASSUME NEW a \in Attempts, Commit(a) PROVE FileInv'
  <2>1. /\ UNCHANGED <<file, shared, retired, ownerOf, result, issuer, trouble, signOut, exchange>>
        /\ step' = [step EXCEPT ![a] = IF result[a] # NoCred THEN "committed" ELSE "done"]
        BY <1>7 DEF Commit
  <2>2. Replacing' = Replacing
        BY <2>1 DEF Replacing
  <2>3. shared # NoStore => cred'[shared][1] = cred[shared][1]
        BY <1>7, CommitKeepsSignIns DEF StoreInv
  <2>4. ASSUME NEW b \in Attempts, file # NoCred, result[b] = <<file[1], issuer[file[1]]>>,
               step[b] \in {"answered", "committed"}
        PROVE  step'[b] \in {"answered", "committed"}
    <3>1. result[b] # NoCred
      <4>1. file[1] \in SignIns
            BY <2>4, CredShape DEF TypeOK
      <4>2. issuer[file[1]] \in Nat
            BY <4>1 DEF TypeOK
      <4>3. QED
            BY <2>4, <4>1, <4>2, CredShape, RenewedShape
    <3>2. QED
          BY <2>1, <2>4, <3>1 DEF TypeOK
  <2>5. QED
        BY <2>1, <2>2, <2>3, <2>4 DEF FileInv, FileIsNotStranded
<1>8. ASSUME NEW a \in Attempts, Persist(a) PROVE FileInv'
  <2> DEFINE s == ownerOf[a]
  <2>1. /\ UNCHANGED <<shared, cred, retired, ownerOf, result, issuer, signOut, exchange>>
        /\ step[a] = "committed" /\ trouble \subseteq trouble'
        /\ \A b \in Attempts : b # a => step'[b] = step[b]
        BY <1>8 DEF Persist, Trouble, TypeOK
  <2>2. Replacing' = Replacing
        BY <2>1 DEF Replacing
  <2>3. s \in Stores /\ result[a] # NoCred /\ result[a][1] = cred[s][1]
        BY <2>1 DEF LatchInv
  <2>4. CASE s \in retired
    <3>1. UNCHANGED file
          BY <1>8, <2>4 DEF Persist, MayPersist
    <3>2. QED
          BY <2>1, <2>2, <2>4, <3>1 DEF FileInv, FileIsNotStranded
  <2>5. CASE s \notin retired
    <3>1. s = shared /\ shared # NoStore
          BY <2>3, <2>5, UnretiredIsShared
    <3>2. CASE UNCHANGED file /\ Trouble("refused", TRUE)
          BY <2>1, <2>2, <3>2 DEF FileInv, FileIsNotStranded, Trouble
    <3>3. CASE /\ file' = result[a]
               /\ Trouble("overtaken", file # NoCred /\ file[1] = result[a][1] /\ file[2] > result[a][2])
      <4>1. "crossed" \notin trouble => file # NoCred /\ file[1] = result[a][1]
            BY <2>3, <3>1 DEF FileInv
      <4>2. result[a][1] \in SignIns /\ result[a][2] \in Nat /\ result[a] = <<result[a][1], result[a][2]>>
            BY <2>3, CredShape DEF TypeOK
      <4>3. issuer[result[a][1]] \in Nat /\ result[a][2] <= issuer[result[a][1]]
            BY <2>3, <4>2 DEF FileInv, TypeOK
      <4>4. ASSUME trouble' = {}, ~Replacing, result[a][2] # issuer[result[a][1]]
            PROVE  \E b \in Attempts : /\ step'[b] \in {"answered", "committed"}
                                       /\ ownerOf[b] \notin retired
                                       /\ result[b] = <<result[a][1], issuer[result[a][1]]>>
        <5>1. trouble = {} /\ "crossed" \notin trouble
              BY <2>1, <4>4
        <5>2. file # NoCred /\ file[1] = result[a][1] /\ ~(file[2] > result[a][2])
              BY <3>3, <4>1, <4>4, <5>1 DEF Trouble
        <5>3. file[2] \in Nat
              BY <5>2, CredShape DEF TypeOK
        <5>4. file[2] # issuer[file[1]]
              BY <4>2, <4>3, <4>4, <5>2, <5>3
        <5>5. PICK b \in Attempts : /\ step[b] \in {"answered", "committed"}
                                    /\ ownerOf[b] \notin retired
                                    /\ result[b] = <<file[1], issuer[file[1]]>>
              BY <4>4, <5>1, <5>2, <5>4 DEF FileInv, FileIsNotStranded
        <5>6. b # a
              BY <4>2, <4>4, <5>2, <5>5
        <5>7. QED
              BY <2>1, <5>2, <5>5, <5>6
      <4>5. "crossed" \notin trouble' /\ shared' # NoStore =>
                file' # NoCred /\ file'[1] = cred'[shared'][1]
            BY <2>1, <2>3, <3>1, <3>3
      <4>6. \A b \in Attempts : result'[b] # NoCred => result'[b][2] <= issuer'[result'[b][1]]
            BY <2>1 DEF FileInv
      <4>7. FileIsNotStranded'
            BY <2>1, <2>2, <3>3, <4>4 DEF FileIsNotStranded
      <4>8. QED
            BY <4>5, <4>6, <4>7 DEF FileInv
    <3>4. QED
          BY <1>8, <2>5, <3>2, <3>3 DEF Persist, MayPersist
  <2>6. QED
        BY <2>4, <2>5
<1>9. ASSUME NEW f \in Flows, StartFlow(f) \/ EndFlow(f) PROVE FileInv'
    BY <1>1, <1>9 DEF StartFlow, EndFlow
<1>10. ASSUME UNCHANGED <<file, signOut, storeVars, renewVars, issuer, trouble>>,
              Replacing' = Replacing
       PROVE  FileInv'
    BY <1>10 DEF FileInv, FileIsNotStranded
<1>11. ASSUME NEW f \in Flows, Submit(f) \/ IssuerAnswers(f) PROVE FileInv'
  <2>1. Replacing' = Replacing
        BY <1>11 DEF Submit, IssuerAnswers, Replacing, TypeOK
  <2>2. QED
        BY <1>10, <1>11, <2>1 DEF Submit, IssuerAnswers
<1>12. ASSUME Retire, UNCHANGED <<file, result, issuer, trouble>>, Replacing' PROVE FileInv'
    BY <1>12 DEF Retire, FileInv, FileIsNotStranded
<1>13. ASSUME NEW f \in Flows, FinishExchange(f) PROVE FileInv'
  <2>1. CASE MaySave(f)
    <3>1. Retire /\ UNCHANGED <<file, result, issuer, trouble>> /\ exchange'[f] = "saving"
          BY <1>13, <2>1 DEF FinishExchange, TypeOK
    <3>2. QED
          BY <1>12, <3>1 DEF Replacing
  <2>2. CASE ~MaySave(f)
    <3>1. Replacing' = Replacing
          BY <1>13, <2>2 DEF FinishExchange, Replacing, TypeOK
    <3>2. QED
          BY <1>10, <1>13, <2>2, <3>1 DEF FinishExchange
  <2>3. QED
        BY <2>1, <2>2
<1>14. ASSUME NEW f \in Flows, SaveSignIn(f) PROVE FileInv'
  <2>1. exchange[f] = "saving" /\ status[f] = "pending" /\ f \in SignIns /\ Replacing
        BY <1>14 DEF SaveSignIn, SourceInv, SignIns, Replacing
  <2>2. /\ UNCHANGED <<shared, cred, result, issuer>> /\ trouble \subseteq trouble'
        /\ "crossed" \notin trouble' => file' = <<f, 0>> /\ UNCHANGED trouble
        BY <1>14 DEF SaveSignIn, Trouble
  <2>3. "crossed" \notin trouble => shared = NoStore
        BY <2>1 DEF CrossInv
  <2>4. \A s \in Stores : cred[s][1] # f
        BY <2>1, EarlierAssumption DEF SourceInv, Known, Stores
  <2>5. trouble = {} => issuer[f] = 0
        BY <2>1, <2>4 DEF TokenInv
  <2>6. trouble' = {} => trouble = {} /\ file'[1] = f /\ file'[2] = issuer'[f]
        BY <2>2, <2>5
  <2>7. QED
        BY <2>2, <2>3, <2>6 DEF FileInv, FileIsNotStranded
<1>15. CASE BeginSignOut
    BY <1>12, <1>15 DEF BeginSignOut, Replacing
<1>16. CASE FinishSignOut
  <2>1. /\ UNCHANGED <<shared, cred, result, issuer>> /\ trouble \subseteq trouble'
        /\ "crossed" \notin trouble' => file' = NoCred
        BY <1>16 DEF FinishSignOut, Trouble
  <2>2. "crossed" \notin trouble => shared = NoStore
        BY <1>16 DEF FinishSignOut, CrossInv, Replacing
  <2>3. QED
        BY <2>1, <2>2 DEF FileInv, FileIsNotStranded
<1>17. QED
    BY <1>2, <1>3, <1>4, <1>5, <1>6, <1>7, <1>8, <1>9, <1>11, <1>13, <1>14, <1>15, <1>16
    DEF Next, Turn, Renewal, SignIn, Redirect, Paste, Cancel, TimeOut

-----------------------------------------------------------------------------
(* The theorems.                                                            *)

LEMMA InitInv == Init => IInv
<1> SUFFICES ASSUME Init PROVE IInv
    OBVIOUS
<1>1. Stores = {} /\ \A f \in SignIns : issuer[f] = 0
      BY DEF Init, Stores
<1>2. file = <<Earlier, 0>> /\ file \in Creds /\ file[1] = Earlier /\ file[2] = 0
      BY RenewedShape DEF Init, SignIns
<1>3. SourceInv
      BY <1>2 DEF Init, SourceInv, Known
<1>4. StoreInv /\ LatchInv
      BY <1>1, NullAssumption DEF Init, StoreInv, LatchInv
<1>5. CrossInv /\ TokenInv
      BY <1>1, <1>2 DEF Init, CrossInv, TokenInv, Replacing
<1>6. FileInv
      BY <1>1, <1>2, NullAssumption DEF Init, FileInv, FileIsNotStranded, SignIns
<1>7. QED
      BY <1>3, <1>4, <1>5, <1>6, InitType DEF IInv

LEMMA StepInv == IInv /\ [Next]_vars => IInv'
<1> SUFFICES ASSUME IInv, [Next]_vars PROVE IInv'
    OBVIOUS
<1>1. CASE Next
      BY <1>1, TypeStep, SourceStep, StoreStep, LatchStep, CrossStep, TokenStep, FileStep DEF IInv
<1>2. CASE UNCHANGED vars
  <2> USE <1>2 DEF vars, fileVars, storeVars, turnVars, renewVars, flowVars
  <2>1. TypeOK'
        BY TypeStep DEF IInv
  <2>2. SourceInv'
        BY DEF IInv, SourceInv, Known
  <2>3. StoreInv' /\ LatchInv'
        BY DEF IInv, StoreInv, LatchInv, Stores
  <2>4. CrossInv'
        BY DEF IInv, CrossInv, Stores, Replacing
  <2>5. TokenInv'
        BY TokenFrame DEF IInv
  <2>6. FileInv'
        BY DEF IInv, FileInv, FileIsNotStranded, Replacing
  <2>7. QED
        BY <2>1, <2>2, <2>3, <2>4, <2>5, <2>6 DEF IInv
<1>3. QED
      BY <1>1, <1>2

\* The inductive invariant holds in every reachable state.
THEOREM Invariance == Spec => []IInv
BY InitInv, StepInv, PTL DEF Spec

\* Type correctness.
THEOREM TypeCorrect == Spec => []TypeOK
<1>1. IInv => TypeOK
      BY DEF IInv
<1>2. QED
      BY <1>1, Invariance, PTL

\* The latch of tokenSource: unless a turn and a retirement crossed, no refresh token is
\* presented by two renewals at a time, although waiters give up and several stores are alive.
THEOREM OneRenewalPerToken == Spec => []RenewalsAreExclusive
<1>1. IInv => RenewalsAreExclusive
  <2> SUFFICES ASSUME IInv, "crossed" \notin trouble, NEW a \in Attempts, NEW b \in Attempts,
                      step[a] = "asking", step[b] = "asking", sent[a] = sent[b]
               PROVE  a = b
      BY DEF RenewalsAreExclusive
  <2>1. ownerOf[a] = ownerOf[b]
        BY OwnerOfRenewal DEF IInv
  <2>2. QED
        BY <2>1, OneInFlight DEF IInv
<1>2. QED
      BY <1>1, Invariance, PTL

\* startRefreshLocked commits its own result: unless an answer got lost, the shared store
\* can renew its credential, or the renewal that replaces it is about to be committed.
THEOREM StoreStaysUsable == Spec => []StoreIsNotStranded
<1>1. IInv => StoreIsNotStranded
  <2> SUFFICES ASSUME IInv, trouble \cap {"crossed", "lost"} = {}, shared # NoStore
               PROVE  \/ cred[shared][2] = issuer[cred[shared][1]]
                      \/ inFlight[shared] # NoAttempt /\ step[inFlight[shared]] = "answered"
      BY DEF StoreIsNotStranded
  <2>1. shared \in Stores
        BY DEF IInv, StoreInv
  <2>2. QED
        BY <2>1 DEF IInv, TokenInv, Latest
<1>2. QED
      BY <1>1, Invariance, PTL

\* The next process can go on from the file, or will be able to when the renewals under way
\* are written, unless a write failed, came late, crossed a retirement or an answer got lost.
THEOREM FileStaysUsable == Spec => []FileIsNotStranded
<1>1. IInv => FileIsNotStranded
      BY DEF IInv, FileInv
<1>2. QED
      BY <1>1, Invariance, PTL

\* httpCodexLogout retires before it deletes: no renewal in flight, and no store, brings a
\* credential back after a sign-out that no turn crossed.
THEOREM SignOutHolds == Spec => []SignedOutStaysOut
<1>1. IInv => SignedOutStaysOut
      BY DEF IInv, CrossInv, SignedOutStaysOut
<1>2. QED
      BY <1>1, Invariance, PTL

\* complete looks at the status again under the flow's lock: the credential of a sign-in
\* that failed is neither saved nor used.
THEOREM FailedSignInIsDropped == Spec => []CancelledIsNotSaved
<1>1. IInv => CancelledIsNotSaved
  <2> SUFFICES ASSUME IInv, NEW f \in Flows, status[f] = "error"
               PROVE  /\ file # NoCred => file[1] # f
                      /\ \A s \in Stores : cred[s][1] # f
      BY DEF CancelledIsNotSaved
  <2>1. f # Earlier
        BY EarlierAssumption
  <2>2. QED
        BY <2>1 DEF IInv, SourceInv, Known, Stores
<1>2. QED
      BY <1>1, Invariance, PTL

-----------------------------------------------------------------------------
(* The settings.  The inductive invariant: types, where keys are, and how far *)
(* each sign-in to Polza got.                                              *)

Files == [readable : BOOLEAN, method : Methods, url : Urls, key : Urls, by : {"polza", "form"}]
Pairs == [url : Urls, key : Urls]
Flow == [status : {"none", "pending", "success", "error"},
         claimed : {"no", "asking", "asked"}, over : BOOLEAN, opened : BOOLEAN]
Hand == [op : {"none", "put", "reset", "connect"}, method : Methods, url : Urls, key : Urls,
         clear : BOOLEAN, current : Pairs, login : Logins \cup {NoLogin},
         follow : {"none", "starting", "following", "dropped", "canceling"}, waits : BOOLEAN]

LLMTypeOK ==
    /\ settings \in Files /\ env \in Environments
    /\ logins \in [Logins -> Flow] /\ hands \in [Tabs -> Hand]
    /\ carried \subseteq Hosts /\ ended \subseteq Logins /\ late \subseteq Logins
    /\ clicks \in Nat

\* A stored key belongs to the address it stands beside, or was carried there.
Fits(key, url) == key # "" /\ key # Host(url) => key \in carried

\* A request carries a key of its own, or one that fitted when it was read.
HandFits(h) ==
    /\ h.op = "put" => Fits(h.current.key, h.current.url) /\ h.key \in {"", Host(h.url)}
    /\ h.op = "connect" => SetupAllowed /\ h.key \in {Polza} \cup carried

KeyInv ==
    /\ Fits(settings.key, settings.url)
    /\ settings.by = "polza" => SetupAllowed
    /\ \A t \in Tabs : HandFits(hands[t])

\* A page follows a sign-in that was started.
Follows(h) == h.follow # "none" => h.login \in Logins /\ logins[h.login].status # "none"

LoginInv ==
    /\ \A l \in Logins : logins[l].status = "none" => logins[l].claimed = "no"
    /\ \A l \in Logins : logins[l].status # "none" => SetupAllowed
    /\ \A t \in Tabs : Follows(hands[t])
    /\ \A l \in ended : logins[l].status \in {"success", "error"}
    /\ late = {}

LLMInv == LLMTypeOK /\ KeyInv /\ LoginInv

LEMMA HostOf == \A url \in Urls : Host(url) \in Hosts
BY HostsAssumption DEF Host, Urls

LEMMA NoProvider == Provider(Empty) \in Pairs /\ Provider(Empty).key = ""
BY DEF Provider, Empty, Pairs, Urls

LEMMA RestOf ==
    ASSUME LLMTypeOK, NEW t \in Tabs
    PROVE  /\ Rest(t) \in Hand /\ Rest(t).op = "none"
           /\ Rest(t).follow = hands[t].follow /\ Rest(t).login = hands[t].login
<1>1. hands[t] \in Hand /\ "" \in Urls /\ "" \in Methods
      BY DEF LLMTypeOK, Urls, Methods
<1>2. QED
      BY <1>1, NoProvider DEF Rest, Hand

LEMMA LLMStart == LLMInit => LLMInv
<1> SUFFICES ASSUME LLMInit PROVE LLMInv
    OBVIOUS
<1>1. settings \in Files /\ settings.by = "form" /\ Fits(settings.key, settings.url)
  <2>1. CASE settings = Empty \/ settings = Damaged
    <3>1. Empty \in Files /\ Damaged \in Files
          BY DEF Files, Empty, Damaged, Urls, Methods
    <3>2. Empty.key = "" /\ Empty.by = "form" /\ Damaged.key = "" /\ Damaged.by = "form"
          BY DEF Empty, Damaged
    <3>3. QED
          BY <2>1, <3>1, <3>2 DEF Fits
  <2>2. CASE settings = [Preset EXCEPT !.by = "form"]
        BY <2>2, HostsAssumption DEF Files, Fits, Host, Preset, Urls, Methods
  <2>3. CASE \E h \in Hosts : settings = [Empty EXCEPT !.method = "apikey", !.url = h, !.key = h]
        BY <2>3, HostsAssumption DEF Files, Fits, Host, Empty, Urls, Methods
  <2>4. QED
        BY <2>1, <2>2, <2>3 DEF LLMInit
<1>2. LLMTypeOK
  <2>2. logins \in [Logins -> Flow]
        BY DEF LLMInit, Flow
  <2>3. hands \in [Tabs -> Hand]
        BY DEF LLMInit, Hand, Pairs, Provider, Empty, Urls, Methods
  <2>4. QED
        BY <1>1, <2>2, <2>3 DEF LLMInit, LLMTypeOK
<1>3. KeyInv
      BY <1>1 DEF LLMInit, KeyInv, HandFits
<1>4. LoginInv
      BY DEF LLMInit, LoginInv, Follows
<1>5. QED
      BY <1>2, <1>3, <1>4 DEF LLMInv

\* What fits goes on fitting.
LEMMA StillFits ==
    ASSUME env' = env, carried \subseteq carried'
    PROVE  /\ \A key, url : Fits(key, url) => Fits(key, url)'
           /\ \A h : HandFits(h) => HandFits(h)'
BY DEF Fits, HandFits, SetupAllowed

\* A step of a page: a hand that fits takes the place of a tab's, and the file, when it is
\* written, fits too.
LEMMA HandKeeps ==
    ASSUME LLMInv, NEW t \in Tabs, NEW h \in Hand, hands' = [hands EXCEPT ![t] = h],
           env' = env, clicks' \in Nat, UNCHANGED <<logins, ended, late>>,
           \/ settings' = settings
           \/ /\ settings' \in Files /\ settings'.key \in {"", Host(settings'.url)} \cup carried'
              /\ settings'.by = "polza" => SetupAllowed,
           carried' \subseteq Hosts, carried \subseteq carried', HandFits(h), Follows(h)
    PROVE  LLMInv'
<1>1. LLMTypeOK'
      BY DEF LLMInv, LLMTypeOK
<1>2. KeyInv'
  <2>1. Fits(settings.key, settings.url)'
        BY DEF LLMInv, KeyInv, Fits
  <2>2. settings'.by = "polza" => SetupAllowed'
        BY DEF LLMInv, KeyInv, SetupAllowed
  <2>3. \A u \in Tabs : HandFits(hands'[u])
        BY DEF LLMInv, LLMTypeOK, KeyInv
  <2>4. QED
        BY <2>1, <2>2, <2>3, StillFits DEF KeyInv
<1>3. LoginInv'
      BY DEF LLMInv, LLMTypeOK, LoginInv, Follows, SetupAllowed
<1>4. QED
      BY <1>1, <1>2, <1>3 DEF LLMInv

LEMMA PutKeeps ==
    ASSUME LLMInv, NEW t \in Tabs, NEW form \in Forms, NEW typed \in BOOLEAN, NEW clear \in BOOLEAN,
           PutSettings(t, form[1], form[2], typed, clear)
    PROVE  LLMInv'
<1>1. form[1] \in Methods /\ form[2] \in Urls /\ Host(form[2]) \in Hosts
      BY FormsAssumption, HostOf
<1>2. PICK h : h = [hands[t] EXCEPT !.op = "put", !.method = form[1], !.url = form[2],
                              !.key = IF typed THEN Host(form[2]) ELSE "", !.clear = clear,
                              !.current = IF settings.readable THEN Provider(settings) ELSE Provider(Empty)]
      OBVIOUS
<1>3. /\ hands' = [hands EXCEPT ![t] = h] /\ clicks' = clicks + 1
      /\ UNCHANGED <<settings, env, logins, carried, ended, late>>
      BY <1>2 DEF PutSettings, Busy
<1>4. h \in Hand /\ HandFits(h) /\ Follows(h)
  <2>1. PICK k \in {"", Host(form[2])} : k = IF typed THEN Host(form[2]) ELSE ""
        OBVIOUS
  <2>2. PICK p \in Pairs : /\ p = IF settings.readable THEN Provider(settings) ELSE Provider(Empty)
                           /\ Fits(p.key, p.url)
    <3>1. Provider(settings) \in Pairs /\ Fits(Provider(settings).key, Provider(settings).url)
          BY DEF LLMInv, LLMTypeOK, KeyInv, Files, Pairs, Provider
    <3>2. Fits(Provider(Empty).key, Provider(Empty).url)
          BY NoProvider DEF Fits
    <3>3. QED
          BY <3>1, <3>2, NoProvider
  <2>3. h = [hands[t] EXCEPT !.op = "put", !.method = form[1], !.url = form[2],
                             !.key = k, !.clear = clear, !.current = p]
        BY <1>2, <2>1, <2>2
  <2>4. k \in Urls /\ hands[t] \in Hand /\ Follows(hands[t])
        BY <1>1 DEF LLMInv, LLMTypeOK, LoginInv, Urls
  <2>5. QED
        BY <1>1, <2>1, <2>2, <2>3, <2>4 DEF Hand, HandFits, Follows
<1>5. clicks' \in Nat /\ carried' \subseteq Hosts
      BY <1>3 DEF LLMInv, LLMTypeOK
<1>6. QED
      BY <1>3, <1>4, <1>5, HandKeeps

\* Whatever key a save writes belongs to the address it writes, or is carried.
LEMMA SaveKeeps ==
    ASSUME LLMInv, NEW t \in Tabs, SavePut(t)
    PROVE  LLMInv'
<1> DEFINE h == hands[t]
           astray == h.key = "" /\ Kept(h) # "" /\ Host(h.current.url) # Host(h.url)
           next == [readable |-> TRUE, method |-> h.method, url |-> h.url, key |-> Kept(h), by |-> "form"]
<1>1. /\ h \in Hand /\ HandFits(h) /\ Follows(h) /\ h.op = "put"
      /\ h.url \in Urls /\ h.method \in Methods /\ h.key \in Urls /\ h.current.key \in Urls
      BY DEF LLMInv, LLMTypeOK, KeyInv, LoginInv, SavePut, Hand, Pairs
<1>2. /\ settings' \in {settings, next}
      /\ carried' = IF h.method = "codex" /\ astray THEN carried \cup {Kept(h)} ELSE carried
      /\ hands' = [hands EXCEPT ![t] = Rest(t)]
      /\ UNCHANGED <<env, logins, ended, late, clicks>>
      BY DEF SavePut, Done
<1>3. Kept(h) \in Urls
      BY <1>1 DEF Kept, Urls
<1>4. carried \subseteq carried' /\ carried' \subseteq Hosts
      BY <1>2, <1>3 DEF LLMInv, LLMTypeOK, Urls
<1>5. Kept(h) \in {"", Host(h.url)} \cup carried'
      BY <1>1, <1>2 DEF Kept, Moved, HandFits, Fits
<1>6. next \in Files /\ next.key = Kept(h) /\ next.url = h.url /\ next.by = "form"
      BY <1>1, <1>3 DEF Files
<1>7. Rest(t) \in Hand /\ HandFits(Rest(t)) /\ Follows(Rest(t))
      BY <1>1, RestOf DEF LLMInv, HandFits, Follows
<1>8. clicks' \in Nat
      BY <1>2 DEF LLMInv, LLMTypeOK
<1>9. QED
      BY <1>2, <1>4, <1>5, <1>6, <1>7, <1>8, HandKeeps

\* Resets, and what Polza's preset saves.
LEMMA ResetKeeps ==
    ASSUME LLMInv, NEW t \in Tabs, AskReset(t) \/ Reset(t)
    PROVE  LLMInv'
<1>1. hands[t] \in Hand /\ Follows(hands[t]) /\ clicks \in Nat /\ carried \subseteq Hosts
      BY DEF LLMInv, LLMTypeOK, LoginInv
<1>2. CASE AskReset(t)
  <2>1. PICK h : /\ h = [hands[t] EXCEPT !.op = "reset", !.waits = hands[t].follow = "following",
                              !.follow = IF hands[t].follow = "following" THEN "canceling"
                                         ELSE IF @ = "starting" THEN "dropped" ELSE @]
                 /\ hands' = [hands EXCEPT ![t] = h]
        BY <1>2 DEF AskReset, Busy
  <2>2. clicks' = clicks + 1 /\ UNCHANGED <<settings, env, logins, carried, ended, late>>
        BY <1>2 DEF AskReset, Busy
  <2>3. h \in Hand /\ HandFits(h) /\ Follows(h)
        BY <1>1, <2>1 DEF Hand, HandFits, Follows
  <2>4. QED
    <3>1. clicks' \in Nat /\ carried' \subseteq Hosts /\ carried \subseteq carried'
          BY <1>1, <2>2
    <3>2. QED
          BY <2>1, <2>2, <2>3, <3>1, HandKeeps
<1>3. CASE Reset(t)
  <2>1. /\ settings' \in {settings, Empty} /\ hands' = [hands EXCEPT ![t] = Rest(t)]
        /\ UNCHANGED <<env, logins, carried, ended, late, clicks>>
        BY <1>3 DEF Reset, Done, Told
  <2>2. Rest(t) \in Hand /\ HandFits(Rest(t)) /\ Follows(Rest(t))
        BY <1>1, RestOf DEF LLMInv, HandFits, Follows
  <2>3. Empty \in Files /\ Empty.key = "" /\ Empty.by = "form"
        BY DEF Files, Empty, Urls, Methods
  <2>4. QED
        BY <1>1, <2>1, <2>2, <2>3, HandKeeps
<1>4. QED
      BY <1>2, <1>3

LEMMA ConnectKeeps ==
    ASSUME LLMInv, NEW t \in Tabs, Connected(t) \/ \E typed \in BOOLEAN : Connect(t, typed)
    PROVE  LLMInv'
<1>1. /\ hands[t] \in Hand /\ HandFits(hands[t]) /\ Follows(hands[t]) /\ settings \in Files
      /\ Fits(settings.key, settings.url) /\ clicks \in Nat /\ carried \subseteq Hosts
      BY DEF LLMInv, LLMTypeOK, KeyInv, LoginInv
<1>2. ASSUME NEW typed \in BOOLEAN, Connect(t, typed)
      PROVE  LLMInv'
  <2>1. PICK key : key = IF typed THEN Polza ELSE settings.key
        OBVIOUS
  <2>2. PICK h : h = [hands[t] EXCEPT !.op = "connect", !.key = key]
        OBVIOUS
  <2>3. hands' = [hands EXCEPT ![t] = h] /\ clicks' = clicks + 1
        BY <1>2, <2>1, <2>2 DEF Connect, Busy
  <2>4. UNCHANGED <<settings, env, logins, carried, ended, late>> /\ SetupAllowed
        BY <1>2 DEF Connect
  <2>5. key \in {Polza} \cup carried /\ key \in Urls
    <3>1. CASE typed
          BY <2>1, <3>1, HostsAssumption DEF Urls
    <3>2. CASE ~typed
      <4>1. settings.url = Polza /\ settings.key # ""
            BY <1>2, <3>2 DEF Connect
      <4>2. QED
            BY <1>1, <2>1, <3>2, <4>1, HostsAssumption DEF Fits, Host, Files
    <3>3. QED
          BY <3>1, <3>2
  <2>6. h \in Hand /\ HandFits(h) /\ Follows(h)
        BY <1>1, <2>2, <2>4, <2>5 DEF Hand, HandFits, Follows
  <2>7. QED
    <3>1. clicks' \in Nat /\ carried' \subseteq Hosts /\ carried \subseteq carried'
          BY <1>1, <2>3, <2>4
    <3>2. QED
          BY <2>3, <2>4, <2>6, <3>1, HandKeeps
<1>3. CASE Connected(t)
  <2>1. PICK saved : saved = [Preset EXCEPT !.key = hands[t].key]
        OBVIOUS
  <2>2. /\ settings' \in {settings, saved} /\ hands' = [hands EXCEPT ![t] = Rest(t)]
        /\ UNCHANGED <<env, logins, carried, ended, late, clicks>> /\ hands[t].op = "connect"
        BY <1>3, <2>1 DEF Connected, Done, Told
  <2>3. hands[t].key \in {Polza} \cup carried /\ hands[t].key \in Urls /\ SetupAllowed
        BY <1>1, <2>2 DEF HandFits, Hand
  <2>4. /\ saved \in Files /\ saved.key \in {"", Host(saved.url)} \cup carried
        BY <2>1, <2>3, HostsAssumption DEF Files, Preset, Urls, Methods, Host
  <2>5. Rest(t) \in Hand /\ HandFits(Rest(t)) /\ Follows(Rest(t))
        BY <1>1, RestOf DEF LLMInv, HandFits, Follows
  <2>6. QED
        BY <1>1, <2>2, <2>3, <2>4, <2>5, HandKeeps
<1>4. QED
      BY <1>2, <1>3

-----------------------------------------------------------------------------
(* Sign-ins *)

LEMMA SettledOf ==
    ASSUME LLMInv, NEW l \in Logins, NEW st \in {"success", "error"}
    PROVE  /\ Settled(l, st) \in Flow /\ Settled(l, st).claimed = logins[l].claimed
           /\ logins[l].status = "none" => Settled(l, st).status = "none"
           /\ logins[l].status # "none" => Settled(l, st).status \in {"success", "error"}
BY DEF LLMInv, LLMTypeOK, Settled, Flow

\* A step of the sign-ins, and of the page that follows one.
LEMMA LoginsKeep ==
    ASSUME LLMInv, logins' \in [Logins -> Flow], hands' \in [Tabs -> Hand],
           \A t \in Tabs : HandFits(hands'[t]) /\ Follows(hands[t])',
           \A l \in Logins : logins'[l].status = "none" => logins'[l].claimed = "no",
           \A l \in Logins : logins'[l].status # "none" => SetupAllowed,
           \A l \in ended' : l \in Logins /\ logins'[l].status \in {"success", "error"},
           UNCHANGED <<env, carried>>, late' = late, clicks' \in Nat,
           settings' = settings \/ (settings' = Preset /\ SetupAllowed)
    PROVE  LLMInv'
<1>1. Preset \in Files /\ Preset.key = Polza /\ Host(Preset.url) = Polza
      BY HostsAssumption DEF Preset, Files, Urls, Methods, Host
<1>2. LLMTypeOK'
      BY <1>1 DEF LLMInv, LLMTypeOK
<1>3. KeyInv'
  <2>1. Fits(settings.key, settings.url)'
        BY <1>1 DEF LLMInv, KeyInv, Fits
  <2>2. settings'.by = "polza" => SetupAllowed'
        BY DEF LLMInv, KeyInv, SetupAllowed
  <2>3. QED
        BY <2>1, <2>2, StillFits DEF KeyInv
<1>4. LoginInv'
      BY DEF LLMInv, LoginInv, SetupAllowed
<1>5. QED
      BY <1>2, <1>3, <1>4 DEF LLMInv

\* A page's step between two calls leaves what its hand has sent alone.
LEMMA FollowOf ==
    ASSUME LLMInv, NEW t \in Tabs, NEW way \in {"none", "following", "dropped", "canceling"}, Follow(t, way),
           \A l \in Logins : logins[l].status # "none" => logins'[l].status # "none",
           hands[t].follow # "none"
    PROVE  /\ hands' \in [Tabs -> Hand]
           /\ \A u \in Tabs : HandFits(hands'[u]) /\ Follows(hands[u])'
<1>1. PICK login \in Logins \cup {NoLogin} :
         /\ login = IF way = "none" THEN NoLogin ELSE hands[t].login
         /\ way # "none" => login = hands[t].login
      BY DEF LLMInv, LLMTypeOK, Hand
<1>2. PICK h : h = [hands[t] EXCEPT !.follow = way, !.login = login]
      OBVIOUS
<1>3. hands' = [hands EXCEPT ![t] = h]
      BY <1>1, <1>2 DEF Follow, LLMInv, LLMTypeOK, Hand
<1>4. /\ h \in Hand /\ h.op = hands[t].op /\ h.key = hands[t].key /\ h.url = hands[t].url
      /\ h.current = hands[t].current /\ h.follow = way /\ h.login = login
      BY <1>2 DEF LLMInv, LLMTypeOK, Hand
<1>5. hands' \in [Tabs -> Hand]
      BY <1>3, <1>4 DEF LLMInv, LLMTypeOK
<1>6. ASSUME NEW u \in Tabs PROVE HandFits(hands'[u]) /\ Follows(hands[u])'
  <2>1. HandFits(hands[u]) /\ Follows(hands[u]) /\ Follows(hands[t])
        BY DEF LLMInv, KeyInv, LoginInv
  <2>2. CASE u = t
    <3>1. hands'[u] = h
          BY <1>3, <2>2 DEF LLMInv, LLMTypeOK
    <3>2. HandFits(h)
          BY <1>4, <2>1, <2>2 DEF HandFits
    <3>3. h.follow # "none" => h.login \in Logins /\ logins'[h.login].status # "none"
          BY <1>1, <1>4, <2>1 DEF Follows
    <3>4. QED
          BY <3>1, <3>2, <3>3 DEF Follows
  <2>3. CASE u # t
        BY <1>3, <2>1, <2>3 DEF LLMInv, LLMTypeOK, Follows
  <2>4. QED
        BY <2>2, <2>3
<1>7. QED
      BY <1>5, <1>6

LEMMA StartKeeps ==
    ASSUME LLMInv, NEW t \in Tabs, NEW l \in Logins, StartLogin(t, l)
    PROVE  LLMInv'
<1>1. /\ hands[t] \in Hand /\ logins[l] \in Flow /\ SetupAllowed /\ hands[t].follow = "none"
      /\ logins[l].status = "none" /\ logins[l].claimed = "no" /\ clicks \in Nat
      BY DEF LLMInv, LLMTypeOK, LoginInv, StartLogin
<1>2. PICK h : h = [hands[t] EXCEPT !.login = l, !.follow = "starting"]
      OBVIOUS
<1>3. /\ hands' = [hands EXCEPT ![t] = h] /\ clicks' = clicks + 1
      /\ UNCHANGED <<settings, env, carried, ended, late>>
      BY <1>2 DEF StartLogin, Busy
<1>4. PICK f : f = [logins[l] EXCEPT !.status = "pending"]
      OBVIOUS
<1>5. logins' = [x \in Logins |-> IF x = l THEN f ELSE Settled(x, "error")]
      BY <1>4 DEF StartLogin, Finished
<1>6. f \in Flow /\ f.status = "pending"
      BY <1>1, <1>4 DEF Flow
<1>7. /\ h \in Hand /\ h.follow = "starting" /\ h.login = l /\ h.op = hands[t].op
      /\ h.key = hands[t].key /\ h.url = hands[t].url /\ h.current = hands[t].current
      BY <1>1, <1>2 DEF Hand
<1>8. logins' \in [Logins -> Flow] /\ \A x \in Logins : logins'[x].status = "none" => logins'[x].claimed = "no"
      BY <1>5, <1>6, SettledOf DEF LLMInv, LoginInv
<1>9. \A x \in ended : x \in Logins /\ logins'[x].status \in {"success", "error"}
      BY <1>1, <1>5, SettledOf DEF LLMInv, LLMTypeOK, LoginInv
<1>10. hands' \in [Tabs -> Hand]
      BY <1>3, <1>7 DEF LLMInv, LLMTypeOK
<1>11. ASSUME NEW u \in Tabs PROVE HandFits(hands'[u]) /\ Follows(hands[u])'
  <2>1. HandFits(hands[u]) /\ Follows(hands[u])
        BY DEF LLMInv, KeyInv, LoginInv
  <2>2. CASE u = t
    <3>1. hands'[u] = h
          BY <1>3, <2>2 DEF LLMInv, LLMTypeOK
    <3>2. HandFits(h)
          BY <1>7, <2>1, <2>2 DEF HandFits
    <3>3. QED
          BY <1>5, <1>6, <1>7, <3>1, <3>2 DEF Follows
  <2>3. CASE u # t
    <3>1. hands'[u] = hands[u]
          BY <1>3, <2>3 DEF LLMInv, LLMTypeOK
    <3>2. QED
          BY <1>5, <1>6, <2>1, <3>1, SettledOf DEF Follows
  <2>4. QED
        BY <2>2, <2>3
<1>12. clicks' \in Nat
      BY <1>1, <1>3
<1>13. QED
      BY <1>1, <1>3, <1>8, <1>9, <1>10, <1>11, <1>12, LoginsKeep

\* The page's half: an answer heard, a cancel, a poll.
LEMMA PageKeeps ==
    ASSUME LLMInv, NEW t \in Tabs, HearStart(t) \/ CancelLogin(t) \/ LoginCanceled(t) \/ PollLogin(t)
    PROVE  LLMInv'
<1>1. PageOnly /\ hands[t].follow # "none"
      BY DEF HearStart, CancelLogin, LoginCanceled, PollLogin
<1>2. hands[t].login \in Logins /\ logins[hands[t].login].status # "none"
      BY <1>1 DEF LLMInv, LoginInv, Follows
<1>3. PICK way \in {"none", "following", "dropped", "canceling"} : Follow(t, way)
      BY DEF HearStart, CancelLogin, LoginCanceled, PollLogin
<1>4. /\ logins' \in [Logins -> Flow]
      /\ \A l \in Logins : logins'[l].claimed = logins[l].claimed
      /\ \A l \in Logins : logins[l].status = "none" <=> logins'[l].status = "none"
      /\ \A l \in Logins : logins[l].status \in {"success", "error"} => logins'[l].status \in {"success", "error"}
      /\ ended' \subseteq ended \cup {hands[t].login}
      /\ hands[t].login \in ended' \ ended => logins'[hands[t].login].status \in {"success", "error"}
  <2>1. CASE UNCHANGED logins
    <3>1. CASE UNCHANGED ended
          BY <2>1, <3>1 DEF LLMInv, LLMTypeOK
    <3>2. CASE ~UNCHANGED ended
      <4>1. PollLogin(t) \/ LoginCanceled(t)
            BY <3>2 DEF HearStart, CancelLogin
      <4>2. CASE PollLogin(t)
            BY <2>1, <3>2, <4>2 DEF LLMInv, LLMTypeOK, PollLogin
      <4>3. CASE LoginCanceled(t)
            BY <1>2, <2>1, <3>2, <4>3, SettledOf DEF LLMInv, LLMTypeOK, LoginCanceled, Finished
      <4>4. QED
            BY <4>1, <4>2, <4>3
    <3>3. QED
          BY <3>1, <3>2
  <2>2. CASE \E l \in Logins : logins' = [logins EXCEPT ![l] = Finished(l)] /\ l = hands[t].login /\ ended' = ended \cup {l}
        BY <1>2, <2>2, SettledOf DEF LLMInv, LLMTypeOK, Finished
  <2>3. CASE logins' = [logins EXCEPT ![hands[t].login].opened = TRUE] /\ UNCHANGED ended
        BY <2>3 DEF LLMInv, LLMTypeOK, Flow
  <2>4. QED
        BY <1>2, <2>1, <2>2, <2>3 DEF HearStart, CancelLogin, LoginCanceled, PollLogin
<1>5. hands' \in [Tabs -> Hand] /\ \A u \in Tabs : HandFits(hands'[u]) /\ Follows(hands[u])'
      BY <1>1, <1>3, <1>4, FollowOf
<1>6. \A l \in ended' : l \in Logins /\ logins'[l].status \in {"success", "error"}
      BY <1>2, <1>4 DEF LLMInv, LLMTypeOK, LoginInv
<1>7. /\ \A l \in Logins : logins'[l].status = "none" => logins'[l].claimed = "no"
      /\ \A l \in Logins : logins'[l].status # "none" => SetupAllowed
      BY <1>4 DEF LLMInv, LoginInv
<1>8. UNCHANGED <<settings, env, carried, late>> /\ clicks' \in Nat
      BY <1>1 DEF PageOnly, LLMInv, LLMTypeOK
<1>9. QED
      BY <1>4, <1>5, <1>6, <1>7, <1>8, LoginsKeep

\* The provider's half: one sign-in that was started goes on.
LEMMA FlowKeeps ==
    ASSUME LLMInv, NEW l \in Logins, NEW f \in Flow, logins' = [logins EXCEPT ![l] = f],
           logins[l].status # "none", f.status # "none",
           logins[l].status \in {"success", "error"} => f.status \in {"success", "error"},
           UNCHANGED <<env, hands, carried, ended, clicks>>, late' = late,
           settings' = settings \/ settings' = Preset
    PROVE  LLMInv'
<1>1. SetupAllowed
      BY DEF LLMInv, LoginInv
<1>2. logins' \in [Logins -> Flow]
      BY DEF LLMInv, LLMTypeOK
<1>3. \A x \in Logins : /\ logins'[x].status = "none" => logins[x] = logins'[x]
                        /\ logins[x].status # "none" => logins'[x].status # "none"
                        /\ logins[x].status \in {"success", "error"} => logins'[x].status \in {"success", "error"}
      BY DEF LLMInv, LLMTypeOK
<1>4. hands' \in [Tabs -> Hand] /\ clicks' \in Nat
      BY DEF LLMInv, LLMTypeOK
<1>5. \A t \in Tabs : HandFits(hands'[t]) /\ Follows(hands[t])'
      BY <1>3 DEF LLMInv, KeyInv, LoginInv, Follows
<1>6. /\ \A x \in Logins : logins'[x].status = "none" => logins'[x].claimed = "no"
      /\ \A x \in ended' : x \in Logins /\ logins'[x].status \in {"success", "error"}
      BY <1>3 DEF LLMInv, LLMTypeOK, LoginInv
<1>7. QED
      BY <1>1, <1>2, <1>4, <1>5, <1>6, LoginsKeep

LEMMA SubmitKeeps ==
    ASSUME LLMInv, NEW l \in Logins, SubmitCode(l) \/ Overdue(l)
    PROVE  LLMInv'
<1>1. logins[l] \in Flow /\ logins[l].status = "pending" /\ LoginsOnly
      BY DEF LLMInv, LLMTypeOK, SubmitCode, Overdue
<1>2. PICK f : logins' = [logins EXCEPT ![l] = f] /\ f \in {Finished(l), [logins[l] EXCEPT !.claimed = "asking"],
                                                            [logins[l] EXCEPT !.over = TRUE]}
  <2>1. CASE SubmitCode(l)
        BY <2>1 DEF SubmitCode, LLMInv, LLMTypeOK
  <2>2. CASE Overdue(l)
        BY <2>2 DEF Overdue, LLMInv, LLMTypeOK
  <2>3. QED
        BY <2>1, <2>2
<1>3. f \in Flow /\ f.status # "none"
      BY <1>1, <1>2, SettledOf DEF Flow, Finished
<1>4. QED
      BY <1>1, <1>2, <1>3, FlowKeeps DEF LoginsOnly

\* The key of a sign-in that ended while it was asked for finds it settled.
LEMMA ArriveKeeps ==
    ASSUME LLMInv, NEW l \in Logins, KeyArrives(l)
    PROVE  LLMInv'
<1>1. logins[l] \in Flow /\ logins[l].claimed = "asking" /\ logins[l].status # "none"
      BY DEF LLMInv, LLMTypeOK, LoginInv, KeyArrives
<1>2. StillWanted(l) => l \notin ended
      BY DEF LLMInv, LoginInv, StillWanted
<1>3. UNCHANGED <<env, hands, carried, ended, clicks>> /\ late' = late /\ settings' \in {settings, Preset}
      BY <1>2 DEF KeyArrives
<1>4. PICK f \in Flow : /\ logins' = [logins EXCEPT ![l] = f] /\ f.status # "none"
                        /\ logins[l].status \in {"success", "error"} => f.status \in {"success", "error"}
  <2> DEFINE asked(g) == [g EXCEPT !.claimed = "asked"]
  <2>1. \A g \in Flow : asked(g) \in Flow /\ asked(g).status = g.status
        BY DEF Flow
  <2>2. PICK g \in {logins[l], Settled(l, "success"), Settled(l, "error")} : logins' = [logins EXCEPT ![l] = asked(g)]
    <3>1. CASE ~StillWanted(l)
          BY <3>1 DEF KeyArrives, LLMInv, LLMTypeOK
    <3>2. CASE StillWanted(l)
          BY <3>2 DEF KeyArrives, Finished, LLMInv, LLMTypeOK
    <3>3. QED
          BY <3>1, <3>2
  <2>3. g \in Flow /\ g.status # "none" /\ (logins[l].status \in {"success", "error"} => g.status \in {"success", "error"})
        BY <1>1, <2>2, SettledOf
  <2>4. QED
        BY <2>1, <2>2, <2>3
<1>5. QED
      BY <1>1, <1>3, <1>4, FlowKeeps

LEMMA LLMStep == LLMInv /\ [LLMNext]_llmVars => LLMInv'
<1> SUFFICES ASSUME LLMInv, [LLMNext]_llmVars PROVE LLMInv'
    OBVIOUS
<1>1. ASSUME NEW t \in Tabs, Panel(t) PROVE LLMInv'
      BY <1>1, PutKeeps, SaveKeeps, ResetKeeps, ConnectKeeps, StartKeeps, PageKeeps DEF Panel
<1>2. ASSUME NEW l \in Logins, SubmitCode(l) \/ KeyArrives(l) \/ Overdue(l) PROVE LLMInv'
      BY <1>2, SubmitKeeps, ArriveKeeps
<1>3. CASE UNCHANGED llmVars
      BY <1>3 DEF llmVars, LLMInv, LLMTypeOK, KeyInv, HandFits, Fits, SetupAllowed, LoginInv, Follows
<1>4. QED
      BY <1>1, <1>2, <1>3 DEF LLMNext

-----------------------------------------------------------------------------
(* What both halves promise, of every behaviour of a process *)

LEMMA LLMInvariance == AccessSpec => []LLMInv
<1>1. AccessInit => LLMInv
      BY LLMStart DEF AccessInit
<1>2. [AccessNext]_accessVars => [LLMNext]_llmVars
      BY DEF AccessNext, OnSubscription, OnSettings, accessVars, llmVars
<1>3. QED
      BY <1>1, <1>2, LLMStep, PTL DEF AccessSpec

\* A behaviour of the process is one of the subscription's.
LEMMA SubscriptionWithin == AccessSpec => Spec
<1>1. AccessInit => Init
      BY DEF AccessInit
<1>2. [AccessNext]_accessVars => [Next]_vars
      BY DEF AccessNext, OnSubscription, OnSettings, accessVars, vars
<1>3. QED
      BY <1>1, <1>2, PTL DEF AccessSpec, Spec

\* A stored or posted key reaches no host but its provider's, whatever order several tabs save,
\* reset, connect and sign in in, unless the user carried it there (httpPutLLMSettings).
THEOREM KeysStayHome == AccessSpec => []KeysGoHome
<1>1. LLMInv => KeysGoHome
  <2> SUFFICES ASSUME LLMInv PROVE KeysGoHome
      OBVIOUS
  <2>1. /\ env \in Environments /\ Fits(settings.key, settings.url)
        /\ settings.by = "polza" => SetupAllowed /\ settings.by \in {"polza", "form"}
        BY DEF LLMInv, LLMTypeOK, KeyInv, Files
  <2>2. ASSUME Resolved.provider, Resolved.key \notin {"", Resolved.host}
        PROVE  \/ Resolved.key \in carried
               \/ (env.key = "") # (env.url = "") /\ settings.by = "form"
    <3>1. Resolved.key = First(env.key, settings.key) /\ Resolved.host = Host(First(env.url, settings.url))
          BY DEF Resolved
    <3>2. CASE env.key = "" /\ env.url = ""
          BY <2>1, <2>2, <3>1, <3>2 DEF First, Fits
    <3>3. CASE env.key # "" /\ env.url # ""
          BY <2>1, <2>2, <3>1, <3>3, EnvironmentAssumption DEF First
    <3>4. CASE (env.key = "") # (env.url = "")
      <4>1. ~SetupAllowed
        <5>1. ASSUME SetupAllowed PROVE env.key = "" /\ env.url = ""
          <6>1. PICK e : e = [method |-> "", url |-> "", key |-> ""]
                OBVIOUS
          <6>2. e.key = "" /\ e.url = ""
                BY <6>1
          <6>3. env = e
                BY <5>1, <6>1 DEF SetupAllowed
          <6>4. QED
                BY <6>2, <6>3
        <5>2. QED
              BY <3>4, <5>1
      <4>2. settings.by = "form"
            BY <2>1, <4>1 DEF LLMInv, LLMTypeOK, Files
      <4>3. QED
            BY <3>4, <4>2
    <3>5. QED
          BY <3>2, <3>3, <3>4
  <2>3. \A t \in Tabs : hands[t].op = "connect" => hands[t].key \in {Polza} \cup carried
        BY DEF LLMInv, KeyInv, HandFits
  <2>4. QED
        BY <2>2, <2>3 DEF KeysGoHome
<1>2. QED
      BY <1>1, LLMInvariance, PTL

\* Whichever half a process uses, the other's promises hold too: those proved of the
\* subscription above are promises of every process.
THEOREM SubscriptionHolds ==
    AccessSpec => [](RenewalsAreExclusive /\ FileIsNotStranded /\ SignedOutStaysOut)
BY SubscriptionWithin, OneRenewalPerToken, FileStaysUsable, SignOutHolds, PTL

\* complete and submit look at the flow again when the issuer has answered: what was canceled,
\* timed out or refused saves neither a credential nor a key.
THEOREM CanceledStaysCanceled == AccessSpec => []CanceledSignInsSaveNothing
<1>1. LLMInv => EndedLoginsSaveNothing
      BY DEF LLMInv, LoginInv, EndedLoginsSaveNothing
<1>2. CancelledIsNotSaved /\ EndedLoginsSaveNothing => CanceledSignInsSaveNothing
      BY DEF CanceledSignInsSaveNothing
<1>3. QED
      BY <1>1, <1>2, LLMInvariance, SubscriptionWithin, FailedSignInIsDropped, PTL

=============================================================================
