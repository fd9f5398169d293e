------------------------------ MODULE Accounts ------------------------------
(* Who is signed in, and where: the server of "dzzzr web" (its config and     *)
(* its client), the session file it shares with every other dzzzr process of  *)
(* the city, and a "dzzzr login" that runs beside it.                         *)
(*                                                                            *)
(* An organizer's login is tried without the lock that guards the sign-in,    *)
(* so that two of them, a sign-out and every save of the session may fall     *)
(* into one trial.  A player's sign-in holds the lock throughout and is one   *)
(* step.  Captain and PIN are left out: they travel with the organizer's      *)
(* credentials and nothing here depends on them.                              *)
CONSTANTS
  Tab,        \* the requests that may try an organizer's login at one time
  Org,        \* organizer credentials: a login with a password
  LoginOf,    \* their logins
  Good,       \* the credentials the engine accepts
  NoOrg,      \* no organizer
  FlagOrg,    \* the organizer the server was started with, or NoOrg
  NoTry, NoCopy

Tries == [cred : Org, prev : Org \cup {NoOrg}, outcome : {"asking", "refused", "accepted"}]

ASSUME AccountsAssumption ==
  /\ Good \subseteq Org /\ NoOrg \notin Org /\ NoTry \notin Tries
  /\ DOMAIN LoginOf = Org
  /\ FlagOrg \in Good \cup {NoOrg}

VARIABLES
  hub,        \* the server: [cfg, org] the organizer of its config and of its client,
              \* session whether the client has one of a player, player the login and
              \* password of its config
  file,       \* the session file: [org, session]; an absent one says nothing
  tries,      \* tab -> the login it tries: [cred, prev, outcome]
  copy,       \* the organizer a "dzzzr login" loaded from the file and will write back
  forgot,     \* history: the organizer signed out, and nobody signed in or wrote back since
  tangled     \* history: a login began, or a session was saved, during the trial of another

accountVars == <<hub, file, tries, copy, forgot, tangled>>

Empty == [org |-> NoOrg, session |-> FALSE]

(* webAuthorize: the file first, then the flags, which also stay in cfg.     *)
Started(f) ==
  [cfg |-> FlagOrg, org |-> IF FlagOrg # NoOrg THEN FlagOrg ELSE f.org,
   session |-> f.session, player |-> "none"]

AccountsInit ==
  /\ file \in [org : Good \cup {NoOrg}, session : BOOLEAN]
  /\ hub = Started(file)
  /\ tries = [t \in Tab |-> NoTry]
  /\ copy = NoCopy
  /\ forgot = FALSE /\ tangled = FALSE

Trying == {t \in Tab : tries[t] # NoTry}

(* saveSession writes all the client has over whatever the file holds; it    *)
(* may fail, and the handlers that sign an organizer in or out only log it.  *)
Saved(org, session) == [org |-> org, session |-> session]

-----------------------------------------------------------------------------
(* The organizer, in the browser *)

(* loginOrganizer puts the credentials in place before they are proved.      *)
BeginLogin(t, c) ==
  /\ tries[t] = NoTry
  /\ tries' = [tries EXCEPT ![t] = [cred |-> c, prev |-> hub.cfg, outcome |-> "asking"]]
  /\ hub' = [hub EXCEPT !.cfg = c, !.org = c]
  /\ tangled' = (tangled \/ Trying # {})
  /\ forgot' = FALSE
  /\ UNCHANGED <<file, copy>>

(* The list of games is asked for with the credentials the client has by     *)
(* then; an engine that cannot be reached counts as a refusal.               *)
Prove(t) ==
  /\ tries[t] # NoTry /\ tries[t].outcome = "asking"
  /\ \E o \in {"refused"} \cup (IF hub.org \in Good THEN {"accepted"} ELSE {}) :
       tries' = [tries EXCEPT ![t].outcome = o]
  /\ UNCHANGED <<hub, file, copy, forgot, tangled>>

SameLogin(a, b) == a # NoOrg /\ LoginOf[a] = LoginOf[b]

\* Mutants: a refusal puts the earlier organizer back whoever is in place by then;
\* a refusal leaves everything as it is.
MutAlwaysRestored(try) == [hub EXCEPT !.cfg = try.prev, !.org = try.prev]
MutNeverRestored(try) == hub

(* What a refused login leaves: the organizer that config named before it,   *)
(* if the login in place is still this one.                                  *)
Restored(try) ==
  IF SameLogin(hub.cfg, try.cred)
    THEN [hub EXCEPT !.cfg = try.prev, !.org = try.prev]
    ELSE hub

LoginRefused(t) ==
  /\ tries[t] # NoTry /\ tries[t].outcome = "refused"
  /\ hub' = Restored(tries[t])
  /\ tries' = [tries EXCEPT ![t] = NoTry]
  /\ UNCHANGED <<file, copy, forgot, tangled>>

LoginAccepted(t) ==
  /\ tries[t] # NoTry /\ tries[t].outcome = "accepted"
  /\ tries' = [tries EXCEPT ![t] = NoTry]
  /\ file' \in {file, Saved(hub.org, hub.session)}
  /\ tangled' = (tangled \/ Trying # {t})
  /\ UNCHANGED <<hub, copy, forgot>>

OrganizerLogout ==
  /\ hub' = [hub EXCEPT !.cfg = NoOrg, !.org = NoOrg]
  /\ file' \in {file, Saved(NoOrg, hub.session)}
  /\ forgot' = (file'.org = NoOrg)
  /\ UNCHANGED <<tries, copy, tangled>>

-----------------------------------------------------------------------------
(* The player, in the browser; every step holds the lock *)

SignIn(p) ==
  /\ hub' = [hub EXCEPT !.session = TRUE, !.player = p]
  /\ file' \in {file, Saved(hub.org, TRUE)}
  /\ tangled' = (tangled \/ Trying # {})

PlayerLogin ==
  /\ SignIn("good")
  /\ UNCHANGED <<tries, copy, forgot>>

(* A refused login and password stay in the config.                          *)
PlayerRefused ==
  /\ hub' = [hub EXCEPT !.player = "bad"]
  /\ UNCHANGED <<file, tries, copy, forgot, tangled>>

PlayerLogout ==
  /\ hub' = [hub EXCEPT !.session = FALSE, !.player = "none"]
  /\ file' \in {file, Empty}
  /\ UNCHANGED <<tries, copy, forgot, tangled>>

(* The catalogue of games finds its session refused: sign in again with what *)
(* the config has; the old session is gone either way.                       *)
CatalogueRefresh ==
  /\ hub.player # "none"
  /\ \/ hub.player = "good" /\ SignIn("good")
     \/ /\ hub' = [hub EXCEPT !.session = FALSE]
        /\ UNCHANGED <<file, tangled>>
  /\ UNCHANGED <<tries, copy, forgot>>

(* The server stops, whatever was under way, and is started again.           *)
Restart ==
  /\ hub' = Started(file)
  /\ tries' = [t \in Tab |-> NoTry]
  /\ forgot' = (forgot /\ FlagOrg = NoOrg)
  /\ UNCHANGED <<file, copy, tangled>>

-----------------------------------------------------------------------------
(* Other processes of the city *)

(* A process that loaded the session before writes all of it back.           *)
WriteBack(org, session) ==
  /\ file' = Saved(org, session)
  /\ forgot' = (forgot /\ org = NoOrg)

(* cmdLogin loads the file and then asks for what is missing.                *)
CliOpen ==
  /\ copy = NoCopy
  /\ copy' = file.org
  /\ UNCHANGED <<hub, file, tries, forgot, tangled>>

CliLogin ==
  /\ copy # NoCopy
  /\ \/ WriteBack(copy, TRUE)
     \/ UNCHANGED <<file, forgot>>
  /\ copy' = NoCopy
  /\ UNCHANGED <<hub, tries, tangled>>

CliLogout ==
  /\ file' = Empty
  /\ UNCHANGED <<hub, tries, copy, forgot, tangled>>

AccountsNext ==
  \/ \E t \in Tab : (\E c \in Org : BeginLogin(t, c)) \/ Prove(t)
                    \/ LoginRefused(t) \/ LoginAccepted(t)
  \/ OrganizerLogout
  \/ PlayerLogin \/ PlayerRefused \/ PlayerLogout \/ CatalogueRefresh
  \/ Restart
  \/ CliOpen \/ CliLogin \/ CliLogout

AccountsSpec == AccountsInit /\ [][AccountsNext]_accountVars

-----------------------------------------------------------------------------

AccountsTypeOK ==
  LET O == Org \cup {NoOrg} IN
  /\ hub \in [cfg : O, org : O, session : BOOLEAN, player : {"none", "good", "bad"}]
  /\ file \in [org : O, session : BOOLEAN]
  /\ tries \in [Tab -> Tries \cup {NoTry}]
  /\ copy \in O \cup {NoCopy}
  /\ forgot \in BOOLEAN /\ tangled \in BOOLEAN

\* An organizer who signed out stays signed out, in memory and on disk, whatever the
\* engine answers to a login that was still being tried; only a new login, or another
\* process that writes back what it had loaded, signs the organizer in again.
SignedOutIsForgotten == forgot => hub.org = NoOrg /\ file.org = NoOrg

\* Credentials the engine refused are not kept: when no login is being tried, the client
\* and the file name an organizer the engine accepted or none at all, unless a login
\* began, or somebody's session was saved, during the trial of another.
RefusedIsNotKept ==
  Trying = {} /\ ~tangled => {hub.org, file.org} \subseteq Good \cup {NoOrg}

=============================================================================
