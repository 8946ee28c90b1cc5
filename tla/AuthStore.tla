------------------------------ MODULE AuthStore ------------------------------
(***************************************************************************)
(* The user store of auth.go and users_file.go: API keys of the inline     *)
(* users and of a users file that requests reload while other requests     *)
(* look keys up.                                                           *)
(*                                                                         *)
(* A key stands for its SHA-256 digest and a user for its name.  Time is   *)
(* one Boolean: whether reloadEvery has elapsed since lastCheck.  Every    *)
(* write of the file is assumed to give it an mtime it never had, as       *)
(* maybeReload compares mtimes only for equality; a version number stands  *)
(* for the mtime.                                                          *)
(***************************************************************************)
EXTENDS Integers, FiniteSets

CONSTANTS
    Names,      \* user names
    Keys,       \* API keys
    Inline,     \* the inline users, pairs of a name and a key
    Callers,    \* requests in ServeHTTP that may reload at the same time
    MaxWrites   \* bound on the writes to the file

ASSUME AuthAssumption ==
    /\ Inline \subseteq Names \X Keys
    /\ \A u, v \in Inline : u # v => u[1] # v[1] /\ u[2] # v[2]  \* newAuthStore
    /\ MaxWrites \in Nat \ {0}

VARIABLES
    file,    \* the users file: whether it exists, its mtime and its document
    users,   \* byDigest, as pairs of a name and a key
    lastMod, \* lastModTime, or None
    due,     \* reloadEvery has elapsed since lastCheck
    lock,    \* the callers inside reloadMu
    pc,      \* per caller, where in maybeReload it is
    seen,    \* per caller, the mtime its stat returned
    loaded,  \* per caller, the version and document it loaded
    source   \* history: the version of the file that users came from

vars == <<file, users, lastMod, due, lock, pc, seen, loaded, source>>

None == -1
\* A document that does not parse, one with a secret that cannot be resolved,
\* or one with these users.
NoDocument == [parses |-> FALSE, secrets |-> FALSE, users |-> {}]
Documents ==
    {NoDocument, [NoDocument EXCEPT !.parses = TRUE]}
    \cup {[parses |-> TRUE, secrets |-> TRUE, users |-> us] : us \in SUBSET (Names \X Keys)}
Nothing == [ver |-> None, doc |-> NoDocument]

-----------------------------------------------------------------------------
\* Faulty variant: an inline user keeps its key beside the file user's.
KeptAll(d) == Inline

\* replaceFileUsers: a file user overrides the inline user of the same name.
Kept(d) == {u \in Inline : \A f \in d.users : f[1] # u[1]}

\* buildEntry and the duplicate checks of replaceFileUsers.
Valid(d) ==
    /\ d.parses /\ d.secrets
    /\ \A f, g \in d.users : f # g => f[1] # g[1]
    /\ \A f \in d.users, g \in d.users \cup Kept(d) : f # g => f[2] # g[2]

Merged(d) == Kept(d) \cup d.users

\* attachUsersFile: stat, then load; both may see the file at different times,
\* the stat may fail, and the load must succeed.
Init ==
    /\ \E d \in Documents :
          /\ Valid(d)
          /\ file = [exists |-> TRUE, ver |-> 1, doc |-> d]
          /\ users = Merged(d)
    /\ lastMod \in {None, 0, 1}
    /\ due = FALSE
    /\ lock = {}
    /\ pc = [c \in Callers |-> "idle"]
    /\ seen = [c \in Callers |-> None]
    /\ loaded = [c \in Callers |-> Nothing]
    /\ source = 1

\* The operator replaces or removes the file.
Write ==
    /\ file.ver < MaxWrites
    /\ \E d \in Documents : file' = [exists |-> TRUE, ver |-> file.ver + 1, doc |-> d]
    /\ UNCHANGED <<users, lastMod, due, lock, pc, seen, loaded, source>>

Remove ==
    /\ file.exists
    /\ file' = [file EXCEPT !.exists = FALSE]
    /\ UNCHANGED <<users, lastMod, due, lock, pc, seen, loaded, source>>

Elapse ==
    /\ ~due
    /\ due' = TRUE
    /\ UNCHANGED <<file, users, lastMod, lock, pc, seen, loaded, source>>

-----------------------------------------------------------------------------
(* maybeReload, entered by every request.                                  *)

\* Faulty variant: no lock.
TryLockAnyway(c) == TRUE

\* reloadMu.TryLock: a request that finds a reload under way skips this cycle.
TryLock(c) == lock = {}

Enter(c) ==
    /\ pc[c] = "idle"
    /\ TryLock(c)
    /\ due
    /\ due' = FALSE
    /\ lock' = lock \cup {c}
    /\ pc' = [pc EXCEPT ![c] = "stat"]
    /\ UNCHANGED <<file, users, lastMod, seen, loaded, source>>

\* Return: forget the local state and unlock.
Leave(c) ==
    /\ pc' = [pc EXCEPT ![c] = "idle"]
    /\ lock' = lock \ {c}
    /\ seen' = [seen EXCEPT ![c] = None]
    /\ loaded' = [loaded EXCEPT ![c] = Nothing]

\* os.Stat: a missing file or an unchanged mtime ends the reload.
Stat(c) ==
    /\ pc[c] = "stat"
    /\ \/ /\ ~file.exists \/ file.ver = lastMod
          /\ Leave(c)
       \/ /\ file.exists /\ file.ver # lastMod
          /\ seen' = [seen EXCEPT ![c] = file.ver]
          /\ pc' = [pc EXCEPT ![c] = "load"]
          /\ UNCHANGED <<lock, loaded>>
    /\ UNCHANGED <<file, users, lastMod, due, source>>

\* usersFile.load: what the file holds by now.
Load(c) ==
    /\ pc[c] = "load"
    /\ \/ /\ ~(file.exists /\ file.doc.parses)
          /\ Leave(c)
       \/ /\ file.exists /\ file.doc.parses
          /\ loaded' = [loaded EXCEPT ![c] = [ver |-> file.ver, doc |-> file.doc]]
          /\ pc' = [pc EXCEPT ![c] = "replace"]
          /\ UNCHANGED <<lock, seen>>
    /\ UNCHANGED <<file, users, lastMod, due, source>>

\* Faulty variant: the mtime is read after the document.
ReplaceStatLate(c) ==
    /\ pc[c] = "replace"
    /\ IF Valid(loaded[c].doc)
       THEN /\ users' = Merged(loaded[c].doc)
            /\ source' = loaded[c].ver
            /\ lastMod' = file.ver
       ELSE UNCHANGED <<users, source, lastMod>>
    /\ Leave(c)
    /\ UNCHANGED <<file, due>>

\* replaceFileUsers builds the whole set before it swaps it in; lastModTime
\* moves only when the set was accepted.
Replace(c) ==
    /\ pc[c] = "replace"
    /\ IF Valid(loaded[c].doc)
       THEN /\ users' = Merged(loaded[c].doc)
            /\ source' = loaded[c].ver
            /\ lastMod' = seen[c]
       ELSE UNCHANGED <<users, source, lastMod>>
    /\ Leave(c)
    /\ UNCHANGED <<file, due>>

Reload(c) == Enter(c) \/ Stat(c) \/ Load(c) \/ Replace(c)

Next ==
    \/ Write \/ Remove \/ Elapse
    \/ \E c \in Callers : Reload(c)

Spec == Init /\ [][Next]_vars

\* Requests keep arriving, and each runs to its end.
FairSpec ==
    /\ Spec
    /\ WF_vars(Elapse)
    /\ WF_vars(\E c \in Callers : Enter(c))
    /\ \A c \in Callers : WF_vars(Stat(c) \/ Load(c) \/ Replace(c))

-----------------------------------------------------------------------------
\* Type invariant of the store; with it, reloadMu is held exactly by the
\* callers that are reloading.
TypeOK ==
    /\ file \in [exists : BOOLEAN, ver : 1..MaxWrites, doc : Documents]
    /\ users \subseteq Names \X Keys
    /\ lastMod \in None..MaxWrites
    /\ due \in BOOLEAN
    /\ lock = {c \in Callers : pc[c] # "idle"}

\* identify is a function, and a rotated key is revoked: no key belongs to two
\* users and no user has two keys, whatever mix of inline and file users the
\* reloads installed.
OneKeyPerUser ==
    \A u, v \in users : u # v => u[1] # v[1] /\ u[2] # v[2]

\* Concurrent reloads never put an older version of the file over a newer one.
NeverBackwards == [][source' >= source]_vars

\* No write is lost: once the file is left alone with an acceptable document,
\* the store comes to hold it, also when the write fell between the stat and
\* the load of a reload, or followed rejected, unreadable or missing files.
Converges ==
    \/ []<>~(file.exists /\ Valid(file.doc))
    \/ <>[](users = Merged(file.doc))

=============================================================================
