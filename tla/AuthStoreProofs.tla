--------------------------- MODULE AuthStoreProofs ---------------------------
(***************************************************************************)
(* Proofs about AuthStore, for any number of users, keys and callers, and  *)
(* of writes to the users file.                                            *)
(***************************************************************************)
EXTENDS AuthStore, TLAPS

-----------------------------------------------------------------------------
(* The inductive invariant.                                                *)

Document == [parses : BOOLEAN, secrets : BOOLEAN, users : SUBSET (Names \X Keys)]

TInv ==
    /\ TypeOK
    /\ pc \in [Callers -> {"idle", "stat", "load", "replace"}]
    /\ seen \in [Callers -> None..MaxWrites]
    /\ loaded \in [Callers -> [ver : None..MaxWrites, doc : Document]]
    /\ source \in 1..MaxWrites

\* reloadMu is a mutex: TryLock lets one caller reload.
Mutex == \A c, d \in Callers : pc[c] # "idle" /\ pc[d] # "idle" => c = d

\* Versions only go forward: the mtime remembered is not later than the version
\* installed, nor that than the file's; and a version stands for its document.
Installed ==
    /\ lastMod <= source /\ source <= file.ver
    /\ source = file.ver => users = Merged(file.doc)

\* What a reload has read when it is about to use it: never older than what is
\* installed, and not older than the mtime it will remember.
InHand(c) ==
    /\ pc[c] = "load" => seen[c] <= file.ver
    /\ pc[c] = "replace" =>
          /\ seen[c] <= loaded[c].ver /\ source <= loaded[c].ver
          /\ loaded[c].ver <= file.ver
          /\ loaded[c].ver = file.ver => loaded[c].doc = file.doc

ReloadsInHand == \A c \in Callers : InHand(c)

IInv == TInv /\ Mutex /\ OneKeyPerUser /\ Installed /\ ReloadsInHand

\* Stat may skip the file when its mtime is the remembered one: the store then
\* holds what the file says.  The safety half of Converges.
SkipIsSafe == lastMod = file.ver => users = Merged(file.doc)

-----------------------------------------------------------------------------
\* Documents have their fields.
LEMMA DocumentsType == Documents \subseteq Document
  <1>1. NoDocument \in Document
    <2>1. FALSE \in BOOLEAN
      BY Zenon
    <2> QED BY <2>1 DEF NoDocument, Document
  <1>2. [NoDocument EXCEPT !.parses = TRUE] \in Document
    <2>1. TRUE \in BOOLEAN
      BY Zenon
    <2> QED BY <1>1, <2>1 DEF Document
  <1>3. \A us \in SUBSET (Names \X Keys) : [parses |-> TRUE, secrets |-> TRUE, users |-> us] \in Document
    <2>1. TRUE \in BOOLEAN
      BY Zenon
    <2> QED BY <2>1 DEF Document
  <1> QED BY <1>1, <1>2, <1>3 DEF Documents

\* The set replaceFileUsers swaps in is of users.
LEMMA MergedType ==
  ASSUME NEW d \in Document
  PROVE  Merged(d) \subseteq Names \X Keys
  BY AuthAssumption DEF Merged, Kept, Document

\* The checks of buildEntry and replaceFileUsers, with the override by name, give
\* every user one key and every key one user.
LEMMA MergedOneKey ==
  ASSUME NEW d \in Document, Valid(d)
  PROVE  \A u, v \in Merged(d) : u # v => u[1] # v[1] /\ u[2] # v[2]
  <1> SUFFICES ASSUME NEW u \in Merged(d), NEW v \in Merged(d), u # v
               PROVE  u[1] # v[1] /\ u[2] # v[2]
    OBVIOUS
  <1>1. CASE u \in Kept(d) /\ v \in Kept(d)
    BY <1>1, AuthAssumption DEF Kept
  <1>2. CASE u \in d.users /\ v \in d.users
    BY <1>2 DEF Valid
  <1>3. CASE u \in d.users /\ v \in Kept(d)
    BY <1>3 DEF Valid, Kept
  <1>4. CASE u \in Kept(d) /\ v \in d.users
    BY <1>4 DEF Valid, Kept
  <1> QED BY <1>1, <1>2, <1>3, <1>4 DEF Merged

-----------------------------------------------------------------------------
\* The invariant holds once attachUsersFile has loaded the file.
LEMMA IInvInit ==
  ASSUME Init
  PROVE  IInv
  <1>1. PICK d \in Documents : /\ Valid(d) /\ users = Merged(d)
                               /\ file = [exists |-> TRUE, ver |-> 1, doc |-> d]
    BY DEF Init
  <1>2. d \in Document
    BY <1>1, DocumentsType
  <1>3. 1 \in 1..MaxWrites /\ lastMod \in None..MaxWrites /\ None \in None..MaxWrites /\ lastMod <= 1
    BY AuthAssumption DEF Init, None
  <1>4. NoDocument \in Document
    BY DocumentsType DEF Documents
  <1>5. TInv
    <2>1. TypeOK
      <3>1. TRUE \in BOOLEAN /\ FALSE \in BOOLEAN
        BY Zenon
      <3>2. file \in [exists : BOOLEAN, ver : 1..MaxWrites, doc : Documents]
        BY <1>1, <1>3, <3>1
      <3> QED BY <1>1, <1>2, <1>3, <3>1, <3>2, MergedType DEF Init, TypeOK
    <2>2. Nothing \in [ver : None..MaxWrites, doc : Document]
      BY <1>3, <1>4 DEF Nothing
    <2> QED BY <1>3, <2>1, <2>2 DEF Init, TInv
  <1>6. OneKeyPerUser
    BY <1>1, <1>2, MergedOneKey DEF OneKeyPerUser
  <1>7. Installed
    BY <1>1, <1>3 DEF Init, Installed
  <1> QED BY <1>5, <1>6, <1>7 DEF Init, IInv, Mutex, ReloadsInHand, InHand

\* The return of maybeReload.
LEMMA LeaveKeeps ==
  ASSUME TInv, Mutex, NEW c \in Callers, Leave(c)
  PROVE  /\ pc' \in [Callers -> {"idle", "stat", "load", "replace"}]
         /\ lock' = {e \in Callers : pc'[e] # "idle"}
         /\ seen' \in [Callers -> None..MaxWrites]
         /\ loaded' \in [Callers -> [ver : None..MaxWrites, doc : Document]]
         /\ Mutex'
         /\ \A e \in Callers : pc'[e] \notin {"load", "replace"} \/ e # c
         /\ \A e \in Callers : e # c => pc'[e] = pc[e] /\ seen'[e] = seen[e] /\ loaded'[e] = loaded[e]
  <1>1. pc' \in [Callers -> {"idle", "stat", "load", "replace"}]
    BY DEF Leave, TInv
  <1>2. lock' = {e \in Callers : pc'[e] # "idle"}
    BY DEF Leave, TInv, TypeOK
  <1>3. seen' \in [Callers -> None..MaxWrites]
    <2>1. None \in None..MaxWrites
      BY AuthAssumption DEF None
    <2> QED BY <2>1 DEF Leave, TInv
  <1>4. loaded' \in [Callers -> [ver : None..MaxWrites, doc : Document]]
    <2>1. None \in None..MaxWrites
      BY AuthAssumption DEF None
    <2>2. NoDocument \in Document
      BY DocumentsType DEF Documents
    <2>3. Nothing \in [ver : None..MaxWrites, doc : Document]
      BY <2>1, <2>2 DEF Nothing
    <2> QED BY <2>3 DEF Leave, TInv
  <1>5. Mutex'
    BY DEF Leave, TInv, Mutex
  <1>6. pc'[c] = "idle"
    BY DEF Leave, TInv
  <1>7. \A e \in Callers : e # c => pc'[e] = pc[e] /\ seen'[e] = seen[e] /\ loaded'[e] = loaded[e]
    BY DEF Leave, TInv
  <1> QED BY <1>1, <1>2, <1>3, <1>4, <1>5, <1>6, <1>7

\* Every step keeps the invariant.
LEMMA IInvNext ==
  ASSUME IInv, [Next]_vars
  PROVE  IInv' /\ source' >= source
  <1> USE DEF IInv
  <1>t. /\ file.ver \in 1..MaxWrites /\ file.doc \in Documents /\ source \in 1..MaxWrites
        /\ lastMod \in None..MaxWrites /\ MaxWrites \in Nat /\ users \subseteq Names \X Keys
        /\ pc \in [Callers -> {"idle", "stat", "load", "replace"}]
        /\ seen \in [Callers -> None..MaxWrites]
        /\ loaded \in [Callers -> [ver : None..MaxWrites, doc : Document]]
        /\ file \in [exists : BOOLEAN, ver : 1..MaxWrites, doc : Documents]
    BY AuthAssumption DEF TInv, TypeOK
  <1>i. /\ source \in Int /\ file.ver \in Int /\ lastMod \in Int
        /\ \A c \in Callers : seen[c] \in Int /\ loaded[c].ver \in Int
    <2>1. \A c \in Callers : seen[c] \in None..MaxWrites /\ loaded[c].ver \in None..MaxWrites
      BY <1>t
    <2> QED BY <1>t, <2>1 DEF None
  <1>1. CASE Write
    <2>1. PICK d \in Documents : file' = [exists |-> TRUE, ver |-> file.ver + 1, doc |-> d]
      BY <1>1 DEF Write
    <2>2. file.ver < MaxWrites /\ UNCHANGED <<users, lastMod, due, lock, pc, seen, loaded, source>>
      BY <1>1 DEF Write
    <2>3. file'.ver = file.ver + 1 /\ file.ver + 1 \in 1..MaxWrites
      BY <1>t, <1>i, <2>1, <2>2
    <2>4. file' \in [exists : BOOLEAN, ver : 1..MaxWrites, doc : Documents]
      <3>1. TRUE \in BOOLEAN
        BY Zenon
      <3> QED BY <2>1, <2>3, <3>1
    <2>5. TInv'
      BY <2>2, <2>4 DEF TInv, TypeOK
    <2>6. Installed'
      BY <1>i, <2>2, <2>3 DEF Installed
    <2>7. \A c \in Callers : InHand(c)'
      BY <1>i, <2>2, <2>3 DEF ReloadsInHand, InHand
    <2> QED BY <1>i, <2>2, <2>5, <2>6, <2>7 DEF Mutex, OneKeyPerUser, ReloadsInHand
  <1>2. CASE Remove
    <2>1. /\ file' = [file EXCEPT !.exists = FALSE]
          /\ UNCHANGED <<users, lastMod, due, lock, pc, seen, loaded, source>>
      BY <1>2 DEF Remove
    <2>2. file'.ver = file.ver /\ file'.doc = file.doc
      BY <1>t, <2>1
    <2>3. file' \in [exists : BOOLEAN, ver : 1..MaxWrites, doc : Documents]
      <3>1. FALSE \in BOOLEAN
        BY Zenon
      <3> QED BY <1>t, <2>1, <3>1
    <2>4. TInv'
      BY <2>1, <2>3 DEF TInv, TypeOK
    <2>5. Installed' /\ ReloadsInHand'
      BY <2>1, <2>2 DEF Installed, ReloadsInHand, InHand
    <2> QED BY <1>i, <2>1, <2>4, <2>5 DEF Mutex, OneKeyPerUser
  <1>3. CASE Elapse
    <2>1. due' \in BOOLEAN /\ UNCHANGED <<file, users, lastMod, lock, pc, seen, loaded, source>>
      BY <1>3, Zenon DEF Elapse
    <2> QED BY <1>i, <2>1 DEF TInv, TypeOK, Mutex, OneKeyPerUser, Installed, ReloadsInHand, InHand
  <1>4. ASSUME NEW c \in Callers, Enter(c) PROVE IInv' /\ source' >= source
    <2>1. /\ lock = {} /\ pc' = [pc EXCEPT ![c] = "stat"] /\ lock' = lock \cup {c}
          /\ UNCHANGED <<file, users, lastMod, seen, loaded, source>>
      BY <1>4 DEF Enter, TryLock
    <2>2. due' \in BOOLEAN
      BY <1>4, Zenon DEF Enter
    <2>3. \A e \in Callers : pc[e] = "idle"
      BY <2>1 DEF TInv, TypeOK
    <2>4. TInv'
      BY <1>t, <2>1, <2>2, <2>3 DEF TInv, TypeOK
    <2>5. Mutex' /\ ReloadsInHand'
      BY <1>t, <2>1, <2>3 DEF Mutex, ReloadsInHand, InHand
    <2> QED BY <1>i, <2>1, <2>4, <2>5 DEF OneKeyPerUser, Installed
  <1>5. ASSUME NEW c \in Callers, Stat(c) PROVE IInv' /\ source' >= source
    <2>1. UNCHANGED <<file, users, lastMod, due, source>> /\ pc[c] = "stat"
      BY <1>5 DEF Stat
    <2>2. CASE Leave(c)
      <3>1. TInv' /\ Mutex'
        BY <2>1, <2>2, LeaveKeeps DEF TInv, TypeOK
      <3>2. ReloadsInHand'
        BY <2>1, <2>2, LeaveKeeps DEF ReloadsInHand, InHand
      <3> QED BY <1>i, <2>1, <3>1, <3>2 DEF OneKeyPerUser, Installed
    <2>3. CASE ~Leave(c)
      <3>1. seen' = [seen EXCEPT ![c] = file.ver] /\ pc' = [pc EXCEPT ![c] = "load"] /\ UNCHANGED <<lock, loaded>>
        BY <1>5, <2>3 DEF Stat
      <3>2. file.ver \in None..MaxWrites
        BY <1>t DEF None
      <3>3. seen' \in [Callers -> None..MaxWrites]
        BY <1>t, <3>1, <3>2
      <3>4. TInv'
        BY <1>t, <2>1, <3>1, <3>3 DEF TInv, TypeOK
      <3>5. Mutex'
        BY <1>t, <2>1, <3>1 DEF Mutex
      <3>6. ReloadsInHand'
        BY <1>t, <1>i, <2>1, <3>1 DEF ReloadsInHand, InHand
      <3> QED BY <1>i, <2>1, <3>4, <3>5, <3>6 DEF OneKeyPerUser, Installed
    <2> QED BY <2>2, <2>3
  <1>6. ASSUME NEW c \in Callers, Load(c) PROVE IInv' /\ source' >= source
    <2>1. UNCHANGED <<file, users, lastMod, due, source>> /\ pc[c] = "load"
      BY <1>6 DEF Load
    <2>2. CASE Leave(c)
      <3>1. TInv' /\ Mutex'
        BY <2>1, <2>2, LeaveKeeps DEF TInv, TypeOK
      <3>2. ReloadsInHand'
        BY <2>1, <2>2, LeaveKeeps DEF ReloadsInHand, InHand
      <3> QED BY <1>i, <2>1, <3>1, <3>2 DEF OneKeyPerUser, Installed
    <2>3. CASE ~Leave(c)
      <3> DEFINE r == [ver |-> file.ver, doc |-> file.doc]
      <3>1. loaded' = [loaded EXCEPT ![c] = r] /\ pc' = [pc EXCEPT ![c] = "replace"] /\ UNCHANGED <<lock, seen>>
        BY <1>6, <2>3 DEF Load
      <3>2. file.ver \in None..MaxWrites /\ file.doc \in Document
        BY <1>t, DocumentsType DEF None
      <3>3. r \in [ver : None..MaxWrites, doc : Document] /\ r.ver = file.ver /\ r.doc = file.doc
        BY <3>2
      <3> HIDE DEF r
      <3>4. loaded' \in [Callers -> [ver : None..MaxWrites, doc : Document]]
        BY <1>t, <3>1, <3>3
      <3>5. TInv'
        BY <1>t, <2>1, <3>1, <3>4 DEF TInv, TypeOK
      <3>6. Mutex'
        BY <1>t, <2>1, <3>1 DEF Mutex
      <3>7. InHand(c)'
        <4>1. loaded'[c] = r /\ pc'[c] = "replace" /\ seen'[c] = seen[c]
          BY <1>t, <3>1
        <4>2. seen[c] <= file.ver /\ source <= file.ver
          BY <2>1 DEF ReloadsInHand, InHand, Installed
        <4>3. file.ver <= file.ver
          BY <1>i
        <4> QED BY <2>1, <3>3, <4>1, <4>2, <4>3 DEF InHand
      <3>8. \A e \in Callers \ {c} : InHand(e)'
        BY <1>t, <2>1, <3>1 DEF ReloadsInHand, InHand
      <3> QED BY <1>i, <2>1, <3>5, <3>6, <3>7, <3>8 DEF OneKeyPerUser, Installed, ReloadsInHand
    <2> QED BY <2>2, <2>3
  <1>7. ASSUME NEW c \in Callers, Replace(c) PROVE IInv' /\ source' >= source
    <2>1. pc[c] = "replace" /\ Leave(c) /\ UNCHANGED <<file, due>>
      BY <1>7 DEF Replace
    <2>2. \A e \in Callers : pc'[e] \notin {"load", "replace"}
      BY <2>1, LeaveKeeps DEF Mutex
    <2>3. ReloadsInHand' /\ Mutex'
      BY <2>1, <2>2, LeaveKeeps DEF ReloadsInHand, InHand
    <2>4. CASE Valid(loaded[c].doc)
      <3>1. users' = Merged(loaded[c].doc) /\ source' = loaded[c].ver /\ lastMod' = seen[c]
        BY <1>7, <2>4 DEF Replace
      <3>2. loaded[c].doc \in Document /\ loaded[c].ver \in None..MaxWrites /\ seen[c] \in None..MaxWrites
        BY <1>t
      <3>3. /\ seen[c] <= loaded[c].ver /\ source <= loaded[c].ver /\ loaded[c].ver <= file.ver
            /\ loaded[c].ver = file.ver => loaded[c].doc = file.doc
        BY <2>1 DEF ReloadsInHand, InHand
      <3>4. users' \subseteq Names \X Keys /\ OneKeyPerUser'
        BY <3>1, <3>2, <2>4, MergedType, MergedOneKey DEF OneKeyPerUser
      <3>5. source' \in 1..MaxWrites
        <4>1. source \in Int /\ source >= 1 /\ loaded[c].ver \in Int /\ loaded[c].ver <= MaxWrites
          BY <1>t, <1>i, <3>2 DEF None
        <4> QED BY <3>1, <3>3, <4>1
      <3>6. TInv'
        BY <2>1, <3>1, <3>2, <3>4, <3>5, LeaveKeeps DEF TInv, TypeOK
      <3>7. Installed'
        BY <2>1, <3>1, <3>3 DEF Installed
      <3> QED BY <1>i, <2>3, <3>1, <3>3, <3>4, <3>6, <3>7
    <2>5. CASE ~Valid(loaded[c].doc)
      <3>1. UNCHANGED <<users, source, lastMod>>
        BY <1>7, <2>5 DEF Replace
      <3>2. TInv'
        BY <2>1, <3>1, LeaveKeeps DEF TInv, TypeOK
      <3> QED BY <1>i, <2>1, <2>3, <3>1, <3>2 DEF OneKeyPerUser, Installed
    <2> QED BY <2>4, <2>5
  <1>8. CASE UNCHANGED vars
    BY <1>i, <1>8 DEF vars, TInv, TypeOK, Mutex, OneKeyPerUser, Installed, ReloadsInHand, InHand
  <1> QED BY <1>1, <1>2, <1>3, <1>4, <1>5, <1>6, <1>7, <1>8 DEF Next, Reload

-----------------------------------------------------------------------------
\* Every reachable state has IInv.
THEOREM Invariant == Spec => []IInv
  <1>1. IInv /\ [Next]_vars => IInv'
    BY IInvNext
  <1> QED BY <1>1, IInvInit, PTL DEF Spec

\* The store keeps its types, and reloadMu is held by the callers that reload.
THEOREM TypeCorrect == Spec => []TypeOK
  <1>1. IInv => TypeOK
    BY DEF IInv, TInv
  <1> QED BY <1>1, Invariant, PTL

\* identify finds at most one user for a key, and a user has one key, whatever
\* replaceFileUsers merged.
THEOREM OneKeyCorrect == Spec => []OneKeyPerUser
  <1>1. IInv => OneKeyPerUser
    BY DEF IInv
  <1> QED BY <1>1, Invariant, PTL

\* maybeReload never puts an older version of the file over a newer one.
THEOREM NeverBackwardsCorrect == Spec => NeverBackwards
  <1>1. IInv /\ [Next]_vars => [source' >= source]_vars
    BY IInvNext
  <1> QED BY <1>1, Invariant, PTL DEF Spec, NeverBackwards

\* A reload that skips the file for its mtime misses nothing.
THEOREM SkipCorrect == Spec => []SkipIsSafe
  <1>1. IInv => SkipIsSafe
    <2> SUFFICES ASSUME IInv, lastMod = file.ver PROVE users = Merged(file.doc)
      BY DEF SkipIsSafe
    <2>1. lastMod <= source /\ source <= file.ver
      BY DEF IInv, Installed
    <2>2. source \in Int /\ file.ver \in Int
      BY DEF IInv, TInv, TypeOK
    <2>3. source = file.ver
      BY <2>1, <2>2
    <2> QED BY <2>3 DEF IInv, Installed
  <1> QED BY <1>1, Invariant, PTL

=============================================================================
