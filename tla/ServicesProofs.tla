--------------------------- MODULE ServicesProofs ---------------------------
(***************************************************************************)
(* Proofs about the services of the daemons: lock files, API token secrets,*)
(* job state files, datastore lookup with maintenance mode, the LRU cache, *)
(* and the configuration files.  Each part has its inductive invariant,    *)
(* lemmas for the actions, and ends with the theorems that state the       *)
(* safety of the component.                                                *)
(***************************************************************************)
EXTENDS LockFile, TokenSecrets, JobState, Maintenance, LruCache, ConfigFiles, FiniteSetTheorems, TLAPS

-----------------------------------------------------------------------------
(* Lock files *)

(* A user holds the lock of the inode it has opened, from the moment it was *)
(* granted until it is released; two holders of an inode share it; and      *)
(* whoever lock_helper has let in holds the inode that is at the path.      *)
LockInd ==
    /\ LockTypeOK
    /\ \A u \in User : user[u].step = "idle" <=> user[u].inode = LockNone
    /\ \A u \in User, i \in Holdable :
         u \in holders[i] <=> user[u].inode = i /\ user[u].step \in {"locked", "using", "destroyed", "unlinked"}
    /\ \A i \in Holdable : \A u, v \in holders[i] :
         u # v => user[u].mode = "shared" /\ user[v].mode = "shared"
    /\ \A u \in User : user[u].step \in {"using", "destroyed"} => user[u].inode = path
    /\ \A u \in User : user[u].step = "destroyed" => user[u].mode # "shared"

(* Nobody has opened a lock file yet. *)
LEMMA LockInitInd == LockInit => LockInd
<1> SUFFICES ASSUME LockInit PROVE LockInd
  OBVIOUS
<1>1. NotUsing \in UserState
  BY DEF NotUsing, UserState
<1>2. LockTypeOK
  BY <1>1 DEF LockInit, LockTypeOK
<1> QED
  BY <1>2, HoldableAssumption DEF LockInit, LockInd, NotUsing

(* Every step of a user keeps the invariant. *)
LEMMA LockStepInd == LockInd /\ [LockNext]_lockVars => LockInd'
<1> SUFFICES ASSUME LockInd, [LockNext]_lockVars PROVE LockInd'
  OBVIOUS
<1> DEFINE Keeps == /\ path \in Holdable \cup {LockNone}
                    /\ holders \in [Holdable -> SUBSET User]
                    /\ user \in [User -> UserState]
                    /\ \A u \in User : user[u].step = "idle" <=> user[u].inode = LockNone
                    /\ \A u \in User, i \in Holdable :
                         u \in holders[i] <=> user[u].inode = i /\ user[u].step \in {"locked", "using", "destroyed", "unlinked"}
                    /\ \A i \in Holdable : \A u, v \in holders[i] :
                         u # v => user[u].mode = "shared" /\ user[v].mode = "shared"
                    /\ \A u \in User : user[u].step \in {"using", "destroyed"} => user[u].inode = path
                    /\ \A u \in User : user[u].step = "destroyed" => user[u].mode # "shared"
<1>k. Keeps
  BY DEF LockInd, LockTypeOK
<1>b. exists' \in BOOLEAN
  <2>1. exists \in BOOLEAN
    BY DEF LockInd, LockTypeOK
  <2> QED
    BY <2>1, Zenon DEF LockNext, OpenLockFile, TakeLock, LockBusy, GivesUp, StatLockFile, StatDiffers,
       CreateObject, DestroyObject, UnlinkLockFile, ReleaseLock, lockVars
<1>s. SUFFICES Keeps'
  BY <1>b DEF LockInd, LockTypeOK
<1>a. ASSUME NEW u \in User, NEW m \in {"shared", "exclusive", "creating"}, OpenLockFile(u, m) PROVE Keeps'
  BY <1>a, <1>k, HoldableAssumption DEF OpenLockFile, UserState
<1>2. ASSUME NEW u \in User, TakeLock(u) PROVE Keeps'
  BY <1>2, <1>k, HoldableAssumption DEF TakeLock, Grantable, UserState
<1>3. ASSUME NEW u \in User, LockBusy(u) PROVE Keeps'
  <2>1. user' = [user EXCEPT ![u] = NotUsing] /\ UNCHANGED <<path, holders>> /\ user[u].step = "opened"
    BY <1>3 DEF LockBusy, GivesUp
  <2> QED
    BY <2>1, <1>k, HoldableAssumption DEF NotUsing, UserState
<1>4. ASSUME NEW u \in User, StatLockFile(u) PROVE Keeps'
  BY <1>4, <1>k, HoldableAssumption DEF StatLockFile, UserState
<1>5. ASSUME NEW u \in User, StatDiffers(u) PROVE Keeps'
  <2>1. /\ user' = [user EXCEPT ![u] = NotUsing] /\ UNCHANGED path /\ user[u].step = "locked"
        /\ holders' = [holders EXCEPT ![user[u].inode] = @ \ {u}]
    BY <1>5 DEF StatDiffers, GivesUp
  <2> QED
    BY <2>1, <1>k, HoldableAssumption DEF NotUsing, UserState
<1>6. ASSUME NEW u \in User, CreateObject(u) PROVE Keeps'
  <2>1. user' = [user EXCEPT ![u].mode = "creating"] /\ UNCHANGED <<path, holders>> /\ user[u].step = "idle"
    BY <1>6 DEF CreateObject, NotUsing
  <2> QED
    BY <2>1, <1>k, HoldableAssumption DEF UserState
<1>10. ASSUME NEW u \in User, DestroyObject(u) PROVE Keeps'
  <2>1. /\ user' = [user EXCEPT ![u].step = "destroyed"] /\ UNCHANGED <<path, holders>>
        /\ user[u].step = "using" /\ user[u].mode # "shared"
    BY <1>10 DEF DestroyObject, Exclusive
  <2> QED
    BY <2>1, <1>k, HoldableAssumption DEF UserState
<1>7. ASSUME NEW u \in User, UnlinkLockFile(u) PROVE Keeps'
  BY <1>7, <1>k, HoldableAssumption DEF UnlinkLockFile, UserState
<1>8. ASSUME NEW u \in User, ReleaseLock(u) PROVE Keeps'
  BY <1>8, <1>k, HoldableAssumption DEF ReleaseLock, NotUsing, UserState
<1>9. CASE UNCHANGED lockVars
  BY <1>9, <1>k DEF lockVars
<1> QED
  BY <1>a, <1>2, <1>3, <1>4, <1>5, <1>6, <1>7, <1>8, <1>9, <1>10 DEF LockNext

(* The invariant says that exclusive users are alone. *)
LEMMA LockIndSafe == LockInd => LockSafe
  BY HoldableAssumption DEF LockInd, LockSafe, LockExclusive, LockTypeOK, UserState

(* lock_helper: the holders of a backup lock exclude each other, although   *)
(* the lock file is unlinked and made again under them.                     *)
THEOREM LockFilesExclude == LockSpec => []LockSafe
<1>1. LockSpec => []LockInd
  BY LockInitInd, LockStepInd, PTL DEF LockSpec
<1> QED
  BY <1>1, LockIndSafe, PTL

-----------------------------------------------------------------------------
(* API token secrets *)

(* What the counters and records may be; the bounds of the model are not    *)
(* needed.                                                                  *)
CacheRec == [secrets : [Token -> Nat], gen : Nat, info : Nat \cup {Unknown}]
CheckRec == [step : {"idle", "captured", "verified"}, token : Token \cup {TokenNone}, secret : Nat, before : Nat, read : Nat]
MutationRec == [step : {"idle", "locked", "read", "written", "bumped"}, proc : TokenProc \cup {TokenNone},
                token : Token \cup {TokenNone}, data : [Token -> Nat], before : Nat, bumped : Nat \cup {Unknown}]

TokenTypes ==
    /\ shadow \in [Token -> Nat] /\ mtime \in Nat /\ gen \in Nat /\ silent \in Nat
    /\ cache \in [TokenProc -> CacheRec]
    /\ mutation \in MutationRec
    /\ check \in [TokenProc -> CheckRec]

(* Nothing is ahead of the file or of the generation.                       *)
TokenOrder ==
    /\ silent <= mtime
    /\ \A p \in TokenProc : cache[p].gen <= gen /\ cache[p].info <= mtime
    /\ \A p \in TokenProc : check[p].before <= gen /\ check[p].read <= mtime
    /\ \A p \in TokenProc : check[p].step = "verified" => check[p].token \in Token

(* Unless somebody edits the file, what a change in progress has read is    *)
(* what the file had, and what it has written is what the file has.         *)
MutationOrder ==
    /\ mutation.step # "idle" =>
         mutation.proc \in TokenProc /\ mutation.token \in Token /\ mutation.before <= mtime
    /\ mutation.step = "read" /\ mtime = mutation.before =>
         \A u \in Token \ {mutation.token} : mutation.data[u] = shadow[u]
    /\ mutation.step \in {"written", "bumped"} =>
         mutation.before < mtime /\ (~Disturbed => shadow = mutation.data)

(* A secret that was found in the file with the given time stamp: the file  *)
(* with that stamp has it still, and so has the one that an undisturbed     *)
(* change of another token has made of it.                                  *)
Dated(t, s, stamp) ==
    /\ stamp = mtime => s = shadow[t]
    /\ mutation.step \in {"written", "bumped"} /\ ~Disturbed /\ stamp = mutation.before /\ t # mutation.token
         => s = shadow[t]
(* While the generation has not moved since: it is the file's, or the       *)
(* change is about to be announced, or is never announced.                  *)
Explained(t, s, stamp) ==
    \/ s = shadow[t]
    \/ stamp < silent
    \/ mutation.step = "written" /\ (mutation.token = t \/ Disturbed)

CacheOK(p, t) ==
    cache[p].info # Unknown /\ cache[p].secrets[t] # 0 =>
        /\ Dated(t, cache[p].secrets[t], cache[p].info)
        /\ cache[p].gen = gen => Explained(t, cache[p].secrets[t], cache[p].info)
CacheDated == \A p \in TokenProc \ blind, t \in Token : CacheOK(p, t)

CheckOK(p) ==
    check[p].step = "verified" =>
        /\ Dated(check[p].token, check[p].secret, check[p].read)
        /\ check[p].before = gen => Explained(check[p].token, check[p].secret, check[p].read)
CheckDated == \A p \in TokenProc : CheckOK(p)

TokenInd == TokenTypes /\ TokenOrder /\ MutationOrder /\ CacheDated /\ CheckDated

(* Initially the caches are empty. *)
LEMMA TokenInitInd == TokenInit => TokenInd
<1> SUFFICES ASSUME TokenInit PROVE TokenInd
  OBVIOUS
<1> USE DEF TokenInit, NoMutation, NoCheck, EmptyCache, NoSecrets, Unknown
<1>1. TokenTypes
  BY DEF TokenTypes, CacheRec, CheckRec, MutationRec
<1>2. TokenOrder /\ MutationOrder
  BY DEF TokenOrder, MutationOrder
<1>3. CacheDated /\ CheckDated
  BY DEF CacheDated, CheckDated, CacheOK, CheckOK
<1> QED
  BY <1>1, <1>2, <1>3 DEF TokenInd

(* An empty cache knows no file. *)
LEMMA EmptyCacheIs == EmptyCache \in CacheRec /\ EmptyCache.info = Unknown /\ EmptyCache.gen = 0
                      /\ NoSecrets \in [Token -> Nat] /\ (\A t \in Token : NoSecrets[t] = 0 /\ EmptyCache.secrets[t] = 0)
  BY DEF EmptyCache, NoSecrets, CacheRec

(* A reset cache is empty, with the generation it was reset at. *)
LEMMA ResetIs ==
  ASSUME NEW g \in Nat
  PROVE  /\ ResetAndSetGen(g) \in CacheRec /\ ResetAndSetGen(g).info = Unknown /\ ResetAndSetGen(g).gen = g
         /\ \A t \in Token : ResetAndSetGen(g).secrets[t] = 0
  BY DEF ResetAndSetGen, EmptyCache, NoSecrets, CacheRec

(* No change is in progress. *)
LEMMA NoMutationIs == NoMutation \in MutationRec /\ NoMutation.step = "idle"
  BY DEF NoMutation, NoSecrets, MutationRec
(* No verification goes on. *)
LEMMA NoCheckIs == NoCheck \in CheckRec /\ NoCheck.step = "idle" /\ NoCheck.before = 0 /\ NoCheck.read = 0
  BY DEF NoCheck, CheckRec

(* A secret of an older file is explained no worse. *)
LEMMA OlderStamp ==
  ASSUME NEW t, NEW s, NEW a \in Nat, NEW b \in Nat, a <= b, b <= mtime, mtime \in Nat, silent \in Nat,
         mutation \in MutationRec
  PROVE  (Dated(t, s, b) => Dated(t, s, a)) /\ (Explained(t, s, b) => Explained(t, s, a))
<1>1. mutation.before \in Nat
  BY DEF MutationRec
<1> QED
  BY <1>1 DEF Dated, Explained, Disturbed

(* The file stays; a change in progress starts, goes on before it has       *)
(* written, ends, or is announced by a newer generation: what is dated or   *)
(* explained remains so.                                                    *)
FileStays ==
    /\ UNCHANGED <<shadow, mtime>>
    /\ gen \in Nat /\ gen' \in Nat /\ gen <= gen' /\ silent <= silent'
    /\ \/ mutation'.step \notin {"written", "bumped"}
       \/ mutation'.step \in {"written", "bumped"} /\ mutation.step \in {"written", "bumped"}
          /\ mutation'.before = mutation.before /\ mutation'.token = mutation.token
    /\ \/ gen' # gen
       \/ mutation.step # "written"
       \/ mutation' = mutation
       \/ silent' = mtime

(* A secret stays dated and explained in such a step. *)
LEMMA SecretStays ==
  ASSUME TokenTypes, silent' \in Nat, FileStays, NEW t, NEW s, NEW stamp \in Int, stamp <= mtime, Dated(t, s, stamp)
  PROVE  Dated(t, s, stamp)' /\ (gen' = gen /\ Explained(t, s, stamp) => Explained(t, s, stamp)')
<1>1. silent \in Nat /\ mtime \in Nat /\ silent <= silent' /\ UNCHANGED <<shadow, mtime>>
  BY DEF TokenTypes, FileStays
<1>2. Dated(t, s, stamp)'
  BY DEF FileStays, Dated, Disturbed
<1>3. ASSUME gen' = gen, s = shadow[t] PROVE Explained(t, s, stamp)'
  BY <1>1, <1>3 DEF Explained
<1>4. ASSUME gen' = gen, stamp < silent PROVE Explained(t, s, stamp)'
  BY <1>1, <1>4 DEF Explained
<1>5. ASSUME gen' = gen, mutation.step = "written", mutation.token = t \/ Disturbed, s # shadow[t] PROVE Explained(t, s, stamp)'
  <2>1. CASE mutation' = mutation
    BY <1>1, <1>5, <2>1 DEF Explained, Disturbed
  <2>2. CASE mutation' # mutation
    <3>1. silent' = mtime /\ stamp # mtime
      BY <1>5, <2>2 DEF FileStays, Dated
    <3>2. stamp < silent'
      BY <3>1, <1>1
    <3> QED
      BY <3>2 DEF Explained
  <2> QED
    BY <2>1, <2>2
<1> QED
  BY <1>2, <1>3, <1>4, <1>5 DEF Explained

(* So do the cache and the verification of a process that a step leaves     *)
(* alone.                                                                   *)
LEMMA CacheStays ==
  ASSUME TokenInd, FileStays, silent' \in Nat, NEW q \in TokenProc \ blind, cache'[q] = cache[q], NEW t \in Token
  PROVE  CacheOK(q, t)'
<1> USE DEF TokenInd
<1>1. /\ cache[q].gen <= gen /\ cache[q].gen \in Nat /\ gen \in Nat /\ gen' \in Nat /\ gen <= gen'
      /\ cache[q].info \in Int /\ cache[q].info <= mtime /\ cache[q].secrets[t] \in Nat
  BY DEF TokenTypes, TokenOrder, CacheRec, FileStays, Unknown
<1>2. cache[q].gen = gen' => gen' = gen
  BY <1>1
<1>3. CacheOK(q, t)
  BY DEF CacheDated
<1>4. PICK s \in Nat, i \in Int, g \in Nat : s = cache[q].secrets[t] /\ i = cache[q].info /\ g = cache[q].gen
  BY <1>1
<1>5. CASE i = Unknown \/ s = 0
  BY <1>4, <1>5 DEF CacheOK, Unknown
<1>6. CASE i # Unknown /\ s # 0
  <2>1. Dated(t, s, i) /\ (g = gen => Explained(t, s, i))
    BY <1>3, <1>4, <1>6 DEF CacheOK
  <2>2. Dated(t, s, i)' /\ (g = gen' => Explained(t, s, i)')
    BY <2>1, <1>1, <1>2, <1>4, SecretStays
  <2> QED
    BY <2>2, <1>4 DEF CacheOK, Dated, Explained, Disturbed
<1> QED
  BY <1>5, <1>6

(* A verification that the step leaves alone stays dated. *)
LEMMA CheckStays ==
  ASSUME TokenInd, FileStays, silent' \in Nat, NEW q \in TokenProc, check'[q] = check[q]
  PROVE  CheckOK(q)'
<1> USE DEF TokenInd
<1>1. /\ gen \in Nat /\ gen' \in Nat /\ gen <= gen' /\ check[q] \in CheckRec
      /\ check[q].before \in Nat /\ check[q].before <= gen /\ check[q].read \in Int /\ check[q].read <= mtime
  BY DEF TokenTypes, TokenOrder, CheckRec, FileStays
<1>2. check[q].before = gen' => gen' = gen
  BY <1>1
<1>3. CheckOK(q)
  BY DEF CheckDated
<1>4. PICK r \in CheckRec : r = check[q]
  BY <1>1
<1>5. CASE r.step # "verified"
  BY <1>4, <1>5 DEF CheckOK
<1>6. CASE r.step = "verified"
  <2>1. Dated(r.token, r.secret, r.read) /\ (r.before = gen => Explained(r.token, r.secret, r.read))
    BY <1>3, <1>4, <1>6 DEF CheckOK
  <2>2. Dated(r.token, r.secret, r.read)' /\ (r.before = gen' => Explained(r.token, r.secret, r.read)')
    BY <2>1, <1>1, <1>2, <1>4, SecretStays
  <2> QED
    BY <2>2, <1>4 DEF CheckOK, Dated, Explained, Disturbed
<1> QED
  BY <1>5, <1>6

(* A step that leaves the file alone need only be looked at where it        *)
(* changes a cache or a verification.                                       *)
LEMMA TokenStep ==
  ASSUME TokenInd, FileStays, TokenTypes', TokenOrder', MutationOrder',
         \A q \in TokenProc \ blind' :
            \/ cache'[q] = cache[q] /\ q \notin blind
            \/ \A t \in Token : cache'[q].info = Unknown \/ cache'[q].secrets[t] = 0 \/ CacheOK(q, t)',
         \A q \in TokenProc : check'[q] = check[q] \/ check'[q].step # "verified" \/ CheckOK(q)'
  PROVE  TokenInd'
<1>1. silent' \in Nat
  BY DEF TokenTypes
<1>2. ASSUME NEW q \in TokenProc \ blind', NEW t \in Token PROVE CacheOK(q, t)'
  <2>1. CASE cache'[q] = cache[q] /\ q \notin blind
    BY <1>1, <2>1, CacheStays
  <2>2. CASE cache'[q].info = Unknown \/ cache'[q].secrets[t] = 0
    BY <2>2 DEF CacheOK, Unknown
  <2> QED
    BY <2>1, <2>2, <1>2
<1>3. ASSUME NEW q \in TokenProc PROVE CheckOK(q)'
  <2>1. CASE check'[q] = check[q]
    BY <1>1, <2>1, CheckStays
  <2>2. CASE check'[q].step # "verified"
    BY <2>2 DEF CheckOK
  <2> QED
    BY <2>1, <2>2
<1> QED
  BY <1>2, <1>3 DEF TokenInd, CacheDated, CheckDated

(* apply_api_mutation, before the file is written *)
LEMMA BeforeWriteInd ==
  ASSUME TokenInd, \/ \E p \in Mutator, t \in Token : LockShadow(p, t)
                   \/ \E g \in BOOLEAN : ReadShadow(g)
                   \/ MutationFails
  PROVE  TokenInd'
<1> USE MutatorAssumption DEF TokenInd
<1>1. UNCHANGED <<shadow, mtime, gen, cache, check, silent, blind>> /\ gen \in Nat /\ silent \in Nat /\ mtime \in Nat
  BY DEF LockShadow, ReadShadow, MutationFails, TokenTypes
<1>2. mutation' \in MutationRec /\ mutation.step # "written" /\ mutation'.step \in {"idle", "locked", "read"} /\ MutationOrder'
  <2>1. ASSUME NEW p \in Mutator, NEW t \in Token, LockShadow(p, t)
        PROVE  mutation' \in MutationRec /\ mutation.step # "written" /\ mutation'.step \in {"idle", "locked", "read"} /\ MutationOrder'
    <3>1. mutation' = [NoMutation EXCEPT !.step = "locked", !.proc = p, !.token = t, !.before = mtime] /\ mutation = NoMutation
      BY <2>1 DEF LockShadow
    <3>2. mutation' \in MutationRec /\ mutation'.step = "locked" /\ mutation'.proc = p /\ mutation'.token = t /\ mutation'.before = mtime
      BY <3>1, <1>1, NoMutationIs DEF MutationRec
    <3> QED
      BY <3>1, <3>2, <1>1, NoMutationIs DEF MutationOrder
  <2>2. ASSUME NEW g \in BOOLEAN, ReadShadow(g)
        PROVE  mutation' \in MutationRec /\ mutation.step # "written" /\ mutation'.step \in {"idle", "locked", "read"} /\ MutationOrder'
    <3>1. PICK d \in [Token -> Nat] : /\ mutation' = [mutation EXCEPT !.step = "read", !.data = d]
                                      /\ \A u \in Token \ {mutation.token} : d[u] = shadow[u]
      <4>0. (IF g THEN 2 * mtime + 1 ELSE 0) \in Nat
        <5>1. 2 * mtime + 1 \in Nat
          BY <1>1
        <5> QED
          BY <5>1, Zenon
      <4>1. [shadow EXCEPT ![mutation.token] = IF g THEN 2 * mtime + 1 ELSE 0] \in [Token -> Nat]
        BY <4>0, Zenon DEF TokenTypes
      <4> QED
        BY <2>2, <4>1 DEF ReadShadow, TokenTypes
    <3>2. mutation.step = "locked" /\ mutation \in MutationRec
      BY <2>2 DEF ReadShadow, TokenTypes
    <3>3. /\ mutation' \in MutationRec /\ mutation'.step = "read" /\ mutation'.data = d
          /\ mutation'.proc = mutation.proc /\ mutation'.token = mutation.token /\ mutation'.before = mutation.before
      BY <3>1, <3>2 DEF MutationRec
    <3> QED
      BY <3>1, <3>2, <3>3, <1>1 DEF MutationOrder
  <2>3. ASSUME MutationFails
        PROVE  mutation' \in MutationRec /\ mutation.step # "written" /\ mutation'.step \in {"idle", "locked", "read"} /\ MutationOrder'
    BY <2>3, NoMutationIs DEF MutationFails, MutationOrder
  <2> QED
    BY <2>1, <2>2, <2>3
<1>3. FileStays
  BY <1>1, <1>2 DEF FileStays
<1>4. TokenTypes' /\ TokenOrder'
  BY <1>1, <1>2 DEF TokenTypes, TokenOrder
<1> QED
  BY <1>1, <1>2, <1>3, <1>4, TokenStep

(* The file changes: every cache and verification is of an older file, and  *)
(* the secrets that differ from now on are those that the change may touch. *)
LEMMA NewFileInd ==
  ASSUME TokenInd, TokenTypes', MutationOrder', mtime' = mtime + 1, silent' <= mtime', silent <= silent',
         UNCHANGED <<gen, cache, check, blind>>,
         mutation.step \notin {"written", "bumped"} \/ silent' = mtime',
         mutation'.step \in {"written", "bumped"} /\ ~Disturbed' =>
            mutation.step = "read" /\ mutation'.before = mtime
            /\ \A t \in Token : t # mutation'.token => shadow'[t] = shadow[t],
         silent' = mtime' \/ (mutation'.step = "written" /\ mutation'.before <= mtime)
  PROVE  TokenInd'
<1> USE DEF TokenInd
<1>1. mtime \in Nat /\ silent \in Nat /\ silent' \in Nat /\ mutation' \in MutationRec
  BY DEF TokenTypes
<1>2. TokenOrder'
  <2>1. \A q \in TokenProc : cache[q].info \in Int /\ check[q].read \in Int
    BY DEF TokenTypes, CacheRec, CheckRec, Unknown
  <2> QED
    BY <1>1, <2>1 DEF TokenOrder
<1>3. ASSUME NEW t \in Token, NEW s, NEW i \in Int, i <= mtime, Dated(t, s, i)
      PROVE  Dated(t, s, i)' /\ (Explained(t, s, i) => Explained(t, s, i)')
  <2>1. i # mtime'
    BY <1>1, <1>3
  <2>2. Dated(t, s, i)'
    BY <2>1, <1>3 DEF Dated
  <2>3. ASSUME Explained(t, s, i) PROVE Explained(t, s, i)'
    <3>1. CASE silent' = mtime'
      <4>1. i < silent'
        BY <3>1, <1>1, <1>3
      <4> QED
        BY <4>1 DEF Explained
    <3>2. CASE silent' # mtime'
      <4>1. mutation'.step = "written" /\ mutation.step # "written"
        BY <3>2
      <4>2. CASE Disturbed' \/ t = mutation'.token
        BY <4>1, <4>2 DEF Explained
      <4>3. CASE ~Disturbed' /\ t # mutation'.token
        <5>1. shadow'[t] = shadow[t]
          BY <4>1, <4>3
        <5>2. s = shadow[t] \/ i < silent
          BY <2>3, <4>1 DEF Explained
        <5>3. s = shadow'[t] \/ i < silent'
          BY <5>1, <5>2, <1>1, <1>3
        <5> QED
          BY <5>3 DEF Explained
      <4> QED
        BY <4>2, <4>3
    <3> QED
      BY <3>1, <3>2
  <2> QED
    BY <2>2, <2>3
<1>4. ASSUME NEW q \in TokenProc \ blind, NEW t \in Token PROVE CacheOK(q, t)'
  <2>1. cache[q].info \in Int /\ cache[q].info <= mtime /\ cache[q].secrets[t] \in Nat /\ cache[q].gen \in Nat /\ CacheOK(q, t)
    BY DEF TokenTypes, TokenOrder, CacheRec, Unknown, CacheDated
  <2>2. PICK s \in Nat, i \in Int : s = cache[q].secrets[t] /\ i = cache[q].info
    BY <2>1
  <2>3. CASE i = Unknown \/ s = 0
    BY <2>2, <2>3 DEF CacheOK, Unknown
  <2>4. CASE i # Unknown /\ s # 0
    <3>1. Dated(t, s, i) /\ (cache[q].gen = gen => Explained(t, s, i))
      BY <2>1, <2>2, <2>4 DEF CacheOK
    <3>2. Dated(t, s, i)' /\ (cache[q].gen = gen => Explained(t, s, i)')
      BY <3>1, <2>1, <2>2, <1>3
    <3> QED
      BY <3>2, <2>2 DEF CacheOK, Dated, Explained, Disturbed
  <2> QED
    BY <2>3, <2>4
<1>5. ASSUME NEW q \in TokenProc PROVE CheckOK(q)'
  <2>1. check[q] \in CheckRec /\ check[q].read <= mtime /\ CheckOK(q) /\ (check[q].step = "verified" => check[q].token \in Token)
    BY DEF TokenTypes, TokenOrder, CheckDated
  <2>2. PICK r \in CheckRec : r = check[q]
    BY <2>1
  <2>3. CASE r.step # "verified"
    BY <2>2, <2>3 DEF CheckOK
  <2>4. CASE r.step = "verified"
    <3>1. Dated(r.token, r.secret, r.read) /\ (r.before = gen => Explained(r.token, r.secret, r.read))
      BY <2>1, <2>2, <2>4 DEF CheckOK
    <3>2. r.token \in Token /\ r.read \in Int /\ r.read <= mtime
      BY <2>1, <2>2, <2>4 DEF CheckRec
    <3>3. Dated(r.token, r.secret, r.read)' /\ (r.before = gen => Explained(r.token, r.secret, r.read)')
      BY <3>1, <3>2, <1>3
    <3> QED
      BY <3>3, <2>2 DEF CheckOK, Dated, Explained, Disturbed
  <2> QED
    BY <2>3, <2>4
<1> QED
  BY <1>2, <1>4, <1>5 DEF CacheDated, CheckDated

(* The file is replaced by what was read and changed. *)
LEMMA WriteShadowInd ==
  ASSUME TokenInd, WriteShadow
  PROVE  TokenInd'
<1> USE DEF TokenInd
<1>1. /\ mutation.step = "read" /\ mutation \in MutationRec /\ mtime \in Nat /\ silent \in Nat /\ silent <= mtime
      /\ mtime' = mtime + 1 /\ shadow' = mutation.data /\ mutation' = [mutation EXCEPT !.step = "written"]
      /\ UNCHANGED <<gen, cache, check, silent, blind>>
  BY DEF WriteShadow, TokenTypes, TokenOrder
<1>2. /\ mutation' \in MutationRec /\ mutation'.step = "written" /\ mutation'.token = mutation.token
      /\ mutation'.before = mutation.before /\ mutation'.data = mutation.data /\ mutation'.proc = mutation.proc
      /\ mutation.data \in [Token -> Nat] /\ mutation.before \in Nat
  BY <1>1 DEF MutationRec
<1>3. TokenTypes'
  BY <1>1, <1>2 DEF TokenTypes
<1>4. mutation.before <= mtime /\ mutation.proc \in TokenProc /\ mutation.token \in Token
  BY <1>1 DEF MutationOrder
<1>5. mutation.before < mtime'
  BY <1>1, <1>2, <1>4
<1>6. MutationOrder'
  BY <1>1, <1>2, <1>4, <1>5 DEF MutationOrder, Disturbed
<1>7. ASSUME ~Disturbed' PROVE mutation.before = mtime /\ \A t \in Token : t # mutation.token => shadow'[t] = shadow[t]
  <2>1. mutation.before = mtime
    BY <1>1, <1>2, <1>7 DEF Disturbed
  <2> QED
    BY <2>1, <1>1 DEF MutationOrder
<1>8. silent' <= mtime' /\ silent <= silent'
  BY <1>1
<1> QED
  BY <1>1, <1>2, <1>3, <1>4, <1>6, <1>7, <1>8, NewFileInd

(* The file is edited by hand. *)
LEMMA EditShadowInd ==
  ASSUME TokenInd, NEW t \in Token, NEW edit \in EditByHand, EditShadow(t, edit)
  PROVE  TokenInd'
<1> USE DEF TokenInd
<1>1. /\ mtime' = mtime + 1 /\ mtime \in Nat /\ silent' = mtime + 1 /\ silent \in Nat /\ silent <= mtime
      /\ UNCHANGED <<gen, cache, mutation, check, blind>> /\ mutation \in MutationRec /\ mutation.before \in Nat
  BY DEF EditShadow, TokenTypes, TokenOrder, MutationRec
<1>2. shadow' \in [Token -> Nat]
  BY <1>1 DEF EditShadow, TokenTypes
<1>3. TokenTypes'
  BY <1>1, <1>2 DEF TokenTypes
<1>4. mutation.step \in {"written", "bumped"} => mutation.before < mtime /\ mtime' # mutation.before + 1
  BY <1>1 DEF MutationOrder
<1>5. mutation.step # "idle" => mutation.before <= mtime /\ mutation.before <= mtime' /\ mtime' # mutation.before
  BY <1>1 DEF MutationOrder
<1>6. mutation.step \in {"written", "bumped"} => mutation.before < mtime' /\ Disturbed'
  BY <1>1, <1>4 DEF Disturbed
<1>7. MutationOrder'
  BY <1>1, <1>5, <1>6 DEF MutationOrder
<1> QED
  BY <1>1, <1>3, <1>6, <1>7, NewFileInd

(* The others are told of the change, or are not. *)
LEMMA BumpInd ==
  ASSUME TokenInd, BumpGeneration \/ BumpFails
  PROVE  TokenInd'
<1> USE DEF TokenInd
<1>1. /\ mutation.step = "written" /\ gen \in Nat /\ mutation \in MutationRec /\ mtime \in Nat /\ silent \in Nat /\ silent <= mtime
      /\ UNCHANGED <<shadow, mtime, cache, check, blind>>
  BY DEF BumpGeneration, BumpFails, TokenTypes, TokenOrder
<1>2. \/ gen' = gen + 1 /\ silent' = silent
      \/ gen' = gen /\ silent' = mtime
  BY DEF BumpGeneration, BumpFails
<1>3. gen' \in Nat /\ silent' \in Nat /\ silent <= silent' /\ silent' <= mtime /\ gen <= gen' /\ (gen' = gen => silent' = mtime)
  BY <1>1, <1>2
<1>4. PICK b \in Nat \cup {Unknown} : mutation' = [mutation EXCEPT !.step = "bumped", !.bumped = b]
  <2>1. gen + 1 \in Nat
    BY <1>1
  <2> QED
    BY <2>1, Zenon DEF BumpGeneration, BumpFails
<1>5. /\ mutation' \in MutationRec /\ mutation'.step = "bumped" /\ mutation'.token = mutation.token
      /\ mutation'.before = mutation.before /\ mutation'.data = mutation.data /\ mutation'.proc = mutation.proc
  BY <1>1, <1>4 DEF MutationRec
<1>6. FileStays
  BY <1>1, <1>3, <1>5 DEF FileStays
<1>7. TokenTypes'
  BY <1>1, <1>3, <1>5 DEF TokenTypes
<1>8. TokenOrder'
  <2>1. \A q \in TokenProc : cache[q].gen \in Nat /\ check[q].before \in Nat
    BY DEF TokenTypes, CacheRec, CheckRec
  <2> QED
    BY <1>1, <1>3, <2>1 DEF TokenOrder
<1>9. MutationOrder'
  BY <1>1, <1>5 DEF MutationOrder, Disturbed
<1> QED
  BY <1>1, <1>6, <1>7, <1>8, <1>9, TokenStep

(* The process that has written the file brings its own cache up to date,   *)
(* or resets it.                                                            *)
LEMMA UpdateCacheInd ==
  ASSUME TokenInd, UpdateCache
  PROVE  TokenInd'
<1>0. PICK p \in TokenProc : p = mutation.proc
  BY DEF UpdateCache, TokenInd, MutationOrder
<1> DEFINE c == cache[p]
           missed == c.info # Unknown /\ c.info # mutation.before
           kept == IF missed THEN [c EXCEPT !.secrets = NoSecrets] ELSE c
           put == PutAndSetGen(kept, mutation.token, mutation.data[mutation.token], gen)
           moved == gen # mutation.bumped
           new == IF moved THEN ResetAndSetGen(gen) ELSE [put EXCEPT !.info = mtime]
           undated == c.info = Unknown /\ (\E u \in Token \ {mutation.token} : c.secrets[u] # 0)
<1> USE DEF TokenInd
<1>1. /\ mutation.step = "bumped" /\ mutation.token \in Token /\ mutation \in MutationRec
      /\ mutation.data[mutation.token] \in Nat /\ gen \in Nat /\ mtime \in Nat
      /\ ~Disturbed => mutation.data = shadow
  BY DEF UpdateCache, MutationOrder, TokenTypes, MutationRec
<1>2. UNCHANGED <<shadow, mtime, gen, check, silent>> /\ mutation' = NoMutation /\ cache' = [cache EXCEPT ![p] = new]
  BY <1>0 DEF UpdateCache
<1>3. c \in CacheRec
  BY DEF TokenTypes
<1>4. kept \in CacheRec /\ \A t \in Token : kept.secrets[t] = IF missed THEN 0 ELSE c.secrets[t]
  <2>1. CASE missed
    BY <1>3, <2>1, EmptyCacheIs DEF CacheRec
  <2>2. CASE ~missed
    BY <1>3, <2>2
  <2> QED
    BY <2>1, <2>2
<1>5. blind' = IF ~moved /\ (Disturbed \/ undated) THEN blind \cup {p}
               ELSE IF moved \/ missed THEN blind \ {p} ELSE blind
  BY <1>0 DEF UpdateCache
<1> HIDE DEF kept
<1>6. /\ put \in CacheRec /\ put.gen = gen /\ put.secrets[mutation.token] = mutation.data[mutation.token]
      /\ \A t \in Token \ {mutation.token} : put.secrets[t] = kept.secrets[t]
  BY <1>1, <1>4 DEF PutAndSetGen, CacheRec
<1>7. /\ new \in CacheRec /\ new.gen = gen
      /\ new.info = (IF moved THEN Unknown ELSE mtime)
      /\ ~moved => new.secrets = put.secrets
  <2>1. CASE moved
    BY <1>1, <2>1, ResetIs
  <2>2. CASE ~moved
    <3>1. new = [put EXCEPT !.info = mtime]
      BY <2>2
    <3> HIDE DEF new, put
    <3> QED
      BY <1>1, <1>6, <2>2, <3>1 DEF CacheRec
  <2> QED
    BY <2>1, <2>2
<1> HIDE DEF new, put
<1>8. cache'[p] = new /\ \A q \in TokenProc \ {p} : cache'[q] = cache[q]
  BY <1>2 DEF TokenTypes
<1>9. TokenTypes'
  BY <1>2, <1>7, NoMutationIs DEF TokenTypes
<1>10. TokenOrder'
  <2>1. new.info <= mtime /\ new.gen <= gen
    BY <1>1, <1>7 DEF Unknown
  <2> QED
    BY <1>2, <1>8, <2>1 DEF TokenOrder
<1>11. MutationOrder' /\ FileStays
  BY <1>1, <1>2, NoMutationIs DEF MutationOrder, FileStays, TokenTypes
<1>12. ASSUME NEW t \in Token, p \notin blind', ~moved PROVE new.secrets[t] = shadow[t] \/ new.secrets[t] = 0
  <2>1. ~Disturbed /\ ~undated /\ (missed \/ p \notin blind)
    BY <1>5, <1>12
  <2>2. CASE t = mutation.token
    BY <2>1, <2>2, <1>1, <1>6, <1>7, <1>12
  <2>3. CASE t # mutation.token
    <3>1. new.secrets[t] = IF missed THEN 0 ELSE c.secrets[t]
      BY <2>3, <1>4, <1>6, <1>7, <1>12
    <3>2. CASE missed
      BY <3>1, <3>2
    <3>3. CASE ~missed /\ c.info = Unknown
      BY <3>1, <3>3, <2>1, <2>3
    <3>4. CASE ~missed /\ c.info # Unknown
      <4>1. c.info = mutation.before /\ CacheOK(p, t)
        BY <3>4, <2>1 DEF CacheDated
      <4>2. c.secrets[t] = 0 \/ c.secrets[t] = shadow[t]
        BY <4>1, <3>4, <2>1, <2>3, <1>1 DEF CacheOK, Dated
      <4> QED
        BY <3>1, <3>4, <4>2
    <3> QED
      BY <3>2, <3>3, <3>4
  <2> QED
    BY <2>2, <2>3
<1>13. ASSUME NEW t \in Token, p \notin blind'
       PROVE  cache'[p].info = Unknown \/ cache'[p].secrets[t] = 0 \/ CacheOK(p, t)'
  <2>1. CASE moved
    BY <2>1, <1>7, <1>8
  <2>2. CASE ~moved
    <3>1. cache'[p].secrets[t] = shadow'[t] \/ cache'[p].secrets[t] = 0
      BY <2>2, <1>2, <1>8, <1>12, <1>13
    <3> QED
      BY <3>1 DEF CacheOK, Dated, Explained
  <2> QED
    BY <2>1, <2>2
<1>14. \A q \in TokenProc \ {p} : q \notin blind' => q \notin blind
  BY <1>5
<1> QED
  BY <1>2, <1>8, <1>9, <1>10, <1>11, <1>13, <1>14, TokenStep

(* A process that cannot trust its cache, cannot look at the file, or finds *)
(* another file than it knew, has an empty cache.                           *)
LEMMA EmptiedInd ==
  ASSUME TokenInd, FileStays, silent' = silent, NEW p \in TokenProc, NEW new \in CacheRec,
         cache' = [cache EXCEPT ![p] = new], \A t \in Token : new.secrets[t] = 0, new.gen <= gen', new.info <= mtime,
         blind' = blind \ {p}, mutation' = mutation \/ mutation' = NoMutation, check' = check
  PROVE  TokenInd'
<1> USE DEF TokenInd
<1>1. cache'[p] = new /\ \A q \in TokenProc \ {p} : cache'[q] = cache[q]
  BY DEF TokenTypes
<1>2. gen' \in Nat /\ gen <= gen' /\ gen \in Nat /\ UNCHANGED <<shadow, mtime>>
  BY DEF FileStays
<1>3. TokenTypes'
  BY <1>1, <1>2, NoMutationIs DEF TokenTypes
<1>4. TokenOrder'
  <2>1. \A q \in TokenProc : cache[q].gen \in Nat /\ check[q].before \in Nat
    BY DEF TokenTypes, CacheRec, CheckRec
  <2> QED
    BY <1>1, <1>2, <2>1 DEF TokenOrder
<1>5. MutationOrder'
  BY <1>2, NoMutationIs DEF MutationOrder, Disturbed
<1> QED
  BY <1>1, <1>3, <1>4, <1>5, TokenStep

(* apply_api_mutation cannot read the generation or look at the file. *)
LEMMA CacheNotTrustedInd ==
  ASSUME TokenInd, NEW g \in {0, gen}, CacheNotTrusted(g)
  PROVE  TokenInd'
<1>1. /\ mutation.step = "bumped" /\ mutation.proc \in TokenProc /\ gen \in Nat /\ g \in Nat /\ g <= gen /\ mtime \in Nat
      /\ silent \in Nat
  BY DEF CacheNotTrusted, TokenInd, TokenTypes, MutationOrder
<1>2. /\ UNCHANGED <<shadow, mtime, gen, check, silent>> /\ mutation' = NoMutation
      /\ cache' = [cache EXCEPT ![mutation.proc] = ResetAndSetGen(g)] /\ blind' = blind \ {mutation.proc}
  BY DEF CacheNotTrusted
<1>3. FileStays
  BY <1>1, <1>2, NoMutationIs DEF FileStays
<1>4. PICK p \in TokenProc, new \in CacheRec : p = mutation.proc /\ new = ResetAndSetGen(g)
  BY <1>1, ResetIs
<1>5. (\A t \in Token : new.secrets[t] = 0) /\ new.gen <= gen' /\ new.info <= mtime
  BY <1>1, <1>2, <1>4, ResetIs DEF Unknown
<1> QED
  BY <1>2, <1>3, <1>4, <1>5, EmptiedInd

(* verify_secret cannot look at the file. *)
LEMMA RefreshFailsInd ==
  ASSUME TokenInd, NEW p \in TokenProc, RefreshFails(p)
  PROVE  TokenInd'
<1>1. gen \in Nat /\ mtime \in Nat /\ silent \in Nat
  BY DEF TokenInd, TokenTypes
<1>2. /\ UNCHANGED <<shadow, mtime, gen, mutation, check, silent>>
      /\ cache' = [cache EXCEPT ![p] = ResetAndSetGen(gen)] /\ blind' = blind \ {p}
  BY DEF RefreshFails
<1>3. FileStays
  BY <1>1, <1>2 DEF FileStays
<1>4. PICK new \in CacheRec : new = ResetAndSetGen(gen)
  BY <1>1, ResetIs
<1>5. (\A t \in Token : new.secrets[t] = 0) /\ new.gen <= gen' /\ new.info <= mtime
  BY <1>1, <1>2, <1>4, ResetIs DEF Unknown
<1> QED
  BY <1>2, <1>3, <1>4, <1>5, EmptiedInd

(* verify_secret looks at the file: what it knew of another one is dropped. *)
LEMMA RefreshInd ==
  ASSUME TokenInd, NEW p \in TokenProc, NEW told \in BOOLEAN, Refresh(p, told)
  PROVE  TokenInd'
<1> DEFINE c == IF cache[p].gen # gen THEN ResetAndSetGen(gen) ELSE cache[p]
           changed == c.info # mtime
           new == [secrets |-> IF changed THEN NoSecrets ELSE c.secrets, gen |-> gen', info |-> mtime]
<1> USE DEF TokenInd
<1>1. UNCHANGED <<shadow, mtime, mutation, check, silent>> /\ blind' = blind \ {p}
  BY DEF Refresh
<1>2. gen' \in Nat /\ gen <= gen' /\ gen \in Nat /\ mtime \in Nat /\ silent \in Nat
  BY DEF Refresh, TokenTypes
<1>3. cache' = [cache EXCEPT ![p] = new] /\ cache' # cache
  BY DEF Refresh
<1>4. c \in CacheRec /\ (cache[p].gen # gen => c.info = Unknown)
  BY <1>2, ResetIs DEF TokenTypes
<1>5. new \in CacheRec /\ new.gen = gen' /\ new.info = mtime
  BY <1>2, <1>4, EmptyCacheIs DEF CacheRec
<1>6. \A u \in Token : new.secrets[u] = 0
  <2>1. CASE changed
    BY <2>1, EmptyCacheIs
  <2>2. CASE ~changed
    <3>1. cache[p].gen = gen /\ c = cache[p]
      BY <2>2, <1>2, <1>4 DEF Unknown
    <3>2. gen' = gen
      BY <2>2 DEF Refresh
    <3>3. new = cache[p]
      BY <2>2, <3>1, <3>2, <1>4 DEF CacheRec
    <3> QED
      BY <1>3, <3>3 DEF TokenTypes
  <2> QED
    BY <2>1, <2>2
<1>7. FileStays
  BY <1>1, <1>2 DEF FileStays
<1> HIDE DEF new
<1>8. PICK n \in CacheRec : n = new
  BY <1>5
<1>9. (\A u \in Token : n.secrets[u] = 0) /\ n.gen <= gen' /\ n.info <= mtime
  BY <1>2, <1>5, <1>6, <1>8
<1> QED
  BY <1>1, <1>3, <1>7, <1>8, <1>9, EmptiedInd

(* A step of the slow path of verify_secret that leaves the cache alone *)
LEMMA CheckStepInd ==
  ASSUME TokenInd, NEW p \in TokenProc, NEW r \in CheckRec, check' = [check EXCEPT ![p] = r],
         UNCHANGED <<shadow, mtime, gen, cache, mutation, silent, blind>>,
         r.before <= gen, r.read <= mtime,
         r.step = "verified" => r.token \in Token /\ r.secret = shadow[r.token]
  PROVE  TokenInd'
<1> USE DEF TokenInd
<1>1. check'[p] = r /\ \A q \in TokenProc \ {p} : check'[q] = check[q]
  BY DEF TokenTypes
<1>2. TokenTypes'
  BY DEF TokenTypes
<1>3. TokenOrder' /\ MutationOrder'
  BY <1>1 DEF TokenOrder, MutationOrder, Disturbed
<1>4. FileStays
  BY DEF FileStays, TokenTypes
<1>5. check'[p].step # "verified" \/ CheckOK(p)'
  BY <1>1 DEF CheckOK, Dated, Explained
<1> QED
  BY <1>1, <1>2, <1>3, <1>4, <1>5, TokenStep

(* The generation is read, then the file; or nothing is cached. *)
LEMMA VerifyInd ==
  ASSUME TokenInd, NEW p \in TokenProc,
         \/ CaptureGeneration(p) \/ VerifyFails(p) \/ InsertSkipped(p)
         \/ \E t \in Token : VerifyAgainstFile(p, t)
  PROVE  TokenInd'
<1> USE DEF TokenInd
<1>1. /\ UNCHANGED <<shadow, mtime, gen, cache, mutation, silent, blind>> /\ gen \in Nat /\ mtime \in Nat
      /\ check[p] \in CheckRec /\ check[p].before <= gen /\ check[p].read <= mtime /\ shadow \in [Token -> Nat]
  BY DEF CaptureGeneration, VerifyFails, InsertSkipped, VerifyAgainstFile, TokenTypes, TokenOrder
<1>2. CASE CaptureGeneration(p)
  <2>1. PICK r \in CheckRec : r = [check[p] EXCEPT !.step = "captured", !.before = gen]
    BY <1>1 DEF CheckRec
  <2>2. r.step = "captured" /\ r.before = gen /\ r.read = check[p].read
    BY <2>1, <1>1 DEF CheckRec
  <2>3. check' = [check EXCEPT ![p] = r]
    BY <1>2, <2>1 DEF CaptureGeneration, TokenTypes
  <2>4. r.before <= gen
    BY <2>2, <1>1
  <2> QED
    BY <1>1, <2>2, <2>3, <2>4, CheckStepInd
<1>3. CASE VerifyFails(p) \/ InsertSkipped(p)
  <2>1. check' = [check EXCEPT ![p] = NoCheck]
    BY <1>3 DEF VerifyFails, InsertSkipped
  <2>2. NoCheck.before <= gen /\ NoCheck.read <= mtime
    BY <1>1, NoCheckIs
  <2> QED
    BY <1>1, <2>1, <2>2, NoCheckIs, CheckStepInd
<1>4. ASSUME NEW t \in Token, VerifyAgainstFile(p, t) PROVE TokenInd'
  <2>1. PICK r \in CheckRec : r = [check[p] EXCEPT !.step = "verified", !.token = t, !.secret = shadow[t], !.read = mtime]
    BY <1>1 DEF CheckRec
  <2>2. r.before = check[p].before /\ r.read = mtime /\ r.token = t /\ r.secret = shadow[t]
    BY <2>1, <1>1 DEF CheckRec
  <2>3. check' = [check EXCEPT ![p] = r]
    BY <1>4, <2>1 DEF VerifyAgainstFile, TokenTypes
  <2>4. r.read <= mtime /\ r.before <= gen
    BY <2>2, <1>1
  <2> QED
    BY <1>1, <2>2, <2>3, <2>4, CheckStepInd
<1> QED
  BY <1>2, <1>3, <1>4

(* A verified secret is cached when the generation is still the same. *)
LEMMA TryInsertSecretInd ==
  ASSUME TokenInd, NEW p \in TokenProc, TryInsertSecret(p)
  PROVE  TokenInd'
<1> DEFINE c == IF cache[p].gen # gen THEN ResetAndSetGen(gen) ELSE cache[p]
           put == PutAndSetGen(c, check[p].token, check[p].secret, gen)
           new == IF check[p].before = gen THEN put ELSE c
<1> USE DEF TokenInd
<1>1. /\ UNCHANGED <<shadow, mtime, gen, mutation, silent>> /\ cache' = [cache EXCEPT ![p] = new]
      /\ check' = [check EXCEPT ![p] = NoCheck] /\ check[p].step = "verified" /\ check[p].token \in Token
      /\ check[p].secret \in Nat /\ check[p].read \in Nat /\ check[p].read <= mtime /\ gen \in Nat /\ mtime \in Nat
      /\ silent \in Nat /\ mutation \in MutationRec /\ blind' = StillBlind(p)
  BY DEF TryInsertSecret, TokenOrder, TokenTypes, CheckRec
<1>2. c \in CacheRec /\ c.gen = gen /\ (c.info # Unknown => c = cache[p] /\ cache[p].gen = gen)
  BY <1>1, ResetIs DEF TokenTypes
<1>3. c.info <= mtime
  BY <1>1, <1>2 DEF TokenOrder, TokenTypes, Unknown
<1> HIDE DEF c
<1>4. /\ new \in CacheRec /\ new.gen = gen /\ new.info = c.info
      /\ \A u \in Token : \/ new.secrets[u] = c.secrets[u]
                          \/ u = check[p].token /\ new.secrets[u] = check[p].secret /\ check[p].before = gen
  <2>1. /\ put \in CacheRec /\ put.gen = gen /\ put.info = c.info /\ put.secrets[check[p].token] = check[p].secret
        /\ \A u \in Token \ {check[p].token} : put.secrets[u] = c.secrets[u]
    BY <1>1, <1>2 DEF PutAndSetGen, CacheRec
  <2> HIDE DEF put
  <2> QED
    BY <1>1, <1>2, <2>1
<1> HIDE DEF new
<1>5. /\ cache'[p] = new /\ check'[p] = NoCheck
      /\ \A q \in TokenProc \ {p} : cache'[q] = cache[q] /\ check'[q] = check[q]
  BY <1>1 DEF TokenTypes
<1>6. TokenTypes'
  BY <1>1, <1>4, NoCheckIs DEF TokenTypes
<1>7. TokenOrder' /\ MutationOrder' /\ FileStays
  <2>1. new.gen <= gen
    BY <1>1, <1>4
  <2> QED
    BY <1>1, <1>3, <1>4, <1>5, <2>1, NoCheckIs DEF TokenOrder, MutationOrder, Disturbed, FileStays
<1>8. ASSUME NEW u \in Token, p \notin blind'
      PROVE  new.info = Unknown \/ new.secrets[u] = 0 \/ (Dated(u, new.secrets[u], new.info) /\ Explained(u, new.secrets[u], new.info))
  <2> SUFFICES ASSUME new.info # Unknown, new.secrets[u] # 0
               PROVE  Dated(u, new.secrets[u], new.info) /\ Explained(u, new.secrets[u], new.info)
    OBVIOUS
  <2>1. c = cache[p] /\ cache[p].gen = gen /\ new.info = cache[p].info /\ new.info \in Nat
    BY <1>2, <1>4 DEF CacheRec
  <2>2. p \notin blind /\ ~Outdated(p)
    BY <2>1, <1>1, <1>8 DEF StillBlind
  <2>3. CASE new.secrets[u] = c.secrets[u]
    BY <2>1, <2>2, <2>3 DEF CacheDated, CacheOK
  <2>4. CASE u = check[p].token /\ new.secrets[u] = check[p].secret /\ check[p].before = gen
    <3>1. new.info <= check[p].read
      BY <2>1, <2>2, <2>4, <1>1 DEF Outdated
    <3>2. Dated(u, new.secrets[u], check[p].read) /\ Explained(u, new.secrets[u], check[p].read)
      BY <2>4, <1>1 DEF CheckDated, CheckOK
    <3> QED
      BY <3>1, <3>2, <2>1, <1>1, OlderStamp
  <2> QED
    BY <1>4, <2>3, <2>4
<1>9. ASSUME NEW u \in Token, p \notin blind'
      PROVE  cache'[p].info = Unknown \/ cache'[p].secrets[u] = 0 \/ CacheOK(p, u)'
  BY <1>1, <1>5, <1>8, <1>9 DEF CacheOK, Dated, Explained, Disturbed
<1>10. \A q \in TokenProc \ {p} : q \notin blind' => q \notin blind
  BY <1>1 DEF StillBlind
<1> QED
  BY <1>5, <1>6, <1>7, <1>9, <1>10, NoCheckIs, TokenStep

(* A process that starts has an empty cache. *)
LEMMA TokenRestartInd ==
  ASSUME TokenInd, NEW p \in TokenProc, TokenRestart(p)
  PROVE  TokenInd'
<1> USE DEF TokenInd
<1>1. /\ UNCHANGED <<shadow, mtime, gen>> /\ blind' = blind \ {p} /\ gen \in Nat /\ mtime \in Nat /\ silent \in Nat /\ silent <= mtime
      /\ cache' = [cache EXCEPT ![p] = EmptyCache] /\ check' = [check EXCEPT ![p] = NoCheck]
      /\ mutation' = mutation \/ mutation' = NoMutation
      /\ silent' = silent \/ silent' = mtime
      /\ mutation.step = "written" => mutation' = mutation \/ silent' = mtime
  BY DEF TokenRestart, TokenTypes, TokenOrder
<1>2. /\ cache'[p] = EmptyCache /\ check'[p] = NoCheck
      /\ \A q \in TokenProc \ {p} : cache'[q] = cache[q] /\ check'[q] = check[q]
  BY <1>1 DEF TokenTypes
<1>3. silent' \in Nat /\ silent <= silent' /\ silent' <= mtime
  BY <1>1
<1>4. TokenTypes'
  BY <1>1, <1>3, EmptyCacheIs, NoCheckIs, NoMutationIs DEF TokenTypes
<1>5. TokenOrder'
  BY <1>1, <1>2, <1>3, EmptyCacheIs, NoCheckIs DEF TokenOrder, Unknown
<1>6. MutationOrder'
  BY <1>1, NoMutationIs DEF MutationOrder, Disturbed
<1>7. FileStays
  BY <1>1, <1>3, NoMutationIs DEF FileStays
<1> QED
  BY <1>1, <1>2, <1>4, <1>5, <1>6, <1>7, EmptyCacheIs, NoCheckIs, TokenStep

(* Every step keeps the invariant. *)
LEMMA TokenStepInd == TokenInd /\ [TokenNext]_tokenVars => TokenInd'
<1> SUFFICES ASSUME TokenInd, [TokenNext]_tokenVars PROVE TokenInd'
  OBVIOUS
<1>1. CASE UNCHANGED tokenVars
  BY <1>1 DEF tokenVars, TokenInd, TokenTypes, TokenOrder, MutationOrder, CacheDated, CheckDated, CacheOK, CheckOK, Dated, Explained, Disturbed
<1>2. CASE TokenNext
  BY <1>2, BeforeWriteInd, WriteShadowInd, BumpInd, UpdateCacheInd, CacheNotTrustedInd, RefreshInd, RefreshFailsInd,
     VerifyInd, TryInsertSecretInd, TokenRestartInd, EditShadowInd DEF TokenNext
<1> QED
  BY <1>1, <1>2

(* A secret of which the cache says that the file has it is in the file. *)
LEMMA TokenIndCurrent == TokenInd => AcceptedIsCurrent
  BY DEF TokenInd, AcceptedIsCurrent, CacheDated, CacheOK, Explained, Fresh

(* A secret that a process takes from memory is the one in token.shadow,    *)
(* but for changes about to be announced or never announced, and for the    *)
(* processes that have recorded a file newer than their secrets: for any    *)
(* number of processes, tokens, changes and edits, and wherever a process   *)
(* dies.                                                                    *)
THEOREM SecretsAcceptedAreCurrent == TokenSpec => []AcceptedIsCurrent
<1>1. TokenSpec => []TokenInd
  BY TokenInitInd, TokenStepInd, PTL DEF TokenSpec
<1> QED
  BY <1>1, TokenIndCurrent, PTL

-----------------------------------------------------------------------------
(* Job state *)

(* A caller refers to an inode while it waits for its lock and holds it; a  *)
(* task has taken the lock over from the caller that has started it.        *)
LocksHeld ==
    /\ \A p \in JobProc : call[p].step \in {"wait", "locked", "unlink"} => call[p].inode \in Inode
    /\ \A p \in JobProc : call[p].step \in {"locked", "unlink"} =>
         flock[call[p].inode] = p /\ task[call[p].inode] = Never
    /\ \A i \in Inode : task[i] # Never => flock[i] # JobNone

(* Until a lock is taken on a removed file, locks are those of the file at  *)
(* the path.                                                                *)
LockAtPath == ~detached => \A i \in Inode : flock[i] # JobNone => i = lockFile

JobInd == JobTypeOK /\ LocksHeld /\ LockAtPath /\ JobRecorded

(* The names stand for different things. *)
LEMMA JobNames == JobNone \notin JobProc /\ JobNone \notin Inode /\ Never \notin JobTimes /\ Scheduler \in JobProc /\ Caller \subseteq JobProc
  BY JobNameAssumption, PeriodAssumption DEF JobProc, Inode, Never, JobTimes

(* Initially no lock is held. *)
LEMMA JobInitInd == JobInit => JobInd
<1> SUFFICES ASSUME JobInit PROVE JobInd
  OBVIOUS
<1> USE DEF JobInit, NoState, NoCall
<1>1. JobTypeOK
  <2>1. 0 \in JobTimes
    BY PeriodAssumption DEF JobTimes
  <2> QED
    BY <2>1 DEF JobTypeOK, State, Call
<1>2. LocksHeld /\ LockAtPath /\ JobRecorded
  BY DEF LocksHeld, LockAtPath, JobRecorded
<1> QED
  BY <1>1, <1>2 DEF JobInd

(* The states of a call *)
LEMMA CallRecords ==
  /\ NoCall \in Call /\ NoCall.step = "idle" /\ NoCall.inode = JobNone
  /\ \A op \in {"run", "create", "update", "delete"} :
       /\ [NoCall EXCEPT !.op = op, !.step = "open"] \in Call
       /\ [NoCall EXCEPT !.op = op, !.step = "open"].step = "open"
  BY DEF NoCall, Call

(* A call begins, or ends without a lock *)
LEMMA CallStepInd ==
  ASSUME JobInd, NEW p \in JobProc, NEW r \in Call, r.step \in {"idle", "open"},
         call' = [call EXCEPT ![p] = r], configured' \in BOOLEAN,
         configLock' \in Caller \cup {JobNone}, UNCHANGED <<jobTime, stateFile, lockFile, task, detached>>,
         \/ flock' = flock
         \/ call[p].step \in {"locked", "unlink"} /\ flock' = [flock EXCEPT ![call[p].inode] = JobNone]
  PROVE  JobTypeOK' /\ LocksHeld' /\ LockAtPath'
<1> USE DEF JobInd
<1>1. call'[p] = r /\ \A q \in JobProc \ {p} : call'[q] = call[q]
  BY DEF JobTypeOK
<1>2. flock' \in [Inode -> JobProc \cup {JobNone}] /\ \A i \in Inode : flock'[i] \in {flock[i], JobNone}
  BY DEF JobTypeOK
<1>3. ASSUME NEW i \in Inode, flock'[i] # flock[i] PROVE i = call[p].inode /\ flock[i] = p /\ task[i] = Never
  BY <1>3 DEF JobTypeOK, LocksHeld
<1>4. JobTypeOK'
  BY <1>2 DEF JobTypeOK
<1>5. LocksHeld'
  <2>1. ASSUME NEW q \in JobProc, call'[q].step \in {"wait", "locked", "unlink"}
        PROVE  call'[q].inode \in Inode /\ (call'[q].step \in {"locked", "unlink"} =>
                  flock'[call'[q].inode] = q /\ task'[call'[q].inode] = Never)
    <3>1. q # p /\ call'[q] = call[q]
      BY <1>1, <2>1
    <3>2. call[q].step \in {"locked", "unlink"} => flock[call[q].inode] = q
      BY DEF LocksHeld
    <3>3. call[q].inode \in Inode
      BY <2>1, <3>1 DEF LocksHeld
    <3> QED
      BY <1>3, <3>1, <3>2, <3>3, <2>1 DEF LocksHeld
  <2>2. ASSUME NEW i \in Inode, task'[i] # Never PROVE flock'[i] # JobNone
    BY <1>3, <2>2 DEF LocksHeld
  <2> QED
    BY <2>1, <2>2 DEF LocksHeld
<1>6. LockAtPath'
  BY <1>2 DEF LockAtPath
<1> QED
  BY <1>4, <1>5, <1>6

(* The holder of a lock of the file at the path: no task runs. *)
LEMMA HolderAlone ==
  ASSUME JobInd, NEW p \in JobProc, call[p].step \in {"locked", "unlink"}, ~detached, NEW i \in Inode
  PROVE  task[i] = Never
<1>1. call[p].inode \in Inode /\ flock[call[p].inode] = p /\ task[call[p].inode] = Never
  BY DEF JobInd, LocksHeld
<1>2. call[p].inode = lockFile
  BY <1>1, JobNames DEF JobInd, LockAtPath
<1> QED
  BY <1>1, <1>2 DEF JobInd, LocksHeld, LockAtPath

(* Job::new opens the lock file. *)
LEMMA JobOpenInd ==
  ASSUME JobInd, NEW p \in JobProc, JobOpen(p)
  PROVE  JobInd'
<1> USE DEF JobInd
<1>1. PICK i \in Inode :
        /\ IF lockFile = JobNone THEN Unused(i) ELSE i = lockFile
        /\ lockFile' = i
        /\ call' = [call EXCEPT ![p] = [@ EXCEPT !.step = "wait", !.inode = i]]
  BY DEF JobOpen
<1>2. call[p].step = "open" /\ UNCHANGED <<jobTime, configured, configLock, stateFile, flock, task, detached>>
  BY DEF JobOpen
<1>3. call' \in [JobProc -> Call] /\ call'[p].step = "wait" /\ call'[p].inode = i /\ \A q \in JobProc \ {p} : call'[q] = call[q]
  BY <1>1 DEF JobTypeOK, Call
<1>4. JobTypeOK'
  BY <1>1, <1>2, <1>3 DEF JobTypeOK
<1>5. LocksHeld'
  BY <1>2, <1>3 DEF LocksHeld
<1>6. LockAtPath'
  BY <1>1, <1>2, JobNames DEF LockAtPath
<1>7. JobRecorded'
  BY <1>2 DEF JobRecorded
<1> QED
  BY <1>4, <1>5, <1>6, <1>7

(* The lock is granted on the inode that was opened. *)
LEMMA JobLockInd ==
  ASSUME JobInd, NEW p \in JobProc, JobLock(p)
  PROVE  JobInd'
<1> USE DEF JobInd
<1> DEFINE i == call[p].inode
<1>1. /\ call[p].step = "wait" /\ flock[i] = JobNone /\ flock' = [flock EXCEPT ![i] = p]
      /\ call' = [call EXCEPT ![p].step = "locked"] /\ detached' = (detached \/ i # lockFile)
      /\ UNCHANGED <<jobTime, configured, configLock, stateFile, lockFile, task>>
  BY DEF JobLock
<1>2. i \in Inode
  BY <1>1 DEF LocksHeld
<1>3. call' \in [JobProc -> Call] /\ call'[p].step = "locked" /\ call'[p].inode = i /\ \A q \in JobProc \ {p} : call'[q] = call[q]
  BY <1>1 DEF JobTypeOK, Call
<1>4. flock' \in [Inode -> JobProc \cup {JobNone}] /\ flock'[i] = p /\ \A j \in Inode \ {i} : flock'[j] = flock[j]
  BY <1>1, <1>2 DEF JobTypeOK
<1>5. JobTypeOK'
  BY <1>1, <1>3, <1>4 DEF JobTypeOK
<1>6. LocksHeld'
  <2>1. task[i] = Never
    BY <1>1, <1>2 DEF LocksHeld
  <2>2. \A q \in JobProc \ {p} : call[q].step \in {"locked", "unlink"} => call[q].inode # i
    BY <1>1, JobNames DEF LocksHeld
  <2> QED
    BY <1>1, <1>2, <1>3, <1>4, <2>1, <2>2, JobNames DEF LocksHeld
<1>7. LockAtPath'
  BY <1>1, <1>4 DEF LockAtPath
<1>8. JobRecorded'
  BY <1>1 DEF JobRecorded
<1> QED
  BY <1>5, <1>6, <1>7, <1>8

(* A caller returns or is given a new state; only a holder of the lock has  *)
(* written the state file.                                                  *)
LEMMA StateWrittenInd ==
  ASSUME JobTypeOK', LocksHeld', LockAtPath', JobInd, UNCHANGED <<task, detached>>,
         \/ stateFile' = stateFile
         \/ \E p \in JobProc : call[p].step \in {"locked", "unlink"}
  PROVE  JobInd'
<1>1. JobRecorded'
  BY HolderAlone DEF JobRecorded, JobInd
<1> QED
  BY <1>1 DEF JobInd

(* A call begins. *)
LEMMA BeginInd ==
  ASSUME JobInd, NEW p \in JobProc, NEW op \in {"run", "create", "update", "delete"}, Begin(p, op),
         configured' \in BOOLEAN, configLock' \in Caller \cup {JobNone},
         UNCHANGED <<jobTime, stateFile, lockFile, flock, task, detached>>
  PROVE  JobInd'
<1> DEFINE r == [NoCall EXCEPT !.op = op, !.step = "open"]
<1>1. r \in Call /\ r.step = "open" /\ call' = [call EXCEPT ![p] = r]
  BY CallRecords DEF Begin
<1> HIDE DEF r
<1>2. JobTypeOK' /\ LocksHeld' /\ LockAtPath'
  BY <1>1, CallStepInd
<1> QED
  BY <1>2, StateWrittenInd

(* The call gives up waiting. *)
LEMMA JobLockTimeoutInd ==
  ASSUME JobInd, NEW p \in JobProc, JobLockTimeout(p)
  PROVE  JobInd'
<1>1. call' = [call EXCEPT ![p] = NoCall] /\ configLock' \in Caller \cup {JobNone}
      /\ UNCHANGED <<jobTime, configured, stateFile, lockFile, flock, task, detached>>
  BY DEF JobLockTimeout, Return, JobInd, JobTypeOK
<1>2. configured' \in BOOLEAN
  BY <1>1 DEF JobInd, JobTypeOK
<1>3. JobTypeOK' /\ LocksHeld' /\ LockAtPath'
  BY <1>1, <1>2, CallRecords, CallStepInd
<1> QED
  BY <1>1, <1>3, StateWrittenInd

(* CreateStateFile, UpdateLastRunTime, JobStartFails: a holder of the lock  *)
(* returns.                                                                 *)
LEMMA HolderReturnsInd ==
  ASSUME JobInd, NEW p \in JobProc, call[p].step = "locked", Unlock(call[p].inode), Return(p),
         stateFile' \in State, UNCHANGED <<jobTime, configured, lockFile, task, detached>>
  PROVE  JobInd'
<1>1. call' = [call EXCEPT ![p] = NoCall] /\ configLock' \in Caller \cup {JobNone}
      /\ flock' = [flock EXCEPT ![call[p].inode] = JobNone]
  BY DEF Return, Unlock, JobInd, JobTypeOK
<1>2. call'[p] = NoCall /\ \A q \in JobProc \ {p} : call'[q] = call[q]
  BY <1>1 DEF JobInd, JobTypeOK
<1>3. call[p].inode \in Inode /\ flock[call[p].inode] = p /\ task[call[p].inode] = Never
  BY DEF JobInd, LocksHeld
<1>4. flock' \in [Inode -> JobProc \cup {JobNone}] /\ \A i \in Inode \ {call[p].inode} : flock'[i] = flock[i]
  BY <1>1 DEF JobInd, JobTypeOK
<1>5. JobTypeOK'
  BY <1>1, <1>4, CallRecords DEF JobInd, JobTypeOK
<1>6. LocksHeld'
  <2>1. ASSUME NEW q \in JobProc, q # p, call[q].step \in {"locked", "unlink"} PROVE call[q].inode # call[p].inode
    BY <1>3, <2>1 DEF JobInd, LocksHeld
  <2> QED
    BY <1>2, <1>3, <1>4, <2>1, CallRecords DEF JobInd, LocksHeld
<1>7. LockAtPath'
  BY <1>1, <1>3, <1>4 DEF JobInd, LockAtPath, JobTypeOK
<1> QED
  BY <1>5, <1>6, <1>7, StateWrittenInd

(* The lock goes over to the task, with the state file written. *)
LEMMA JobStartInd ==
  ASSUME JobInd, NEW p \in JobProc, JobStart(p)
  PROVE  JobInd'
<1> USE DEF JobInd
<1> DEFINE i == call[p].inode
           new == [kind |-> "started", task |-> i, last |-> jobTime]
<1>1. /\ call[p].step = "locked" /\ task' = [task EXCEPT ![i] = jobTime] /\ stateFile' = new
      /\ call' = [call EXCEPT ![p] = NoCall] /\ UNCHANGED <<jobTime, configured, configLock, lockFile, flock, detached>>
  BY DEF JobStart, Holds
<1>2. i \in Inode /\ flock[i] = p /\ task[i] = Never /\ jobTime \in JobTimes
  BY <1>1 DEF LocksHeld, JobTypeOK
<1>3. task' \in [Inode -> JobTimes \cup {Never}] /\ task'[i] = jobTime /\ \A j \in Inode \ {i} : task'[j] = task[j]
  BY <1>1, <1>2 DEF JobTypeOK
<1>4. call'[p] = NoCall /\ \A q \in JobProc \ {p} : call'[q] = call[q]
  BY <1>1 DEF JobTypeOK
<1>5. new \in State
  BY <1>2 DEF State
<1>6. JobTypeOK'
  BY <1>1, <1>3, <1>5, CallRecords DEF JobTypeOK
<1>7. LocksHeld'
  <2>1. ASSUME NEW q \in JobProc, q # p, call[q].step \in {"locked", "unlink"} PROVE call[q].inode # i
    BY <1>2, <2>1 DEF LocksHeld
  <2> QED
    BY <1>1, <1>2, <1>3, <1>4, <2>1, CallRecords, JobNames DEF LocksHeld
<1>8. LockAtPath'
  BY <1>1 DEF LockAtPath
<1>9. JobRecorded'
  <2> SUFFICES ASSUME ~detached, NEW j \in Inode, task'[j] # Never
               PROVE  new = [kind |-> "started", task |-> j, last |-> task'[j]]
    BY <1>1 DEF JobRecorded
  <2>1. j = i
    BY <1>1, <1>3, HolderAlone
  <2> QED
    BY <1>3, <2>1
<1> QED
  BY <1>6, <1>7, <1>8, <1>9

(* The task ends and releases the lock. *)
LEMMA JobFinishInd ==
  ASSUME JobInd, NEW i \in Inode, JobFinish(i)
  PROVE  JobInd'
<1> USE DEF JobInd
<1> DEFINE new == [kind |-> "finished", task |-> i, last |-> task[i]]
<1>1. /\ task[i] # Never /\ task' = [task EXCEPT ![i] = Never] /\ stateFile' = new
      /\ flock' = [flock EXCEPT ![i] = JobNone] /\ UNCHANGED <<jobTime, configured, configLock, lockFile, call, detached>>
  BY DEF JobFinish, Unlock
<1>2. task' \in [Inode -> JobTimes \cup {Never}] /\ task'[i] = Never /\ \A j \in Inode \ {i} : task'[j] = task[j]
  BY <1>1 DEF JobTypeOK
<1>3. flock' \in [Inode -> JobProc \cup {JobNone}] /\ flock'[i] = JobNone /\ \A j \in Inode \ {i} : flock'[j] = flock[j]
  BY <1>1 DEF JobTypeOK
<1>4. new \in State
  BY <1>1 DEF State, JobTypeOK
<1>5. JobTypeOK'
  BY <1>1, <1>2, <1>3, <1>4 DEF JobTypeOK
<1>6. LocksHeld'
  BY <1>1, <1>2, <1>3 DEF LocksHeld
<1>7. LockAtPath'
  BY <1>1, <1>3 DEF LockAtPath
<1>8. JobRecorded'
  <2> SUFFICES ASSUME ~detached, NEW j \in Inode, task'[j] # Never PROVE FALSE
    BY <1>1 DEF JobRecorded
  <2>1. j # i /\ task[j] # Never
    BY <1>2
  <2>2. flock[i] # JobNone /\ flock[j] # JobNone
    BY <1>1, <2>1 DEF LocksHeld
  <2> QED
    BY <2>1, <2>2 DEF LockAtPath
<1> QED
  BY <1>5, <1>6, <1>7, <1>8

(* remove_state_file: the state file goes first. *)
LEMMA RemoveStateFileInd ==
  ASSUME JobInd, NEW p \in JobProc, RemoveStateFile(p)
  PROVE  JobInd'
<1> USE DEF JobInd
<1>1. /\ call[p].step = "locked" /\ stateFile' = NoState /\ call' = [call EXCEPT ![p].step = "unlink"]
      /\ UNCHANGED <<jobTime, configured, configLock, lockFile, flock, task, detached>>
  BY DEF RemoveStateFile, Holds
<1>2. call' \in [JobProc -> Call] /\ call'[p].step = "unlink" /\ call'[p].inode = call[p].inode /\ \A q \in JobProc \ {p} : call'[q] = call[q]
  BY <1>1 DEF JobTypeOK, Call
<1>3. NoState \in State
  BY PeriodAssumption DEF NoState, State, JobTimes
<1>4. JobTypeOK'
  BY <1>1, <1>2, <1>3 DEF JobTypeOK
<1>5. LocksHeld'
  BY <1>1, <1>2 DEF LocksHeld
<1>6. LockAtPath'
  BY <1>1 DEF LockAtPath
<1> QED
  BY <1>1, <1>4, <1>5, <1>6, StateWrittenInd

(* The lock file goes while its lock is held. *)
LEMMA RemoveLockFileInd ==
  ASSUME JobInd, NEW p \in JobProc, RemoveLockFile(p)
  PROVE  JobInd'
<1> USE DEF JobInd
<1> DEFINE i == call[p].inode
<1>1. /\ call[p].step = "unlink" /\ lockFile' = JobNone /\ i \in Inode /\ flock[i] = p /\ task[i] = Never
      /\ UNCHANGED <<jobTime, configured, stateFile, task, detached>>
  BY DEF RemoveLockFile, LocksHeld
<1>2. /\ flock' = [flock EXCEPT ![i] = JobNone] /\ call' = [call EXCEPT ![p] = NoCall]
      /\ configLock' \in Caller \cup {JobNone}
  BY <1>1 DEF RemoveLockFile, Return, JobTypeOK
<1>3. flock' \in [Inode -> JobProc \cup {JobNone}] /\ flock'[i] = JobNone /\ \A j \in Inode \ {i} : flock'[j] = flock[j]
  BY <1>1, <1>2 DEF JobTypeOK
<1>4. call'[p] = NoCall /\ \A q \in JobProc \ {p} : call'[q] = call[q]
  BY <1>2 DEF JobTypeOK
<1>5. JobTypeOK'
  BY <1>1, <1>2, <1>3, CallRecords DEF JobTypeOK
<1>6. LocksHeld'
  <2>1. ASSUME NEW q \in JobProc, q # p, call[q].step \in {"locked", "unlink"} PROVE call[q].inode # i
    BY <1>1, <2>1 DEF LocksHeld
  <2> QED
    BY <1>1, <1>3, <1>4, <2>1, CallRecords DEF LocksHeld
<1>7. LockAtPath'
  <2>1. ~detached => i = lockFile
    BY <1>1, JobNames DEF LockAtPath
  <2> QED
    BY <1>1, <1>3, <2>1 DEF LockAtPath
<1> QED
  BY <1>1, <1>5, <1>6, <1>7, StateWrittenInd

(* The daemon dies, and its locks with it. *)
LEMMA JobCrashInd ==
  ASSUME JobInd, JobCrash
  PROVE  JobInd'
<1> USE DEF JobInd, JobCrash
<1>1. JobTypeOK'
  BY CallRecords DEF JobTypeOK
<1>2. LocksHeld' /\ LockAtPath' /\ JobRecorded'
  BY CallRecords DEF LocksHeld, LockAtPath, JobRecorded
<1> QED
  BY <1>1, <1>2

(* Time passes. *)
LEMMA JobTickInd ==
  ASSUME JobInd, JobTick
  PROVE  JobInd'
<1> USE DEF JobInd, JobTick
<1>1. JobTypeOK'
  BY PeriodAssumption DEF JobTypeOK, JobTimes
<1>2. LocksHeld' /\ LockAtPath' /\ JobRecorded'
  BY DEF LocksHeld, LockAtPath, JobRecorded
<1> QED
  BY <1>1, <1>2

(* The state that update_job_last_run_time writes is one of a file. *)
LEMMA UpdatedState ==
  ASSUME JobInd, NEW p \in JobProc, UpdateLastRunTime(p)
  PROVE  stateFile' \in State
<1>1. stateFile \in State /\ jobTime \in JobTimes
  BY DEF JobInd, JobTypeOK
<1>2. Load \in State
  BY <1>1 DEF Load, State
<1>3. JobCreated(jobTime) \in State /\ [Load EXCEPT !.last = jobTime] \in State
  BY <1>1, <1>2 DEF JobCreated, State
<1>4. Load.kind \in {"absent", "created", "started", "finished"}
  BY <1>2 DEF State
<1> QED
  BY <1>1, <1>3, <1>4 DEF UpdateLastRunTime

(* Every step keeps the invariant. *)
LEMMA JobStepInd == JobInd /\ [JobNext]_jobVars => JobInd'
<1> SUFFICES ASSUME JobInd, [JobNext]_jobVars PROVE JobInd'
  OBVIOUS
<1>1. CASE UNCHANGED jobVars
  BY <1>1 DEF jobVars, JobInd, JobTypeOK, LocksHeld, LockAtPath, JobRecorded
<1>2. CASE CheckSchedule
  BY <1>2, BeginInd, JobNames DEF CheckSchedule, JobInd, JobTypeOK
<1>3. ASSUME NEW p \in JobProc, JobProgress(p) \/ JobStartFails(p) PROVE JobInd'
  <2>1. CASE CreateStateFile(p)
    <3>1. JobCreated(jobTime) \in State
      BY DEF JobCreated, State, JobInd, JobTypeOK
    <3> QED
      BY <2>1, <3>1, HolderReturnsInd DEF CreateStateFile, Holds
  <2>2. CASE UpdateLastRunTime(p)
    BY <2>2, UpdatedState, HolderReturnsInd DEF UpdateLastRunTime, Holds
  <2>3. CASE JobStartFails(p)
    BY <2>3, HolderReturnsInd DEF JobStartFails, Holds, JobInd, JobTypeOK
  <2> QED
    BY <1>3, <2>1, <2>2, <2>3, JobOpenInd, JobLockInd, JobLockTimeoutInd, JobStartInd, RemoveStateFileInd,
       RemoveLockFileInd DEF JobProgress
<1>4. ASSUME NEW p \in Caller, RunManually(p) \/ CreateJob(p) \/ UpdateJob(p) \/ DeleteJob(p) PROVE JobInd'
  <2>1. p \in JobProc
    BY JobNames
  <2>2. CASE RunManually(p)
    BY <2>1, <2>2, BeginInd DEF RunManually, JobInd, JobTypeOK
  <2>3. CASE CreateJob(p)
    BY <2>1, <2>3, BeginInd DEF CreateJob, LockConfig, JobInd, JobTypeOK
  <2>4. CASE UpdateJob(p)
    BY <2>1, <2>4, BeginInd DEF UpdateJob, LockConfig, JobInd, JobTypeOK
  <2>5. CASE DeleteJob(p)
    BY <2>1, <2>5, BeginInd DEF DeleteJob, LockConfig, JobInd, JobTypeOK
  <2> QED
    BY <1>4, <2>2, <2>3, <2>4, <2>5
<1> QED
  BY <1>1, <1>2, <1>3, <1>4, JobFinishInd, JobTickInd, JobCrashInd DEF JobNext

(* The invariant says that a job runs once at a time. *)
LEMMA JobIndSafe == JobInd => JobSafe
<1> SUFFICES ASSUME JobInd PROVE JobExclusive
  BY DEF JobInd, JobSafe
<1> QED
  BY DEF JobInd, JobExclusive, LocksHeld, LockAtPath

(* A job runs once at a time and its state file names the task that runs,   *)
(* for any number of callers and inodes, whatever crashes: as long as no    *)
(* lock was taken on a file that had been removed.                          *)
THEOREM JobsRunOnce == JobSpec => []JobSafe
<1>1. JobSpec => []JobInd
  BY JobInitInd, JobStepInd, PTL DEF JobSpec
<1> QED
  BY <1>1, JobIndSafe, PTL

-----------------------------------------------------------------------------
(* Datastore lookup and maintenance mode *)

Active(p) == {h \in Handle : HandleProc(h) = p /\ Using(h)}
Checked(h) == handle[h].step = "checked"

(* The counts under /run are the operations there are. *)
Counted == \A p \in Proc : ops[p] = Cardinality(Active(p))

(* Who holds which lock, and what cannot change meanwhile. *)
LookupLocked ==
    \A h \in Handle :
        /\ Checked(h) => cfgLock = h /\ present /\ Admits(handle[h].op)
        /\ handle[h].step \in {"checked", "active"} => handle[h].store \in MStore
TasksLocked ==
    \A t \in Job :
        /\ job[t] = "callback" => cfgLock = t /\ present /\ mode = Mandated
        /\ job[t] = "destroy" => opsLock = t
        /\ job[t] \in {"marked", "destroy"} => mode = "delete"
GoneDeleted == ~present => mode = "delete"

(* A task that has seen no operation in the mode it has set will see none. *)
QuietStays ==
    ~raced => \A t \in Job :
        (job[t] = "quiet" /\ mode = Mandated) \/ job[t] = "callback" => \A h \in Handle : ~Using(h)

(* Operations use the chunk store of the map. *)
StoreOfMap ==
    ~raced => \A h \in Handle : Using(h) \/ Checked(h) => handle[h].store = map[HandleProc(h)]
UnmountedUnused ==
    ~mounted => (\A h \in Handle : handle[h].store = MaintNone) /\ (\A p \in Proc : map[p] = MaintNone)

MaintInd ==
    /\ MaintTypeOK /\ Counted /\ LookupLocked /\ TasksLocked /\ GoneDeleted
    /\ DestroyedUnused /\ QuietStays /\ StoreOfMap /\ UnmountedUnused

(* What depends on the holders, and not on the tasks *)
HoldersInd == MaintTypeOK /\ Counted /\ LookupLocked /\ StoreOfMap /\ UnmountedUnused

(* The names stand for different things. *)
LEMMA MaintNames ==
  /\ MaintNone \notin Handle /\ MaintNone \notin Job /\ MaintNone \notin MStore /\ MaxChanges \in Nat
  /\ Proxy \subseteq Proc /\ \A h \in Handle : h \notin Job /\ HandleProc(h) \in Proc
  BY MaintAssumption, HandleProcAssumption DEF MStore

(* A process has finitely many operations. *)
LEMMA ActiveFinite ==
  ASSUME NEW p
  PROVE  IsFiniteSet(Active(p)) /\ Cardinality(Active(p)) \in 0 .. Cardinality(Handle)
<1>1. Active(p) \subseteq Handle
  BY DEF Active
<1> QED
  BY <1>1, MaintAssumption, FS_Subset, FS_CardinalityType

(* No lookup goes on. *)
LEMMA NoHandleIs == NoHandle \in HandleState /\ NoHandle.step = "idle" /\ NoHandle.op = "lookup" /\ NoHandle.store = MaintNone
  BY DEF NoHandle, HandleState, Operation

(* Initially nobody uses the datastore. *)
LEMMA MaintInitInd == MaintInit => MaintInd
<1> SUFFICES ASSUME MaintInit PROVE MaintInd
  OBVIOUS
<1>1. \A h \in Handle : handle[h] = NoHandle /\ ~Using(h) /\ ~Checked(h)
  BY NoHandleIs DEF MaintInit, Using, Checked
<1>2. MaintTypeOK
  <2>1. Cardinality(Handle) \in Nat
    BY MaintAssumption, FS_CardinalityType
  <2>2. /\ ops \in [Proc -> 0 .. Cardinality(Handle)] /\ map \in [Proc -> MStore \cup {MaintNone}]
        /\ changes \in 0 .. MaxChanges
    BY <2>1, MaintNames DEF MaintInit
  <2>3. /\ handle \in [Handle -> HandleState] /\ job \in [Job -> JobStep] /\ mode \in Mode /\ command \subseteq Proc
    BY NoHandleIs DEF MaintInit, Mode, JobStep
  <2> QED
    BY <2>2, <2>3 DEF MaintInit, MaintTypeOK
<1>3. Counted
  <2> SUFFICES ASSUME NEW p \in Proc PROVE ops[p] = Cardinality(Active(p))
    BY DEF Counted
  <2>1. Active(p) = {}
    BY <1>1 DEF Active
  <2> QED
    BY <2>1, FS_EmptySet DEF MaintInit
<1>4. LookupLocked /\ TasksLocked /\ GoneDeleted /\ DestroyedUnused /\ QuietStays /\ StoreOfMap /\ UnmountedUnused
  BY <1>1, NoHandleIs DEF MaintInit, LookupLocked, TasksLocked, GoneDeleted, DestroyedUnused, QuietStays, StoreOfMap, UnmountedUnused
<1> QED
  BY <1>2, <1>3, <1>4 DEF MaintInd

-----------------------------------------------------------------------------
(* Counting *)

(* A step that begins and ends no operation keeps the count. *)
LEMMA CountedSame ==
  ASSUME Counted, UNCHANGED ops, \A h \in Handle : Using(h)' <=> Using(h)
  PROVE  Counted'
<1>1. \A p \in Proc : Active(p)' = Active(p)
  BY DEF Active
<1> QED
  BY <1>1 DEF Counted

(* A step that begins one operation and counts it. *)
LEMMA CountedMore ==
  ASSUME MaintTypeOK, Counted, NEW g \in Handle, ~Using(g), Using(g)', \A h \in Handle \ {g} : Using(h)' <=> Using(h),
         ops' = [ops EXCEPT ![HandleProc(g)] = @ + 1]
  PROVE  Counted'
<1> SUFFICES ASSUME NEW p \in Proc PROVE ops'[p] = Cardinality(Active(p)')
  BY DEF Counted
<1>1. CASE p = HandleProc(g)
  <2>1. Active(p)' = Active(p) \cup {g} /\ g \notin Active(p)
    BY <1>1 DEF Active
  <2>2. Cardinality(Active(p)') = Cardinality(Active(p)) + 1
    BY <2>1, ActiveFinite, FS_AddElement
  <2> QED
    BY <1>1, <2>2 DEF Counted, MaintTypeOK
<1>2. CASE p # HandleProc(g)
  <2>1. Active(p)' = Active(p)
    BY <1>2 DEF Active
  <2> QED
    BY <1>2, <2>1 DEF Counted, MaintTypeOK
<1> QED
  BY <1>1, <1>2

(* A step that ends one operation and counts it. *)
LEMMA CountedLess ==
  ASSUME MaintTypeOK, Counted, NEW g \in Handle, Using(g), ~Using(g)', \A h \in Handle \ {g} : Using(h)' <=> Using(h),
         ops' = [ops EXCEPT ![HandleProc(g)] = ops[HandleProc(g)] - 1]
  PROVE  Counted'
<1> SUFFICES ASSUME NEW p \in Proc PROVE ops'[p] = Cardinality(Active(p)')
  BY DEF Counted
<1>1. CASE p = HandleProc(g)
  <2>1. Active(p)' = Active(p) \ {g} /\ g \in Active(p)
    BY <1>1 DEF Active
  <2>2. Cardinality(Active(p)') = Cardinality(Active(p)) - 1
    BY <2>1, ActiveFinite, FS_RemoveElement
  <2> QED
    BY <1>1, <2>2 DEF Counted, MaintTypeOK
<1>2. CASE p # HandleProc(g)
  <2>1. Active(p)' = Active(p)
    BY <1>2 DEF Active
  <2> QED
    BY <1>2, <2>1 DEF Counted, MaintTypeOK
<1> QED
  BY <1>1, <1>2

(* A count of zero: there are no operations. *)
LEMMA NoneCounted ==
  ASSUME MaintTypeOK, Counted, NEW p \in Proc, ~(ops[p] > 0), NEW h \in Handle, HandleProc(h) = p
  PROVE  ~Using(h)
<1>1. Cardinality(Active(p)) = 0
  BY ActiveFinite DEF Counted
<1>2. Active(p) = {}
  BY <1>1, ActiveFinite, FS_EmptySet
<1> QED
  BY <1>2 DEF Active

(* The type of the counts follows from what they count. *)
LEMMA OpsType ==
  ASSUME Counted', DOMAIN ops' = Proc, ops' = [p \in Proc |-> ops'[p]]
  PROVE  ops' \in [Proc -> 0 .. Cardinality(Handle)]
<1>1. \A p \in Proc : ops'[p] \in 0 .. Cardinality(Handle)
  <2> SUFFICES ASSUME NEW p \in Proc PROVE ops'[p] \in 0 .. Cardinality(Handle)
    OBVIOUS
  <2>1. IsFiniteSet(Active(p)') /\ Cardinality(Active(p)') \in 0 .. Cardinality(Handle)
    <3>1. Active(p)' \subseteq Handle
      BY DEF Active
    <3> QED
      BY <3>1, MaintAssumption, FS_Subset, FS_CardinalityType
  <2> QED
    BY <2>1 DEF Counted
<1> QED
  BY <1>1

-----------------------------------------------------------------------------
(* Steps of tasks and of the administrator leave the holders alone *)

(* A step of a maintenance task leaves the holders alone. *)
LEMMA TaskStepHolders ==
  ASSUME MaintInd, UNCHANGED <<kind, ops, map, handle>>,
         present' \in BOOLEAN, mode' \in Mode, opsLock' \in Job \cup {MaintNone}, cfgLock' \in Job \cup {MaintNone, cfgLock},
         job' \in [Job -> JobStep], command' \subseteq Proc, changes' \in 0 .. MaxChanges, raced' \in BOOLEAN, raced => raced',
         mounted' \in BOOLEAN,
         ~mounted' => mounted' = mounted \/ \A p \in Proc, s \in MStore : ~InUse(p, s),
         <<present, mode, cfgLock>>' = <<present, mode, cfgLock>> \/ cfgLock \notin Handle
  PROVE  HoldersInd'
<1> USE DEF MaintInd
<1>1. MaintTypeOK'
  BY DEF MaintTypeOK
<1>2. \A h \in Handle : (Using(h)' <=> Using(h)) /\ (Checked(h)' <=> Checked(h))
  BY DEF Using, Counts, Checked
<1>3. Counted'
  BY <1>2, CountedSame
<1>4. LookupLocked'
  <2> SUFFICES ASSUME NEW h \in Handle, Checked(h) PROVE cfgLock' = h /\ present' /\ Admits(handle[h].op)'
    BY <1>2 DEF LookupLocked
  <2>1. cfgLock = h /\ present /\ Admits(handle[h].op)
    BY DEF LookupLocked
  <2> QED
    BY <2>1 DEF Admits
<1>5. StoreOfMap'
  BY <1>2 DEF StoreOfMap
<1>6. UnmountedUnused'
  <2>1. ASSUME \A p \in Proc, s \in MStore : ~InUse(p, s), NEW h \in Handle PROVE handle[h].store = MaintNone
    BY <2>1, MaintNames DEF InUse, MaintTypeOK, HandleState
  <2>2. ASSUME \A p \in Proc, s \in MStore : ~InUse(p, s), NEW p \in Proc PROVE map[p] = MaintNone
    BY <2>2 DEF InUse, MaintTypeOK
  <2> QED
    BY <2>1, <2>2 DEF UnmountedUnused
<1> QED
  BY <1>1, <1>3, <1>4, <1>5, <1>6 DEF HoldersInd

(* What a step of a task or of the administrator must leave true besides *)
TasksInd == TasksLocked /\ GoneDeleted /\ DestroyedUnused /\ QuietStays

(* The invariant has a part about holders and one about tasks. *)
LEMMA HoldersTasks == HoldersInd /\ TasksInd <=> MaintInd
  BY DEF HoldersInd, TasksInd, MaintInd

(* The state of one task is replaced. *)
LEMMA JobTyped ==
  ASSUME MaintTypeOK, NEW t \in Job, NEW s \in JobStep, job' = [job EXCEPT ![t] = s]
  PROVE  /\ job' \in [Job -> JobStep] /\ job'[t] = s
         /\ \A u \in Job \ {t} : job'[u] = job[u]
  BY DEF MaintTypeOK

(* The mode is set. *)
LEMMA UpdateMaintenanceInd ==
  ASSUME MaintInd, NEW m \in Mode, UpdateMaintenance(m)
  PROVE  MaintInd'
<1> USE DEF UpdateMaintenance, SetMode
<1>1. HoldersInd'
  <2>1. changes' \in 0 .. MaxChanges /\ raced' \in BOOLEAN
    BY MaintNames DEF MaintInd, MaintTypeOK
  <2> QED
    BY <2>1, MaintNames, TaskStepHolders DEF MaintInd, MaintTypeOK
<1>2. TasksLocked' /\ GoneDeleted'
  BY MaintNames DEF MaintInd, TasksLocked, GoneDeleted, Mandated
<1>3. DestroyedUnused' /\ QuietStays'
  BY MaintNames DEF MaintInd, TasksLocked, DestroyedUnused, QuietStays, Using, Counts, Mandated
<1> QED
  BY <1>1, <1>2, <1>3, HoldersTasks DEF TasksInd, HoldersInd, MaintInd

(* A task begins after the mode was set. *)
LEMMA StartMaintenanceInd ==
  ASSUME MaintInd, NEW t \in Job, NEW k, NEW m \in {"unmount", "s3refresh"}, NEW step \in {"lookup", "wait"},
         StartMaintenance(t, k, m, step), command' \subseteq Proc
  PROVE  MaintInd'
<1> USE DEF StartMaintenance, SetMode
<1>1. job' \in [Job -> JobStep] /\ job'[t] = step /\ \A u \in Job \ {t} : job'[u] = job[u]
  BY JobTyped DEF MaintInd, JobStep
<1>2. HoldersInd'
  <2>1. changes' \in 0 .. MaxChanges /\ raced' \in BOOLEAN /\ mode' \in Mode
    BY MaintNames DEF MaintInd, MaintTypeOK, Mode
  <2> QED
    BY <1>1, <2>1, MaintNames, TaskStepHolders DEF MaintInd, MaintTypeOK
<1>3. TasksLocked' /\ GoneDeleted'
  BY <1>1, MaintNames DEF MaintInd, TasksLocked, GoneDeleted, Mandated
<1>4. DestroyedUnused' /\ QuietStays'
  BY <1>1, MaintNames DEF MaintInd, TasksLocked, DestroyedUnused, QuietStays, Using, Counts, Mandated
<1> QED
  BY <1>2, <1>3, <1>4 DEF HoldersInd, MaintInd

(* A task that is only about to wait, or has ended, asks for nothing. *)
LEMMA TaskOpensInd ==
  ASSUME MaintInd, NEW t \in Job, job[t] = "lookup", NEW step \in {"idle", "wait"}, job' = [job EXCEPT ![t] = step],
         UNCHANGED <<kind, present, mode, mounted, cfgLock, opsLock, ops, map, handle, command, changes, raced>>
  PROVE  MaintInd'
<1>1. job' \in [Job -> JobStep] /\ job'[t] = step /\ \A u \in Job \ {t} : job'[u] = job[u]
  BY JobTyped DEF MaintInd, JobStep
<1>2. HoldersInd'
  BY <1>1, TaskStepHolders DEF MaintInd, MaintTypeOK
<1>3. TasksLocked' /\ GoneDeleted'
  BY <1>1 DEF MaintInd, TasksLocked, GoneDeleted, Mandated
<1>4. DestroyedUnused' /\ QuietStays'
  BY <1>1 DEF MaintInd, DestroyedUnused, QuietStays, Using, Counts, Mandated
<1> QED
  BY <1>2, <1>3, <1>4 DEF HoldersInd, MaintInd

(* The task looks at the count of the active operations. *)
LEMMA PollInd ==
  ASSUME MaintInd, NEW t \in Job, Poll(t)
  PROVE  MaintInd'
<1> USE DEF Poll
<1>1. job' \in [Job -> JobStep] /\ job'[t] = "quiet" /\ \A u \in Job \ {t} : job'[u] = job[u]
  BY JobTyped DEF MaintInd, JobStep
<1>2. HoldersInd'
  BY <1>1, TaskStepHolders DEF MaintInd, MaintTypeOK
<1>3. TasksLocked' /\ GoneDeleted'
  BY <1>1 DEF MaintInd, TasksLocked, GoneDeleted, Mandated
<1>4. \A h \in Handle : ~Using(h)
  BY NoneCounted, MaintNames DEF Total, MaintInd
<1>5. DestroyedUnused' /\ QuietStays'
  BY <1>4 DEF DestroyedUnused, QuietStays, Using, Counts
<1> QED
  BY <1>2, <1>3, <1>5 DEF HoldersInd, MaintInd

(* The task is aborted while it waits. *)
LEMMA MaintenanceAbortedInd ==
  ASSUME MaintInd, NEW t \in Job, MaintenanceAborted(t)
  PROVE  MaintInd'
<1> USE DEF MaintenanceAborted
<1>1. job' \in [Job -> JobStep] /\ job'[t] = "idle" /\ \A u \in Job \ {t} : job'[u] = job[u]
  BY JobTyped DEF MaintInd, JobStep
<1>2. HoldersInd'
  <2>1. raced' \in BOOLEAN /\ mode' \in Mode
    BY DEF MaintInd, MaintTypeOK, Mode
  <2> QED
    BY <1>1, <2>1, MaintNames, TaskStepHolders DEF MaintInd, MaintTypeOK
<1>3. TasksLocked' /\ GoneDeleted'
  BY <1>1, MaintNames DEF MaintInd, TasksLocked, GoneDeleted, Mandated
<1>4. DestroyedUnused' /\ QuietStays'
  BY <1>1, MaintNames DEF MaintInd, TasksLocked, DestroyedUnused, QuietStays, Using, Counts, Mandated
<1> QED
  BY <1>2, <1>3, <1>4 DEF HoldersInd, MaintInd

(* The lock is taken and the mode looked at again. *)
LEMMA ExpectMaintenanceInd ==
  ASSUME MaintInd, NEW t \in Job, ExpectMaintenance(t)
  PROVE  MaintInd'
<1> USE DEF ExpectMaintenance
<1>1. CASE present /\ mode = Mandated
  <2>1. job' \in [Job -> JobStep] /\ job'[t] = "callback" /\ \A u \in Job \ {t} : job'[u] = job[u]
    BY <1>1, JobTyped DEF MaintInd, JobStep
  <2>2. HoldersInd'
    BY <1>1, <2>1, MaintNames, TaskStepHolders DEF MaintInd, MaintTypeOK
  <2>3. TasksLocked' /\ GoneDeleted'
    BY <1>1, <2>1, MaintNames DEF MaintInd, TasksLocked, GoneDeleted, Mandated
  <2>4. DestroyedUnused' /\ QuietStays'
    BY <1>1, <2>1 DEF MaintInd, TasksLocked, DestroyedUnused, QuietStays, Using, Counts, Mandated
  <2> QED
    BY <2>2, <2>3, <2>4 DEF HoldersInd, MaintInd
<1>2. CASE ~(present /\ mode = Mandated)
  <2>1. job' \in [Job -> JobStep] /\ job'[t] = "idle" /\ \A u \in Job \ {t} : job'[u] = job[u]
    BY <1>2, JobTyped DEF MaintInd, JobStep
  <2>2. HoldersInd'
    BY <1>2, <2>1, MaintNames, TaskStepHolders DEF MaintInd, MaintTypeOK
  <2>3. TasksLocked' /\ GoneDeleted'
    BY <1>2, <2>1, MaintNames DEF MaintInd, TasksLocked, GoneDeleted, Mandated
  <2>4. DestroyedUnused' /\ QuietStays'
    BY <1>2, <2>1 DEF MaintInd, TasksLocked, DestroyedUnused, QuietStays, Using, Counts, Mandated
  <2> QED
    BY <2>2, <2>3, <2>4 DEF HoldersInd, MaintInd
<1> QED
  BY <1>1, <1>2

(* The callback unmounts the device or refreshes the cache. *)
LEMMA CallbackInd ==
  ASSUME MaintInd, NEW t \in Job, Callback(t)
  PROVE  MaintInd'
<1> USE DEF Callback
<1>1. job' \in [Job -> JobStep] /\ job'[t] = "idle" /\ \A u \in Job \ {t} : job'[u] = job[u]
  BY JobTyped DEF MaintInd, JobStep
<1>2. cfgLock = t /\ present /\ mode = Mandated
  BY DEF MaintInd, TasksLocked
<1>3. HoldersInd'
  <2>1. raced' \in BOOLEAN /\ mode' \in Mode /\ mounted' \in BOOLEAN
    BY DEF MaintInd, MaintTypeOK, Mode
  <2>2. ~mounted' => \A p \in Proc, s \in MStore : ~InUse(p, s)
    OBVIOUS
  <2> QED
    BY <1>1, <1>2, <2>1, <2>2, MaintNames, TaskStepHolders DEF MaintInd, MaintTypeOK
<1>4. TasksLocked' /\ GoneDeleted'
  BY <1>1, <1>2, MaintNames DEF MaintInd, TasksLocked, GoneDeleted, Mandated
<1>5. DestroyedUnused' /\ QuietStays'
  BY <1>1, <1>2, MaintNames DEF MaintInd, TasksLocked, DestroyedUnused, QuietStays, Using, Counts, Mandated
<1> QED
  BY <1>3, <1>4, <1>5 DEF HoldersInd, MaintInd

(* The callback fails. *)
LEMMA CallbackFailsInd ==
  ASSUME MaintInd, NEW t \in Job, CallbackFails(t)
  PROVE  MaintInd'
<1> USE DEF CallbackFails
<1>1. job' \in [Job -> JobStep] /\ job'[t] = "idle" /\ \A u \in Job \ {t} : job'[u] = job[u]
  BY JobTyped DEF MaintInd, JobStep
<1>2. cfgLock = t
  BY DEF MaintInd, TasksLocked
<1>3. HoldersInd'
  BY <1>1, <1>2, MaintNames, TaskStepHolders DEF MaintInd, MaintTypeOK
<1>4. TasksLocked' /\ GoneDeleted'
  BY <1>1, <1>2, MaintNames DEF MaintInd, TasksLocked, GoneDeleted, Mandated
<1>5. DestroyedUnused' /\ QuietStays'
  BY <1>1, <1>2 DEF MaintInd, TasksLocked, DestroyedUnused, QuietStays, Using, Counts, Mandated
<1> QED
  BY <1>3, <1>4, <1>5 DEF HoldersInd, MaintInd

(* The device is mounted. *)
LEMMA MountInd ==
  ASSUME MaintInd, Mount
  PROVE  MaintInd'
<1> USE DEF Mount
<1>1. HoldersInd'
  BY TaskStepHolders DEF MaintInd, MaintTypeOK
<1>2. TasksLocked' /\ GoneDeleted' /\ DestroyedUnused' /\ QuietStays'
  BY DEF MaintInd, TasksLocked, GoneDeleted, DestroyedUnused, QuietStays, Using, Counts, Mandated
<1> QED
  BY <1>1, <1>2 DEF HoldersInd, MaintInd

(* delete_datastore sets the mode. *)
LEMMA DestroyMarkInd ==
  ASSUME MaintInd, NEW t \in Job, DestroyMark(t)
  PROVE  MaintInd'
<1> USE DEF DestroyMark, SetMode
<1>1. job' \in [Job -> JobStep] /\ job'[t] = "marked" /\ \A u \in Job \ {t} : job'[u] = job[u]
  BY JobTyped DEF MaintInd, JobStep
<1>2. HoldersInd'
  <2>1. raced' \in BOOLEAN /\ mode' \in Mode
    BY DEF MaintInd, MaintTypeOK, Mode
  <2> QED
    BY <1>1, <2>1, MaintNames, TaskStepHolders DEF MaintInd, MaintTypeOK
<1>3. TasksLocked' /\ GoneDeleted'
  BY <1>1, MaintNames DEF MaintInd, TasksLocked, GoneDeleted, Mandated
<1>4. DestroyedUnused' /\ QuietStays'
  BY <1>1, MaintNames DEF MaintInd, TasksLocked, DestroyedUnused, QuietStays, Using, Counts, Mandated
<1> QED
  BY <1>2, <1>3, <1>4 DEF HoldersInd, MaintInd

(* The active operations are looked at under the lock. *)
LEMMA DestroyCheckInd ==
  ASSUME MaintInd, NEW t \in Job, DestroyCheck(t)
  PROVE  MaintInd'
<1> USE DEF DestroyCheck
<1>1. CASE Total
  <2>1. job' \in [Job -> JobStep] /\ job'[t] = "idle" /\ \A u \in Job \ {t} : job'[u] = job[u]
    BY <1>1, JobTyped DEF MaintInd, JobStep
  <2>2. HoldersInd'
    BY <1>1, <2>1, TaskStepHolders DEF MaintInd, MaintTypeOK
  <2>3. TasksLocked' /\ GoneDeleted' /\ DestroyedUnused' /\ QuietStays'
    BY <1>1, <2>1 DEF MaintInd, TasksLocked, GoneDeleted, DestroyedUnused, QuietStays, Using, Counts, Mandated
  <2> QED
    BY <2>2, <2>3 DEF HoldersInd, MaintInd
<1>2. CASE ~Total
  <2>1. job' \in [Job -> JobStep] /\ job'[t] = "destroy" /\ \A u \in Job \ {t} : job'[u] = job[u]
    BY <1>2, JobTyped DEF MaintInd, JobStep
  <2>2. HoldersInd'
    BY <1>2, <2>1, TaskStepHolders DEF MaintInd, MaintTypeOK
  <2>3. \A h \in Handle : ~Using(h)
    BY <1>2, NoneCounted, MaintNames DEF Total, MaintInd
  <2>4. DestroyedUnused' /\ QuietStays'
    BY <2>3 DEF DestroyedUnused, QuietStays, Using, Counts
  <2>5. TasksLocked' /\ GoneDeleted'
    BY <1>2, <2>1, MaintNames DEF MaintInd, TasksLocked, GoneDeleted, Mandated
  <2> QED
    BY <2>2, <2>4, <2>5 DEF HoldersInd, MaintInd
<1> QED
  BY <1>1, <1>2

(* The datastore is removed from the configuration. *)
LEMMA DestroyEndsInd ==
  ASSUME MaintInd, NEW t \in Job, DestroyFails(t) \/ DestroySection(t)
  PROVE  MaintInd'
<1>1. job[t] = "destroy" /\ opsLock = t /\ mode = "delete" /\ opsLock' = MaintNone
  BY DEF DestroyFails, DestroySection, MaintInd, TasksLocked
<1>2. job' \in [Job -> JobStep] /\ job'[t] = "idle" /\ \A u \in Job \ {t} : job'[u] = job[u]
  BY JobTyped DEF DestroyFails, DestroySection, MaintInd, JobStep
<1>3. /\ UNCHANGED <<kind, mode, mounted, cfgLock, ops, map, handle, command, changes, raced>>
      /\ present' = present \/ (present' = FALSE /\ cfgLock = MaintNone)
  BY DEF DestroyFails, DestroySection
<1>4. HoldersInd'
  BY <1>1, <1>2, <1>3, MaintNames, TaskStepHolders DEF MaintInd, MaintTypeOK
<1>5. TasksLocked' /\ GoneDeleted'
  BY <1>1, <1>2, <1>3, MaintNames DEF MaintInd, TasksLocked, GoneDeleted, Mandated
<1>6. DestroyedUnused' /\ QuietStays'
  BY <1>1, <1>2, <1>3 DEF MaintInd, DestroyedUnused, QuietStays, Using, Counts, Mandated
<1> QED
  BY <1>4, <1>5, <1>6 DEF HoldersInd, MaintInd

-----------------------------------------------------------------------------
(* Steps of the holders leave the tasks and the mode alone *)

(* A step of a holder leaves the tasks alone. *)
LEMMA HolderStepTasks ==
  ASSUME MaintInd, UNCHANGED <<kind, present, mode, job, opsLock>>, raced => raced',
         \A t \in Job : job[t] = "callback" => cfgLock' = cfgLock,
         \A h \in Handle : Using(h)' => Using(h) \/ (present /\ opsLock = MaintNone /\ \E g \in Handle : Using(g))
                                        \/ (cfgLock \in Handle /\ opsLock = MaintNone /\ mode \notin {"delete", "unmount", "s3refresh"})
  PROVE  TasksInd'
<1> USE DEF MaintInd
<1>1. TasksLocked' /\ GoneDeleted'
  BY DEF TasksLocked, GoneDeleted, Mandated
<1>2. DestroyedUnused'
  <2> SUFFICES ASSUME ~present \/ \E t \in Job : job[t] = "destroy", NEW h \in Handle, Using(h)' PROVE FALSE
    BY DEF DestroyedUnused
  <2>1. \A g \in Handle : ~Using(g)
    BY DEF DestroyedUnused
  <2>2. mode = "delete"
    BY DEF TasksLocked, GoneDeleted
  <2> QED
    BY <2>1, <2>2
<1>3. QuietStays'
  <2> SUFFICES ASSUME ~raced, NEW t \in Job, (job[t] = "quiet" /\ mode = Mandated) \/ job[t] = "callback",
                      NEW h \in Handle, Using(h)'
               PROVE  FALSE
    BY DEF QuietStays, Mandated
  <2>1. \A g \in Handle : ~Using(g)
    BY DEF QuietStays
  <2>2. mode \in {"unmount", "s3refresh"}
    BY DEF TasksLocked, Mandated
  <2> QED
    BY <2>1, <2>2
<1> QED
  BY <1>1, <1>2, <1>3 DEF TasksInd

(* The state of one holder is replaced. *)
LEMMA HandleTyped ==
  ASSUME MaintTypeOK, NEW h \in Handle, NEW r \in HandleState, handle' = [handle EXCEPT ![h] = r]
  PROVE  /\ handle' \in [Handle -> HandleState] /\ handle'[h] = r
         /\ \A g \in Handle \ {h} : handle'[g] = handle[g] /\ (Using(g)' <=> Using(g)) /\ (Checked(g)' <=> Checked(g))
         /\ Using(h)' <=> (r.step = "active" /\ r.op # "lookup")
         /\ Checked(h)' <=> r.step = "checked"
<1>1. /\ handle' \in [Handle -> HandleState] /\ handle'[h] = r
      /\ \A g \in Handle \ {h} : handle'[g] = handle[g]
  BY DEF MaintTypeOK
<1> QED
  BY <1>1 DEF Using, Counts, Checked

(* The mode allows the lookup, which goes on with the lock held. *)
LEMMA LookupCheckedInd ==
  ASSUME MaintInd, NEW h \in Handle, NEW op \in Operation, LookupChecked(h, op), command' \subseteq Proc
  PROVE  MaintInd'
<1> USE DEF MaintInd
<1> DEFINE p == HandleProc(h)
           Free(s) == \A q \in Proc : ~InUse(q, s)
           store == IF map[p] # MaintNone THEN map[p] ELSE CHOOSE s \in MStore : Free(s)
           r == [step |-> "checked", op |-> op, store |-> store]
<1>1. /\ cfgLock = MaintNone /\ handle[h] = NoHandle /\ present /\ Admits(op) /\ mounted
      /\ cfgLock' = h /\ map' = [map EXCEPT ![p] = store] /\ handle' = [handle EXCEPT ![h] = r]
      /\ map[p] = MaintNone => \E s \in MStore : Free(s)
      /\ UNCHANGED <<kind, present, mode, mounted, opsLock, ops, job, changes, raced>>
  BY DEF LookupChecked
<1>2. p \in Proc
  BY MaintNames
<1>3. store \in MStore
  <2>1. CASE map[p] # MaintNone
    BY <1>2, <2>1 DEF MaintTypeOK
  <2>2. CASE map[p] = MaintNone
    <3>1. \E s \in MStore : Free(s)
      BY <1>1, <2>2
    <3> HIDE DEF Free
    <3>2. (CHOOSE s \in MStore : Free(s)) \in MStore
      BY <3>1
    <3> QED
      BY <2>2, <3>2
  <2> QED
    BY <2>1, <2>2
<1>4. map[p] # MaintNone => store = map[p]
  OBVIOUS
<1> HIDE DEF store
<1>5. r \in HandleState
  BY <1>3 DEF HandleState
<1>6. /\ handle' \in [Handle -> HandleState] /\ handle'[h] = r
      /\ \A g \in Handle \ {h} : handle'[g] = handle[g] /\ (Using(g)' <=> Using(g)) /\ (Checked(g)' <=> Checked(g))
      /\ ~Using(h)' /\ Checked(h)'
  BY ZenonT(60), <1>1, <1>5, HandleTyped
<1>7. ~Using(h)
  BY <1>1, NoHandleIs DEF Using
<1>8. \A g \in Handle : ~Checked(g)
  BY <1>1, MaintNames DEF LookupLocked
<1>9. MaintTypeOK'
  BY <1>1, <1>3, <1>6 DEF MaintTypeOK
<1>10. Counted'
  BY <1>1, <1>6, <1>7, CountedSame
<1>11. LookupLocked'
  BY <1>1, <1>3, <1>6, <1>8 DEF LookupLocked, Admits
<1>12. StoreOfMap'
  <2> SUFFICES ASSUME ~raced, NEW g \in Handle, Using(g)' \/ Checked(g)' PROVE handle'[g].store = map'[HandleProc(g)]
    BY <1>1 DEF StoreOfMap
  <2>1. CASE g = h
    BY <2>1, <1>1, <1>2, <1>6 DEF MaintTypeOK
  <2>2. CASE g # h
    <3>1. Using(g) /\ handle'[g] = handle[g] /\ handle[g].store = map[HandleProc(g)]
      BY <2>2, <1>6, <1>8 DEF StoreOfMap
    <3>2. handle[g].store \in MStore
      BY <3>1 DEF LookupLocked, Using
    <3>3. HandleProc(g) = p => store = map[p]
      BY <3>1, <3>2, <1>4, MaintNames
    <3> QED
      BY <3>1, <3>3, <1>1, <1>2, MaintNames DEF MaintTypeOK
  <2> QED
    BY <2>1, <2>2
<1>13. UnmountedUnused'
  BY <1>1 DEF UnmountedUnused
<1>14. TasksInd'
  <2>1. \A t \in Job : job[t] # "callback"
    BY <1>1, MaintNames DEF TasksLocked
  <2> QED
    BY <1>1, <1>6, <2>1, HolderStepTasks
<1> QED
  BY <1>9, <1>10, <1>11, <1>12, <1>13, <1>14, HoldersTasks DEF TasksInd

(* The operation is counted and the instance handed out. *)
LEMMA LookupCountInd ==
  ASSUME MaintInd, NEW h \in Handle, LookupCount(h)
  PROVE  MaintInd'
<1> USE DEF MaintInd
<1> DEFINE p == HandleProc(h)
           r == [handle[h] EXCEPT !.step = "active"]
<1>1. /\ Checked(h) /\ opsLock = MaintNone /\ cfgLock' = MaintNone /\ handle' = [handle EXCEPT ![h] = r]
      /\ ops' = [ops EXCEPT ![p] = IF Counts(h) THEN @ + 1 ELSE @]
      /\ UNCHANGED <<kind, present, mode, mounted, opsLock, map, job, command, changes, raced>>
  BY DEF LookupCount, Checked, MaintTypeOK
<1>2. cfgLock = h /\ present /\ Admits(handle[h].op) /\ handle[h].store \in MStore /\ handle[h] \in HandleState /\ p \in Proc
  BY <1>1, MaintNames DEF LookupLocked, MaintTypeOK, Checked
<1>3. r \in HandleState /\ r.step = "active" /\ r.op = handle[h].op /\ r.store = handle[h].store
  BY <1>2 DEF HandleState
<1> HIDE DEF r
<1>4. /\ handle' \in [Handle -> HandleState] /\ handle'[h] = r
      /\ \A g \in Handle \ {h} : handle'[g] = handle[g] /\ (Using(g)' <=> Using(g)) /\ (Checked(g)' <=> Checked(g))
      /\ Using(h)' <=> Counts(h)
      /\ ~Checked(h)'
  BY <1>1, <1>3, HandleTyped DEF Counts
<1>5. ~Using(h)
  BY <1>1 DEF Using, Checked
<1>6. Counted' /\ ops' \in [Proc -> 0 .. Cardinality(Handle)]
  <2>1. CASE Counts(h)
    <3>1. Counted'
      BY <2>1, <1>1, <1>4, <1>5, CountedMore
    <3> QED
      BY <3>1, <2>1, <1>1, OpsType DEF MaintTypeOK
  <2>2. CASE ~Counts(h)
    <3>1. ops' = ops
      BY <2>2, <1>1 DEF MaintTypeOK
    <3> QED
      BY <3>1, <2>2, <1>4, <1>5, CountedSame DEF MaintTypeOK
  <2> QED
    BY <2>1, <2>2
<1>7. MaintTypeOK'
  BY <1>1, <1>4, <1>6 DEF MaintTypeOK
<1>8. LookupLocked'
  <2>1. \A g \in Handle \ {h} : ~Checked(g)
    BY <1>2 DEF LookupLocked
  <2> QED
    BY <1>1, <1>2, <1>3, <1>4, <2>1 DEF LookupLocked, Checked
<1>9. StoreOfMap'
  BY <1>1, <1>3, <1>4 DEF StoreOfMap
<1>10. UnmountedUnused'
  BY <1>1, <1>2, <1>3, <1>4, MaintNames DEF UnmountedUnused
<1>11. TasksInd'
  <2>1. \A t \in Job : job[t] # "callback"
    BY <1>2, MaintNames DEF TasksLocked
  <2>2. Counts(h) => mode \notin {"delete", "unmount", "s3refresh"}
    BY <1>2 DEF Admits, Counts
  <2>3. cfgLock \in Handle
    BY <1>2
  <2> QED
    BY <1>1, <1>4, <2>1, <2>2, <2>3, HolderStepTasks
<1> QED
  BY <1>6, <1>7, <1>8, <1>9, <1>10, <1>11, HoldersTasks DEF TasksInd

(* The operation cannot be counted: the lookup gives the lock back. *)
LEMMA LookupFailsInd ==
  ASSUME MaintInd, NEW h \in Handle, LookupFails(h)
  PROVE  MaintInd'
<1> USE DEF MaintInd
<1>1. /\ Checked(h) /\ cfgLock' = MaintNone /\ handle' = [handle EXCEPT ![h] = NoHandle]
      /\ UNCHANGED <<kind, present, mode, mounted, opsLock, ops, map, job, command, changes, raced>>
  BY DEF LookupFails, Checked
<1>2. cfgLock = h
  BY <1>1 DEF LookupLocked
<1>3. /\ handle' \in [Handle -> HandleState] /\ handle'[h] = NoHandle
      /\ \A g \in Handle \ {h} : handle'[g] = handle[g] /\ (Using(g)' <=> Using(g)) /\ (Checked(g)' <=> Checked(g))
      /\ ~Using(h)' /\ ~Checked(h)'
  BY <1>1, NoHandleIs, HandleTyped
<1>4. ~Using(h)
  BY <1>1 DEF Using, Checked
<1>5. Counted'
  BY <1>1, <1>3, <1>4, CountedSame
<1>6. MaintTypeOK'
  BY <1>1, <1>3 DEF MaintTypeOK
<1>7. LookupLocked'
  <2>1. \A g \in Handle \ {h} : ~Checked(g)
    BY <1>2 DEF LookupLocked
  <2> QED
    BY <1>1, <1>3, <2>1, NoHandleIs DEF LookupLocked, Checked
<1>8. StoreOfMap'
  BY <1>1, <1>3 DEF StoreOfMap
<1>9. UnmountedUnused'
  BY <1>1, <1>3, NoHandleIs DEF UnmountedUnused
<1>10. TasksInd'
  <2>1. \A t \in Job : job[t] # "callback"
    BY <1>2, MaintNames DEF TasksLocked
  <2> QED
    BY <1>1, <1>3, <1>4, <2>1, HolderStepTasks
<1> QED
  BY <1>5, <1>6, <1>7, <1>8, <1>9, <1>10, HoldersTasks DEF TasksInd

(* A handle is cloned. *)
LEMMA CloneHandleInd ==
  ASSUME MaintInd, NEW h \in Handle, NEW g \in Handle, CloneHandle(h, g)
  PROVE  MaintInd'
<1> USE DEF MaintInd
<1> DEFINE p == HandleProc(h)
<1>1. /\ handle[h].step = "active" /\ handle[g] = NoHandle /\ HandleProc(g) = p /\ opsLock = MaintNone
      /\ handle' = [handle EXCEPT ![g] = handle[h]]
      /\ ops' = [ops EXCEPT ![p] = IF Counts(h) THEN @ + 1 ELSE @]
      /\ UNCHANGED <<kind, present, mode, mounted, cfgLock, opsLock, map, job, command, changes, raced>>
  BY DEF CloneHandle
<1>2. handle[h] \in HandleState /\ handle[h].store \in MStore /\ p \in Proc
  BY <1>1, MaintNames DEF LookupLocked, MaintTypeOK
<1>3. /\ handle' \in [Handle -> HandleState] /\ handle'[g] = handle[h]
      /\ \A k \in Handle \ {g} : handle'[k] = handle[k] /\ (Using(k)' <=> Using(k)) /\ (Checked(k)' <=> Checked(k))
      /\ Using(g)' <=> Counts(h)
      /\ ~Checked(g)'
  BY <1>1, <1>2, HandleTyped DEF Counts
<1>4. ~Using(g) /\ (Counts(h) => Using(h))
  BY <1>1, NoHandleIs DEF Using
<1>5. Counted' /\ ops' \in [Proc -> 0 .. Cardinality(Handle)]
  <2>1. CASE Counts(h)
    <3>1. Counted'
      BY <2>1, <1>1, <1>3, <1>4, CountedMore
    <3> QED
      BY <3>1, <2>1, <1>1, OpsType DEF MaintTypeOK
  <2>2. CASE ~Counts(h)
    <3>1. ops' = ops
      BY <2>2, <1>1 DEF MaintTypeOK
    <3> QED
      BY <3>1, <2>2, <1>3, <1>4, CountedSame DEF MaintTypeOK
  <2> QED
    BY <2>1, <2>2
<1>6. MaintTypeOK'
  BY <1>1, <1>3, <1>5 DEF MaintTypeOK
<1>7. LookupLocked'
  BY <1>1, <1>2, <1>3 DEF LookupLocked, Admits
<1>8. StoreOfMap'
  BY <1>1, <1>3, <1>4 DEF StoreOfMap
<1>9. UnmountedUnused'
  BY <1>1, <1>2, MaintNames DEF UnmountedUnused
<1>10. TasksInd'
  <2>1. ASSUME NEW k \in Handle, Using(k)'
        PROVE  Using(k) \/ (present /\ opsLock = MaintNone /\ \E j \in Handle : Using(j))
    <3>1. CASE k # g
      BY <2>1, <3>1, <1>3
    <3>2. CASE k = g
      <4>1. Using(h)
        BY <2>1, <3>2, <1>3, <1>4
      <4>2. present
        BY <4>1 DEF DestroyedUnused
      <4> QED
        BY <1>1, <4>1, <4>2
    <3> QED
      BY <3>1, <3>2
  <2> QED
    BY <1>1, <2>1, HolderStepTasks
<1> QED
  BY <1>5, <1>6, <1>7, <1>8, <1>9, <1>10, HoldersTasks DEF TasksInd

(* A holder goes on to a state in which it uses nothing. *)
LEMMA HolderLeaves ==
  ASSUME MaintInd, NEW h \in Handle, NEW r \in HandleState, handle' = [handle EXCEPT ![h] = r],
         r.step \notin {"checked", "active"}, r.store \in {handle[h].store, MaintNone}, ~Checked(h),
         Counted', ops' \in [Proc -> 0 .. Cardinality(Handle)],
         map' = map \/ (map' = [map EXCEPT ![HandleProc(h)] = MaintNone]
                        /\ \A g \in Handle : HandleProc(g) = HandleProc(h) => ~Checked(g) /\ (raced' \/ ~Using(g))),
         raced' \in BOOLEAN, raced => raced',
         UNCHANGED <<kind, present, mode, mounted, cfgLock, opsLock, job, command, changes>>
  PROVE  MaintInd'
<1> USE DEF MaintInd
<1>1. /\ handle' \in [Handle -> HandleState] /\ handle'[h] = r
      /\ \A g \in Handle \ {h} : handle'[g] = handle[g] /\ (Using(g)' <=> Using(g)) /\ (Checked(g)' <=> Checked(g))
      /\ ~Using(h)' /\ ~Checked(h)'
  BY HandleTyped
<1>2. map' \in [Proc -> MStore \cup {MaintNone}] /\ \A p \in Proc : map'[p] \in {map[p], MaintNone}
  BY MaintNames DEF MaintTypeOK
<1>3. MaintTypeOK'
  BY <1>1, <1>2 DEF MaintTypeOK
<1>4. LookupLocked'
  BY <1>1 DEF LookupLocked, Admits
<1>5. StoreOfMap'
  <2> SUFFICES ASSUME ~raced', NEW g \in Handle, Using(g)' \/ Checked(g)' PROVE handle'[g].store = map'[HandleProc(g)]
    BY DEF StoreOfMap
  <2>1. g # h /\ handle'[g] = handle[g] /\ (Using(g) \/ Checked(g)) /\ handle[g].store = map[HandleProc(g)]
    BY <1>1 DEF StoreOfMap
  <2>2. map'[HandleProc(g)] = map[HandleProc(g)]
    BY <2>1, MaintNames DEF MaintTypeOK
  <2> QED
    BY <2>1, <2>2
<1>6. UnmountedUnused'
  BY <1>1, <1>2 DEF UnmountedUnused
<1>7. TasksInd'
  BY <1>1, HolderStepTasks
<1> QED
  BY <1>3, <1>4, <1>5, <1>6, <1>7, HoldersTasks DEF TasksInd

(* Dropping a handle counts it off first. *)
LEMMA DropCountInd ==
  ASSUME MaintInd, NEW h \in Handle, DropCount(h)
  PROVE  MaintInd'
<1> USE DEF MaintInd
<1> DEFINE p == HandleProc(h)
           left == IF Counts(h) THEN ops[p] - 1 ELSE ops[p]
           r == IF left = 0 THEN [handle[h] EXCEPT !.step = "decide", !.op = "lookup"] ELSE NoHandle
<1>1. /\ handle[h].step = "active" /\ handle' = [handle EXCEPT ![h] = r] /\ ops' = [ops EXCEPT ![p] = left]
      /\ UNCHANGED <<kind, present, mode, mounted, cfgLock, opsLock, map, job, command, changes, raced>>
  BY DEF DropCount, MaintTypeOK
<1>2. handle[h] \in HandleState
  BY DEF MaintTypeOK
<1>3. r \in HandleState /\ r.step \notin {"checked", "active"} /\ r.store \in {handle[h].store, MaintNone}
  BY <1>2, NoHandleIs DEF HandleState, Operation
<1> HIDE DEF r
<1>4. /\ \A g \in Handle \ {h} : Using(g)' <=> Using(g)
      /\ ~Using(h)'
  BY <1>1, <1>3, HandleTyped
<1>5. Using(h) <=> Counts(h)
  BY <1>1 DEF Using
<1>6. Counted'
  <2>1. CASE Counts(h)
    BY <2>1, <1>1, <1>4, <1>5, CountedLess
  <2>2. CASE ~Counts(h)
    <3>1. ops' = ops
      BY <2>2, <1>1 DEF MaintTypeOK
    <3> QED
      BY <2>2, <3>1, <1>4, <1>5, CountedSame
  <2> QED
    BY <2>1, <2>2
<1>7. ops' \in [Proc -> 0 .. Cardinality(Handle)]
  BY <1>1, <1>6, OpsType DEF MaintTypeOK
<1>8. ~Checked(h)
  BY <1>1 DEF Checked
<1> QED
  BY <1>1, <1>3, <1>6, <1>7, <1>8, HolderLeaves DEF MaintTypeOK

(* The last operation looks at the mode. *)
LEMMA DropDecideInd ==
  ASSUME MaintInd, NEW h \in Handle, DropDecide(h)
  PROVE  MaintInd'
<1> USE DEF MaintInd
<1> DEFINE r == IF ~present \/ mode \in ClearModes THEN [handle[h] EXCEPT !.step = "evict"] ELSE NoHandle
<1>1. /\ handle[h].step = "decide" /\ handle' = [handle EXCEPT ![h] = r]
      /\ UNCHANGED <<kind, present, mode, mounted, cfgLock, opsLock, ops, map, job, command, changes, raced>>
  BY DEF DropDecide, MaintTypeOK
<1>2. handle[h] \in HandleState
  BY DEF MaintTypeOK
<1>3. r \in HandleState /\ r.step \notin {"checked", "active"} /\ r.store \in {handle[h].store, MaintNone}
  BY <1>2, NoHandleIs DEF HandleState, Operation
<1> HIDE DEF r
<1>4. ~Checked(h) /\ ~Using(h) /\ Counted'
  <2>1. ~Checked(h) /\ ~Using(h)
    BY <1>1 DEF Checked, Using
  <2>2. \A g \in Handle : Using(g)' <=> Using(g)
    BY <1>1, <1>3, <2>1, HandleTyped
  <2> QED
    BY <1>1, <2>1, <2>2, CountedSame
<1> QED
  BY <1>1, <1>3, <1>4, HolderLeaves DEF MaintTypeOK

(* The instance is dropped from the map. *)
LEMMA DropEvictInd ==
  ASSUME MaintInd, NEW h \in Handle, DropEvict(h)
  PROVE  MaintInd'
<1> USE DEF MaintInd
<1> DEFINE p == HandleProc(h)
<1>1. /\ handle[h].step = "evict" /\ handle' = [handle EXCEPT ![h] = NoHandle] /\ map' = [map EXCEPT ![p] = MaintNone]
      /\ raced' = (raced \/ ops[p] > 0) /\ \A g \in Handle : ~(HandleProc(g) = p /\ Checked(g))
      /\ UNCHANGED <<kind, present, mode, mounted, cfgLock, opsLock, ops, job, command, changes>>
  BY DEF DropEvict, Checked
<1>2. ~Checked(h) /\ ~Using(h)
  BY <1>1 DEF Checked, Using
<1>3. \A g \in Handle : Using(g)' <=> Using(g)
  BY <1>1, <1>2, NoHandleIs, HandleTyped
<1>4. Counted'
  BY <1>1, <1>3, CountedSame
<1>5. \A g \in Handle : HandleProc(g) = p => raced' \/ ~Using(g)
  BY <1>1, NoneCounted, MaintNames
<1>6. raced' \in BOOLEAN /\ ops' \in [Proc -> 0 .. Cardinality(Handle)]
  BY <1>1 DEF MaintTypeOK
<1> QED
  BY <1>1, <1>2, <1>4, <1>5, <1>6, NoHandleIs, HolderLeaves

(* An entry of the map goes that no operation of the process uses. *)
LEMMA EntryRemovedInd ==
  ASSUME MaintInd, NEW p \in Proc, map' \in {map, [map EXCEPT ![p] = MaintNone]},
         raced' \in BOOLEAN, raced => raced', command' \subseteq Proc,
         map' # map => \A h \in Handle : HandleProc(h) = p => ~Checked(h) /\ (raced' \/ ~Using(h)),
         UNCHANGED <<kind, present, mode, mounted, cfgLock, opsLock, ops, handle, job, changes>>
  PROVE  MaintInd'
<1> USE DEF MaintInd
<1>1. map' \in [Proc -> MStore \cup {MaintNone}] /\ \A q \in Proc : map'[q] \in {map[q], MaintNone} /\ (q # p => map'[q] = map[q])
  BY DEF MaintTypeOK
<1>2. \A h \in Handle : (Using(h)' <=> Using(h)) /\ (Checked(h)' <=> Checked(h))
  BY DEF Using, Counts, Checked
<1>3. MaintTypeOK'
  BY <1>1 DEF MaintTypeOK
<1>4. Counted'
  BY <1>2, CountedSame
<1>5. LookupLocked'
  BY <1>2 DEF LookupLocked, Admits
<1>6. StoreOfMap'
  <2> SUFFICES ASSUME ~raced', NEW h \in Handle, Using(h) \/ Checked(h) PROVE handle[h].store = map'[HandleProc(h)]
    BY <1>2 DEF StoreOfMap
  <2>1. handle[h].store = map[HandleProc(h)]
    BY DEF StoreOfMap
  <2>2. map' = map \/ HandleProc(h) # p
    OBVIOUS
  <2> QED
    BY <2>1, <2>2, <1>1, MaintNames
<1>7. UnmountedUnused'
  BY <1>1 DEF UnmountedUnused
<1>8. TasksInd'
  BY <1>2, HolderStepTasks
<1> QED
  BY <1>3, <1>4, <1>5, <1>6, <1>7, <1>8, HoldersTasks DEF TasksInd

(* Nobody uses a device that is not mounted. *)
LEMMA UnmountedIdle ==
  ASSUME MaintInd, ~mounted, NEW h \in Handle
  PROVE  ~Checked(h) /\ ~Using(h)
  BY MaintNames DEF MaintInd, UnmountedUnused, LookupLocked, Checked, Using

(* The lookup finds the device missing. *)
LEMMA LookupNotMountedInd ==
  ASSUME MaintInd, NEW h \in Handle, LookupNotMounted(h)
  PROVE  MaintInd'
<1>1. HandleProc(h) \in Proc /\ ~mounted /\ map' = [map EXCEPT ![HandleProc(h)] = MaintNone]
      /\ UNCHANGED <<kind, present, mode, mounted, cfgLock, opsLock, ops, handle, job, command, changes, raced>>
  BY MaintNames DEF LookupNotMounted
<1>2. raced' \in BOOLEAN /\ command' \subseteq Proc
  BY <1>1 DEF MaintInd, MaintTypeOK
<1> QED
  BY <1>1, <1>2, UnmountedIdle, EntryRemovedInd

(* There is nothing to drop from the map. *)
LEMMA UpdateCacheNothingInd ==
  ASSUME MaintInd, NEW p \in Proc, UpdateCacheNothing(p)
  PROVE  MaintInd'
<1>1. /\ map' # map => ~mounted
      /\ map' \in {map, [map EXCEPT ![p] = MaintNone]}
      /\ command' = command \ {p}
      /\ UNCHANGED <<kind, present, mode, mounted, cfgLock, opsLock, ops, handle, job, changes, raced>>
  BY DEF UpdateCacheNothing
<1>2. raced' \in BOOLEAN /\ command' \subseteq Proc
  BY <1>1 DEF MaintInd, MaintTypeOK
<1> QED
  BY <1>1, <1>2, UnmountedIdle, EntryRemovedInd

(* An instance nobody uses is dropped from the map. *)
LEMMA RemoveUnusedInd ==
  ASSUME MaintInd, NEW p \in Proc, RemoveUnused(p)
  PROVE  MaintInd'
<1>1. /\ map' = [map EXCEPT ![p] = MaintNone] /\ raced' = (raced \/ ops[p] > 0)
      /\ \A g \in Handle : ~(HandleProc(g) = p /\ Checked(g))
      /\ UNCHANGED <<kind, present, mode, mounted, cfgLock, opsLock, ops, handle, job, command, changes>>
  BY DEF RemoveUnused, Checked
<1>2. \A g \in Handle : HandleProc(g) = p => raced' \/ ~Using(g)
  BY <1>1, NoneCounted DEF MaintInd
<1>3. raced' \in BOOLEAN /\ command' \subseteq Proc
  BY <1>1 DEF MaintInd, MaintTypeOK
<1> QED
  BY <1>1, <1>2, <1>3, EntryRemovedInd

(* A process ends, with all its operations. *)
LEMMA ProcessEndsInd ==
  ASSUME MaintInd, NEW p \in Proc, ProcessEnds(p)
  PROVE  MaintInd'
<1> USE DEF MaintInd
<1> DEFINE mine == {h \in Handle : HandleProc(h) = p}
<1>1. /\ handle' = [h \in Handle |-> IF h \in mine THEN NoHandle ELSE handle[h]]
      /\ ops' = [ops EXCEPT ![p] = 0] /\ map' = [map EXCEPT ![p] = MaintNone]
      /\ cfgLock' = IF cfgLock \in mine THEN MaintNone ELSE cfgLock
      /\ UNCHANGED <<kind, present, mode, mounted, opsLock, job, command, changes, raced>>
  BY DEF ProcessEnds
<1>2. /\ handle' \in [Handle -> HandleState]
      /\ \A h \in Handle : HandleProc(h) = p => handle'[h] = NoHandle
      /\ \A h \in Handle : HandleProc(h) # p => handle'[h] = handle[h]
  BY <1>1, NoHandleIs DEF MaintTypeOK
<1>3. /\ \A h \in Handle : HandleProc(h) = p => ~Using(h)' /\ ~Checked(h)'
      /\ \A h \in Handle : HandleProc(h) # p => (Using(h)' <=> Using(h)) /\ (Checked(h)' <=> Checked(h))
  BY <1>2, NoHandleIs DEF Using, Counts, Checked
<1>4. Counted'
  <2> SUFFICES ASSUME NEW q \in Proc PROVE ops'[q] = Cardinality(Active(q)')
    BY DEF Counted
  <2>1. CASE q = p
    <3>1. Active(q)' = {}
      BY <2>1, <1>3 DEF Active
    <3> QED
      BY <2>1, <3>1, <1>1, FS_EmptySet DEF MaintTypeOK
  <2>2. CASE q # p
    <3>1. Active(q)' = Active(q)
      BY <2>2, <1>3 DEF Active
    <3> QED
      BY <2>2, <3>1, <1>1 DEF MaintTypeOK, Counted
  <2> QED
    BY <2>1, <2>2
<1>5. ops' \in [Proc -> 0 .. Cardinality(Handle)]
  BY <1>1, <1>4, OpsType DEF MaintTypeOK
<1>6. map' \in [Proc -> MStore \cup {MaintNone}] /\ map'[p] = MaintNone /\ \A q \in Proc \ {p} : map'[q] = map[q]
  BY <1>1 DEF MaintTypeOK
<1>7. MaintTypeOK'
  BY <1>1, <1>2, <1>5, <1>6 DEF MaintTypeOK
<1>8. LookupLocked'
  BY <1>1, <1>2, <1>3, NoHandleIs DEF LookupLocked, Admits
<1>9. StoreOfMap'
  BY <1>1, <1>2, <1>3, <1>6, MaintNames DEF StoreOfMap
<1>10. UnmountedUnused'
  BY <1>1, <1>2, <1>6, NoHandleIs DEF UnmountedUnused
<1>11. TasksInd'
  <2>1. \A t \in Job : job[t] = "callback" => cfgLock' = cfgLock
    BY <1>1, MaintNames DEF TasksLocked
  <2> QED
    BY <1>1, <1>3, <2>1, HolderStepTasks
<1> QED
  BY <1>4, <1>7, <1>8, <1>9, <1>10, <1>11, HoldersTasks DEF TasksInd

(* Every step keeps the invariant. *)
LEMMA MaintStepInd == MaintInd /\ [MaintNext]_maintVars => MaintInd'
<1> SUFFICES ASSUME MaintInd, [MaintNext]_maintVars PROVE MaintInd'
  OBVIOUS
<1>1. CASE UNCHANGED maintVars
  <2>1. \A h \in Handle : (Using(h)' <=> Using(h)) /\ (Checked(h)' <=> Checked(h))
    BY <1>1 DEF maintVars, Using, Counts, Checked
  <2>2. Counted'
    BY <1>1, <2>1, CountedSame DEF maintVars, MaintInd
  <2> QED
    BY <1>1, <2>1, <2>2 DEF maintVars, MaintInd, MaintTypeOK, LookupLocked, TasksLocked, GoneDeleted, DestroyedUnused,
       QuietStays, StoreOfMap, UnmountedUnused, Admits, Mandated
<1>2. ASSUME NEW h \in Handle, NEW op \in Operation, LookupBegin(h, op) PROVE MaintInd'
  <2>1. command' \subseteq Proc
    BY <1>2 DEF LookupBegin, MaintInd, MaintTypeOK
  <2> QED
    BY <1>2, <2>1, LookupCheckedInd DEF LookupBegin
<1>3. ASSUME NEW h \in Handle, UpdateDatastoreCache(h) PROVE MaintInd'
  <2>1. command' \subseteq Proc /\ "lookup" \in Operation
    BY <1>3 DEF UpdateDatastoreCache, MaintInd, MaintTypeOK, Operation
  <2> QED
    BY <1>3, <2>1, LookupCheckedInd DEF UpdateDatastoreCache
<1>4. ASSUME NEW t \in Job, Unmount(t) \/ S3Refresh(t) PROVE MaintInd'
  <2>1. command' \subseteq Proc
    BY <1>4, MaintNames DEF Unmount, S3Refresh, MaintInd, MaintTypeOK
  <2> QED
    BY <1>4, <2>1, StartMaintenanceInd DEF Unmount, S3Refresh
<1>6. ASSUME NEW t \in Job, S3LookupFails(t) \/ \E h \in Handle : S3Lookup(t, h) PROVE MaintInd'
  BY <1>6, TaskOpensInd DEF S3LookupFails, S3Lookup
<1>5. CASE MaintNext
  BY <1>5, <1>2, <1>3, <1>4, <1>6, LookupFailsInd, LookupNotMountedInd, LookupCountInd, DropDecideInd, DropEvictInd, DropCountInd, CloneHandleInd,
     UpdateCacheNothingInd, RemoveUnusedInd, ProcessEndsInd, UpdateMaintenanceInd, PollInd, MaintenanceAbortedInd,
     ExpectMaintenanceInd, CallbackInd, CallbackFailsInd, DestroyMarkInd, DestroyCheckInd, DestroyEndsInd, MountInd
     DEF MaintNext, HandleStep
<1> QED
  BY <1>1, <1>5

(* The invariant says that operations are kept apart. *)
LEMMA MaintIndSafe == MaintInd => HandlesSafe
<1> SUFFICES ASSUME MaintInd PROVE NoLockCycle /\ MaintenanceQuiet /\ OneChunkStore
  BY DEF MaintInd, HandlesSafe
<1>1. NoLockCycle
  <2> SUFFICES ASSUME NEW h \in Handle, NEW t \in Job, handle[h].step = "checked", job[t] = "destroy" PROVE FALSE
    BY DEF NoLockCycle
  <2> QED
    BY DEF MaintInd, LookupLocked, TasksLocked, Checked, Admits
<1>2. MaintenanceQuiet
  BY DEF MaintInd, MaintenanceQuiet, QuietStays
<1>3. OneChunkStore
  BY DEF MaintInd, OneChunkStore, StoreOfMap
<1> QED
  BY <1>1, <1>2, <1>3

(* Operations and maintenance tasks keep out of each other's way, for any   *)
(* number of processes, holders and tasks.                                  *)
THEOREM OperationsKeptApart == MaintSpec => []HandlesSafe
<1>1. MaintSpec => []MaintInd
  BY MaintInitInd, MaintStepInd, PTL DEF MaintSpec
<1> QED
  BY <1>1, MaintIndSafe, PTL

-----------------------------------------------------------------------------
(* The LRU cache *)

(* A list of pointers stands for a sequence of keys. *)
ListRec == [map : SUBSET Key, head : Key \cup {Nil}, tail : Key \cup {Nil},
            next : [Key -> Key \cup {Nil}], prev : [Key -> Key \cup {Nil}]]
KeyAt(s, i) == IF i \in 1 .. Len(s) THEN s[i] ELSE Nil
StandsFor(l, s) ==
    /\ l \in ListRec /\ s \in Seq(Key)
    /\ l.map = {s[i] : i \in 1 .. Len(s)}
    /\ \A i, j \in 1 .. Len(s) : s[i] = s[j] => i = j
    /\ l.head = KeyAt(s, 1) /\ l.tail = KeyAt(s, Len(s))
    /\ \A i \in 1 .. Len(s) : l.next[s[i]] = KeyAt(s, i + 1) /\ l.prev[s[i]] = KeyAt(s, i - 1)

(* An access that has started a fetch is about a key. *)
OwnersKnown == \A a \in Access : access[a].owner => access[a].key \in Key
LruInd == CacheSafe /\ OwnersKnown

(* The pointers of the state are a list of the keys in order. *)
LEMMA NowStands ==
  ASSUME LruTypeOK
  PROVE  ListIsOrder <=> StandsFor(Now, lruOrder) /\ Len(lruOrder) <= Capacity
  BY DEF LruTypeOK, ListIsOrder, StandsFor, Now, KeyAt, ListRec

(* A key of the sequence has a position. *)
LEMMA PositionIs ==
  ASSUME NEW s \in Seq(Key), NEW p \in 1 .. Len(s), \A i, j \in 1 .. Len(s) : s[i] = s[j] => i = j
  PROVE  Position(s, s[p]) = p
  BY DEF Position

(* Taking out an element that occurs once: the elements before it stay      *)
(* where they are, those behind move up.                                    *)
LEMMA WithoutIs ==
  ASSUME NEW s \in Seq(Key), NEW p \in 1 .. Len(s), \A i, j \in 1 .. Len(s) : s[i] = s[j] => i = j
  PROVE  /\ Without(s, s[p]) \in Seq(Key) /\ Len(Without(s, s[p])) = Len(s) - 1
         /\ \A i \in 1 .. Len(s) - 1 : Without(s, s[p])[i] = s[IF i < p THEN i ELSE i + 1]
<1>1. Without(s, s[p]) = [i \in 1 .. Len(s) - 1 |-> s[IF i < p THEN i ELSE i + 1]]
  BY PositionIs DEF Without
<1> DEFINE w == [i \in 1 .. Len(s) - 1 |-> s[IF i < p THEN i ELSE i + 1]]
<1>2. Len(s) - 1 \in Nat /\ \A i \in 1 .. Len(s) - 1 : w[i] \in Key /\ w[i] = s[IF i < p THEN i ELSE i + 1]
  OBVIOUS
<1>3. w \in [1 .. Len(s) - 1 -> Key]
  BY <1>2
<1>4. w \in Seq(Key) /\ Len(w) = Len(s) - 1
  BY <1>2, <1>3
<1> QED
  BY <1>1, <1>2, <1>4

(* Putting an element in front. *)
LEMMA ConsIs ==
  ASSUME NEW s \in Seq(Key), NEW k \in Key
  PROVE  /\ <<k>> \o s \in Seq(Key) /\ Len(<<k>> \o s) = Len(s) + 1
         /\ \A i \in 1 .. Len(s) + 1 : (<<k>> \o s)[i] = IF i = 1 THEN k ELSE s[i - 1]
  OBVIOUS

(* What makes a list stand for a sequence. *)
LEMMA StandsIf ==
  ASSUME NEW l \in ListRec, NEW s \in Seq(Key),
         \A i \in 1 .. Len(s) : s[i] \in l.map,
         \A x \in l.map : \E i \in 1 .. Len(s) : s[i] = x,
         \A i, j \in 1 .. Len(s) : s[i] = s[j] => i = j,
         l.head = KeyAt(s, 1), l.tail = KeyAt(s, Len(s)),
         \A i \in 1 .. Len(s) : l.next[s[i]] = KeyAt(s, i + 1),
         \A i \in 1 .. Len(s) : l.prev[s[i]] = KeyAt(s, i - 1)
  PROVE  StandsFor(l, s)
  BY DEF StandsFor

(* bring_to_front *)
LEMMA BringToFrontStands ==
  ASSUME NEW l, NEW s, StandsFor(l, s), NEW k \in l.map
  PROVE  StandsFor(BringToFront(l, k), <<k>> \o Without(s, k)) /\ Len(<<k>> \o Without(s, k)) = Len(s)
<1>a. s \in Seq(Key) /\ Len(s) \in Nat /\ \A i \in 1 .. Len(s) : s[i] \in Key
  BY DEF StandsFor
<1>b. \A i, j \in 1 .. Len(s) : s[i] = s[j] => i = j
  BY DEF StandsFor
<1>c. /\ \A i \in 1 .. Len(s) : s[i] \in l.map
      /\ \A x \in l.map : \E i \in 1 .. Len(s) : s[i] = x
  BY DEF StandsFor
<1>d. l.head = KeyAt(s, 1) /\ l.tail = KeyAt(s, Len(s))
  BY DEF StandsFor
<1>e. /\ \A i \in 1 .. Len(s) : l.next[s[i]] = KeyAt(s, i + 1)
      /\ \A i \in 1 .. Len(s) : l.prev[s[i]] = KeyAt(s, i - 1)
  BY DEF StandsFor
<1>l. /\ l \in ListRec /\ l.map \subseteq Key /\ l.tail \in Key \cup {Nil}
      /\ l.next \in [Key -> Key \cup {Nil}] /\ l.prev \in [Key -> Key \cup {Nil}]
  BY DEF StandsFor, ListRec
<1>0. PICK p \in 1 .. Len(s) : k = s[p]
  BY <1>c
<1>k. k \in Key /\ Nil \notin Key
  BY <1>0, <1>a, RequestedAssumption
<1> DEFINE w == Without(s, k)  t == <<k>> \o w
<1>1. /\ t \in Seq(Key) /\ Len(t) = Len(s)
      /\ \A i \in 1 .. Len(s) : t[i] = IF i = 1 THEN k ELSE IF i =< p THEN s[i - 1] ELSE s[i]
  <2>1. w \in Seq(Key) /\ Len(w) = Len(s) - 1 /\ \A i \in 1 .. Len(s) - 1 : w[i] = s[IF i < p THEN i ELSE i + 1]
    BY <1>0, <1>a, <1>b, WithoutIs
  <2> HIDE DEF w
  <2>2. t \in Seq(Key) /\ Len(t) = Len(w) + 1 /\ \A i \in 1 .. Len(w) + 1 : t[i] = IF i = 1 THEN k ELSE w[i - 1]
    BY <2>1, <1>k, ConsIs
  <2> HIDE DEF t
  <2> QED
    BY SMTT(40), <2>1, <2>2, <1>a
<1> HIDE DEF t
<1>2. CASE k = l.head
  <2>1. p = 1
    <3>1. 1 \in 1 .. Len(s) /\ l.head = s[1]
      BY <1>0, <1>a, <1>d DEF KeyAt
    <3> QED
      BY <1>0, <1>2, <1>b, <3>1
  <2>2. t = s
    <3>1. \A i \in 1 .. Len(s) : t[i] = s[i]
      BY <1>0, <1>1, <2>1, <1>a
    <3> QED
      BY <3>1, <1>1, <1>a
  <2> QED
    BY <1>1, <1>2, <2>2 DEF BringToFront, t
<1>3. CASE k # l.head
  <2> DEFINE m == BringToFront(l, k)  a == l.prev[k]  b == l.next[k]
  <2>0. p # 1
    BY <1>0, <1>3, <1>a, <1>d DEF KeyAt
  <2>1. l.head = s[1] /\ l.head \in Key /\ a = s[p - 1] /\ a \in Key /\ b = KeyAt(s, p + 1) /\ b \in Key \cup {Nil}
    BY SMTT(40), <1>0, <2>0, <1>a, <1>d, <1>e DEF KeyAt
  <2>r. m = [l EXCEPT !.next = Write(Write(l.next, a, b), k, l.head),
                      !.prev = Write(Write(Write(l.prev, b, a), k, Nil), l.head, k),
                      !.tail = IF b = Nil THEN a ELSE l.tail, !.head = k]
    BY <1>3, <1>l DEF BringToFront, ListRec
  <2>n. /\ Write(Write(l.next, a, b), k, l.head) \in [Key -> Key \cup {Nil}]
        /\ \A x \in Key : Write(Write(l.next, a, b), k, l.head)[x] =
               IF x = k THEN l.head ELSE IF x = a THEN b ELSE l.next[x]
    BY <2>1, <1>l, <1>k DEF Write
  <2>p. /\ Write(Write(Write(l.prev, b, a), k, Nil), l.head, k) \in [Key -> Key \cup {Nil}]
        /\ \A x \in Key : Write(Write(Write(l.prev, b, a), k, Nil), l.head, k)[x] =
               IF x = l.head THEN k ELSE IF x = k THEN Nil ELSE IF x = b THEN a ELSE l.prev[x]
    BY <2>1, <1>l, <1>k DEF Write
  <2> DEFINE nn == Write(Write(l.next, a, b), k, l.head)  pp == Write(Write(Write(l.prev, b, a), k, Nil), l.head, k)
  <2>s. nn \in [Key -> Key \cup {Nil}] /\ pp \in [Key -> Key \cup {Nil}]
    BY <2>n, <2>p
  <2> HIDE DEF nn, pp
  <2>t. m = [l EXCEPT !.next = nn, !.prev = pp, !.tail = IF b = Nil THEN a ELSE l.tail, !.head = k]
    BY <2>r DEF nn, pp
  <2> HIDE DEF m, a, b
  <2>2. /\ m \in ListRec /\ m.map = l.map /\ m.head = k /\ m.tail = IF b = Nil THEN a ELSE l.tail
        /\ m.next = nn /\ m.prev = pp
    BY <2>t, <2>s, <1>l, <2>1, <1>k DEF ListRec
  <2>5. \A i, j \in 1 .. Len(t) : t[i] = t[j] => i = j
    BY SMTT(40), <1>0, <1>1, <1>a, <1>b
  <2>6. ASSUME NEW i \in 1 .. Len(t) PROVE t[i] \in m.map
    <3>1. PICK j \in 1 .. Len(s) : t[i] = s[j]
      <4>1. i = 1 \/ (i > 1 /\ i =< p) \/ i > p
        BY <1>0, <1>1, <1>a
      <4>2. CASE i > 1 /\ i =< p
        <5>1. i - 1 \in 1 .. Len(s) /\ t[i] = s[i - 1]
          BY <1>0, <1>1, <1>a, <4>2
        <5> QED
          BY <5>1
      <4> QED
        BY <1>0, <1>1, <1>a, <4>1, <4>2
    <3> QED
      BY <3>1, <2>2, <1>c
  <2>q. ASSUME NEW x \in m.map PROVE \E i \in 1 .. Len(t) : t[i] = x
    <3>1. PICK q \in 1 .. Len(s) : s[q] = x
      BY <2>2, <1>c
    <3>2. CASE q = p
      BY <1>0, <1>1, <1>a, <3>1, <3>2
    <3>3. CASE q < p
      <4>1. q + 1 \in 1 .. Len(t) /\ t[q + 1] = s[q]
        BY <1>1, <1>a, <3>3
      <4> QED
        BY <3>1, <4>1
    <3>4. CASE q > p
      BY <1>1, <1>a, <3>1, <3>4
    <3> QED
      BY <3>2, <3>3, <3>4
  <2>7. m.head = KeyAt(t, 1) /\ m.tail = KeyAt(t, Len(t))
    <3>1. m.head = KeyAt(t, 1)
      BY <1>0, <1>1, <1>a, <2>2 DEF KeyAt
    <3>2. l.tail = s[Len(s)]
      BY <1>0, <1>a, <1>d DEF KeyAt
    <3>3. b = Nil <=> p = Len(s)
      BY <1>0, <1>a, <1>k, <2>1 DEF KeyAt
    <3> QED
      BY <1>0, <1>1, <1>a, <2>0, <2>1, <2>2, <3>1, <3>2, <3>3 DEF KeyAt
  <2>8. ASSUME NEW i \in 1 .. Len(t) PROVE m.next[t[i]] = KeyAt(t, i + 1)
    <3>1. m.next[t[i]] = IF t[i] = k THEN l.head ELSE IF t[i] = a THEN b ELSE l.next[t[i]]
      BY <1>1, <2>2, <2>n DEF nn, a, b
    <3>3. CASE i = 1
      BY <1>0, <1>1, <1>a, <2>0, <2>1, <3>1, <3>3 DEF KeyAt
    <3>4. CASE i > 1 /\ i < p
      <4>0. i - 1 \in 1 .. Len(s) /\ i \in 1 .. Len(s) /\ p - 1 \in 1 .. Len(s) /\ (i - 1) + 1 = i /\ i - 1 # p - 1 /\ i - 1 # p
        BY <1>1, <1>a, <3>4
      <4>1. t[i] = s[i - 1] /\ t[i] # k /\ t[i] # a
        BY SMTT(40), <1>0, <1>1, <1>b, <2>1, <3>4, <4>0
      <4>2. l.next[t[i]] = s[i]
        BY <1>e, <4>0, <4>1 DEF KeyAt
      <4> QED
        BY <1>0, <1>1, <1>a, <3>1, <3>4, <4>1, <4>2 DEF KeyAt
    <3>5. CASE i > 1 /\ i = p
      <4>1. t[i] = a /\ t[i] # k
        BY <1>0, <1>1, <1>a, <1>b, <2>1, <3>5
      <4> QED
        BY <1>0, <1>1, <1>a, <2>1, <3>1, <3>5, <4>1 DEF KeyAt
    <3>6. CASE i > p
      <4>1. t[i] = s[i] /\ t[i] # k /\ t[i] # a
        BY SMTT(40), <1>0, <1>1, <1>a, <1>b, <2>0, <2>1, <3>6
      <4> QED
        BY <1>0, <1>1, <1>a, <3>1, <1>e, <3>6, <4>1 DEF KeyAt
    <3> QED
      BY <1>0, <1>1, <1>a, <3>3, <3>4, <3>5, <3>6
  <2>9. ASSUME NEW i \in 1 .. Len(t) PROVE m.prev[t[i]] = KeyAt(t, i - 1)
    <3>1. m.prev[t[i]] = IF t[i] = l.head THEN k ELSE IF t[i] = k THEN Nil ELSE IF t[i] = b THEN a ELSE l.prev[t[i]]
      BY <1>1, <2>2, <2>p DEF pp, a, b
    <3>3. CASE i = 1
      BY <1>0, <1>1, <1>3, <1>a, <3>1, <3>3 DEF KeyAt
    <3>4. CASE i = 2
      BY <1>0, <1>1, <1>a, <2>0, <2>1, <3>1, <3>4 DEF KeyAt
    <3>5. CASE i > 2 /\ i =< p
      <4>0. /\ i - 1 \in 1 .. Len(s) /\ i - 2 \in 1 .. Len(s) /\ (i - 1) - 1 = i - 2
            /\ 1 \in 1 .. Len(s) /\ i - 1 # 1 /\ i - 1 # p /\ i - 1 # p + 1
        BY <1>1, <1>a, <3>5
      <4>1. t[i] = s[i - 1] /\ t[i] # k /\ t[i] # l.head /\ t[i - 1] = s[i - 2]
        BY SMTT(40), <1>0, <1>1, <1>b, <2>1, <3>5, <4>0
      <4>2. t[i] # b
        BY SMTT(40), <1>a, <1>b, <1>k, <2>1, <4>0, <4>1 DEF KeyAt
      <4>3. l.prev[t[i]] = s[i - 2]
        BY <1>e, <4>0, <4>1 DEF KeyAt
      <4> QED
        BY <1>0, <1>1, <1>a, <3>1, <3>5, <4>1, <4>2, <4>3 DEF KeyAt
    <3>6. CASE i > 2 /\ i = p + 1
      <4>1. t[i] = b /\ t[i] # k /\ t[i] # l.head /\ t[i - 1] = a
        BY <1>0, <1>1, <1>a, <1>b, <2>0, <2>1, <3>6 DEF KeyAt
      <4> QED
        BY <1>0, <1>1, <1>a, <2>1, <3>1, <3>6, <4>1 DEF KeyAt
    <3>7. CASE i > p + 1
      <4>0. /\ i \in 1 .. Len(s) /\ i - 1 \in 1 .. Len(s) /\ 1 \in 1 .. Len(s) /\ i # 1 /\ i # p /\ i # p + 1
        BY <1>1, <1>a, <3>7
      <4>1. t[i] = s[i] /\ t[i] # k /\ t[i] # l.head /\ t[i - 1] = s[i - 1]
        BY <1>0, <1>1, <1>b, <2>1, <3>7, <4>0
      <4>2. t[i] # b
        BY <1>a, <1>b, <1>k, <2>1, <4>0, <4>1 DEF KeyAt
      <4>3. l.prev[t[i]] = s[i - 1]
        BY <1>e, <4>0, <4>1 DEF KeyAt
      <4> QED
        BY <1>0, <1>1, <1>a, <3>1, <3>7, <4>1, <4>2, <4>3 DEF KeyAt
    <3> QED
      BY <1>0, <1>1, <1>a, <2>0, <3>3, <3>4, <3>5, <3>6, <3>7
  <2>z. StandsFor(m, t)
    BY <1>1, <2>2, <2>5, <2>6, <2>7, <2>8, <2>9, <2>q, StandsIf
  <2> QED
    BY <1>1, <2>z DEF m, t
<1> QED
  BY <1>2, <1>3

(* push_front *)
LEMMA PushFrontStands ==
  ASSUME NEW l, NEW s, StandsFor(l, s), NEW k \in Key \ l.map
  PROVE  StandsFor(PushFront(l, k), <<k>> \o s) /\ Len(<<k>> \o s) = Len(s) + 1
<1>a. s \in Seq(Key) /\ Len(s) \in Nat /\ \A i \in 1 .. Len(s) : s[i] \in Key
  BY DEF StandsFor
<1>b. \A i, j \in 1 .. Len(s) : s[i] = s[j] => i = j
  BY DEF StandsFor
<1>c. /\ \A i \in 1 .. Len(s) : s[i] \in l.map
      /\ \A x \in l.map : \E i \in 1 .. Len(s) : s[i] = x
  BY DEF StandsFor
<1>d. l.head = KeyAt(s, 1) /\ l.tail = KeyAt(s, Len(s))
  BY DEF StandsFor
<1>e. /\ \A i \in 1 .. Len(s) : l.next[s[i]] = KeyAt(s, i + 1)
      /\ \A i \in 1 .. Len(s) : l.prev[s[i]] = KeyAt(s, i - 1)
  BY DEF StandsFor
<1>l. /\ l \in ListRec /\ l.map \subseteq Key /\ l.head \in Key \cup {Nil} /\ l.tail \in Key \cup {Nil}
      /\ l.next \in [Key -> Key \cup {Nil}] /\ l.prev \in [Key -> Key \cup {Nil}]
  BY DEF StandsFor, ListRec
<1>k. Nil \notin Key /\ k \in Key /\ k \notin l.map
  BY RequestedAssumption
<1> DEFINE t == <<k>> \o s  m == PushFront(l, k)
<1>1. t \in Seq(Key) /\ Len(t) = Len(s) + 1 /\ \A i \in 1 .. Len(s) + 1 : t[i] = IF i = 1 THEN k ELSE s[i - 1]
  BY <1>a, ConsIs
<1> HIDE DEF t
<1> DEFINE nn == Write(l.next, k, l.head)  pp == Write(Write(l.prev, k, Nil), l.head, k)
<1>2. /\ nn \in [Key -> Key \cup {Nil}]
      /\ \A x \in Key : nn[x] = IF x = k THEN l.head ELSE l.next[x]
  BY <1>l, <1>k DEF Write
<1>3. /\ pp \in [Key -> Key \cup {Nil}]
      /\ \A x \in Key : pp[x] = IF x = l.head THEN k ELSE IF x = k THEN Nil ELSE l.prev[x]
  BY <1>l, <1>k DEF Write
<1>4. m = [l EXCEPT !.next = nn, !.prev = pp, !.head = k, !.tail = IF l.tail = Nil THEN k ELSE l.tail, !.map = l.map \cup {k}]
  BY <1>l DEF PushFront, ListRec
<1> HIDE DEF nn, pp, m
<1>5. /\ m \in ListRec /\ m.map = l.map \cup {k} /\ m.head = k /\ m.tail = IF l.tail = Nil THEN k ELSE l.tail
      /\ m.next = nn /\ m.prev = pp
  BY <1>4, <1>2, <1>3, <1>l, <1>k DEF ListRec
<1>6. ASSUME NEW i \in 1 .. Len(t) PROVE i = 1 \/ (i > 1 /\ i - 1 \in 1 .. Len(s) /\ t[i] = s[i - 1])
  BY <1>1, <1>a
<1>7. ASSUME NEW i \in 1 .. Len(t) PROVE t[i] \in m.map
  BY SMTT(40), <1>6, <1>1, <1>5, <1>c
<1>8. ASSUME NEW x \in m.map PROVE \E i \in 1 .. Len(t) : t[i] = x
  <2>1. CASE x = k
    BY <1>1, <1>a, <2>1
  <2>2. CASE x # k
    <3>1. PICK q \in 1 .. Len(s) : s[q] = x
      BY <1>5, <1>c, <2>2
    <3>2. q + 1 \in 1 .. Len(t) /\ t[q + 1] = s[q]
      BY <1>1, <1>a
    <3> QED
      BY <3>1, <3>2
  <2> QED
    BY <2>1, <2>2
<1>9. ASSUME NEW i \in 1 .. Len(t), NEW j \in 1 .. Len(t), t[i] = t[j] PROVE i = j
  <2>0. \A h \in 1 .. Len(t) : t[h] = k => h = 1
    BY SMTT(40), <1>6, <1>c, <1>k
  <2>1. CASE i = 1
    <3>1. t[j] = k
      BY <1>1, <1>9, <1>a, <2>1
    <3> QED
      BY <2>0, <2>1, <3>1
  <2>2. CASE j = 1
    <3>1. t[i] = k
      BY <1>1, <1>9, <1>a, <2>2
    <3> QED
      BY <2>0, <2>2, <3>1
  <2>3. CASE i # 1 /\ j # 1
    <3>1. i - 1 = j - 1
      BY <1>6, <1>9, <1>b, <2>3
    <3> QED
      BY <3>1
  <2> QED
    BY <2>1, <2>2, <2>3
<1>10. m.head = KeyAt(t, 1) /\ m.tail = KeyAt(t, Len(t))
  <2>1. m.head = KeyAt(t, 1)
    BY <1>1, <1>5, <1>a DEF KeyAt
  <2>2. m.tail = KeyAt(t, Len(t))
    <3>1. CASE Len(s) = 0
      BY <1>1, <1>5, <1>d, <3>1 DEF KeyAt
    <3>2. CASE Len(s) # 0
      <4>1. Len(s) \in 1 .. Len(s) /\ l.tail = s[Len(s)] /\ l.tail # Nil
        BY <1>a, <1>d, <1>k, <3>2 DEF KeyAt
      <4>2. Len(t) \in 1 .. Len(t) /\ t[Len(t)] = s[Len(s)]
        BY <1>1, <1>a, <3>2
      <4> QED
        BY <1>5, <4>1, <4>2 DEF KeyAt
    <3> QED
      BY <3>1, <3>2
  <2> QED
    BY <2>1, <2>2
<1>11. ASSUME NEW i \in 1 .. Len(t) PROVE m.next[t[i]] = KeyAt(t, i + 1)
  <2>1. CASE i = 1
    BY <1>1, <1>2, <1>5, <1>a, <1>d, <1>k, <2>1 DEF KeyAt
  <2>2. CASE i # 1
    <3>1. i - 1 \in 1 .. Len(s) /\ t[i] = s[i - 1] /\ t[i] # k /\ t[i] \in Key /\ (i - 1) + 1 = i
      BY <1>6, <1>a, <1>c, <1>k, <2>2
    <3>2. m.next[t[i]] = KeyAt(s, i)
      BY <1>2, <1>5, <1>e, <3>1
    <3> QED
      BY SMTT(40), <1>1, <1>a, <3>1, <3>2 DEF KeyAt
  <2> QED
    BY <2>1, <2>2
<1>12. ASSUME NEW i \in 1 .. Len(t) PROVE m.prev[t[i]] = KeyAt(t, i - 1)
  <2>1. CASE i = 1
    <3>1. k # l.head
      BY <1>a, <1>c, <1>d, <1>k DEF KeyAt
    <3> QED
      BY <1>1, <1>3, <1>5, <1>a, <1>k, <2>1, <3>1 DEF KeyAt
  <2>2. CASE i = 2
    <3>1. t[i] = s[1] /\ l.head = s[1] /\ s[1] \in Key
      BY <1>6, <1>1, <1>a, <1>d, <2>2 DEF KeyAt
    <3> QED
      BY <1>1, <1>3, <1>5, <1>a, <2>2, <3>1 DEF KeyAt
  <2>3. CASE i > 2
    <3>4. i - 1 \in 1 .. Len(s) /\ t[i] = s[i - 1]
      BY <1>6, <1>1, <1>a, <2>3
    <3>1. /\ i - 1 \in 1 .. Len(s) /\ t[i] = s[i - 1] /\ t[i] # k /\ t[i] \in Key
          /\ i - 2 \in 1 .. Len(s) /\ (i - 1) - 1 = i - 2 /\ i - 1 # 1 /\ 1 \in 1 .. Len(s)
      <4>1. t[i] # k /\ t[i] \in Key
        BY <1>a, <1>c, <1>k, <3>4
      <4>2. i - 2 \in 1 .. Len(s) /\ (i - 1) - 1 = i - 2 /\ i - 1 # 1 /\ 1 \in 1 .. Len(s)
        BY <1>1, <1>a, <2>3, <3>4
      <4> QED
        BY <3>4, <4>1, <4>2
    <3>0. l.head = s[1]
      BY <1>d, <3>1 DEF KeyAt
    <3>2. t[i] # l.head
      BY <1>b, <3>0, <3>1
    <3>3. m.prev[t[i]] = s[i - 2]
      BY SMTT(40), <1>3, <1>5, <1>e, <3>1, <3>2 DEF KeyAt
    <3> QED
      BY <1>1, <1>a, <2>3, <3>1, <3>3 DEF KeyAt
  <2> QED
    BY <1>1, <1>a, <2>1, <2>2, <2>3
<1>13. StandsFor(m, t)
  BY <1>1, <1>5, <1>7, <1>8, <1>9, <1>10, <1>11, <1>12, StandsIf
<1> QED
  BY <1>1, <1>13 DEF m, t

(* remove *)
LEMMA RemoveNodeStands ==
  ASSUME NEW l, NEW s, StandsFor(l, s), NEW k \in l.map
  PROVE  StandsFor(RemoveNode(l, k), Without(s, k)) /\ Len(Without(s, k)) = Len(s) - 1
<1>a. s \in Seq(Key) /\ Len(s) \in Nat /\ \A i \in 1 .. Len(s) : s[i] \in Key
  BY DEF StandsFor
<1>b. \A i, j \in 1 .. Len(s) : s[i] = s[j] => i = j
  BY DEF StandsFor
<1>c. /\ \A i \in 1 .. Len(s) : s[i] \in l.map
      /\ \A x \in l.map : \E i \in 1 .. Len(s) : s[i] = x
  BY DEF StandsFor
<1>d. l.head = KeyAt(s, 1) /\ l.tail = KeyAt(s, Len(s))
  BY DEF StandsFor
<1>e. /\ \A i \in 1 .. Len(s) : l.next[s[i]] = KeyAt(s, i + 1)
      /\ \A i \in 1 .. Len(s) : l.prev[s[i]] = KeyAt(s, i - 1)
  BY DEF StandsFor
<1>l. /\ l \in ListRec /\ l.map \subseteq Key /\ l.head \in Key \cup {Nil} /\ l.tail \in Key \cup {Nil}
      /\ l.next \in [Key -> Key \cup {Nil}] /\ l.prev \in [Key -> Key \cup {Nil}]
  BY DEF StandsFor, ListRec
<1>0. PICK p \in 1 .. Len(s) : k = s[p]
  BY <1>c
<1>k. k \in Key /\ Nil \notin Key
  BY <1>0, <1>a, RequestedAssumption
<1> DEFINE t == Without(s, k)  m == RemoveNode(l, k)  a == l.prev[k]  b == l.next[k]
<1>1. t \in Seq(Key) /\ Len(t) = Len(s) - 1 /\ \A i \in 1 .. Len(s) - 1 : t[i] = s[IF i < p THEN i ELSE i + 1]
  BY <1>0, <1>a, <1>b, WithoutIs
<1> HIDE DEF t
<1>2. a = KeyAt(s, p - 1) /\ b = KeyAt(s, p + 1) /\ a \in Key \cup {Nil} /\ b \in Key \cup {Nil}
  BY <1>0, <1>e, <1>l, <1>k
<1> DEFINE nn == Write(Write(l.next, a, b), k, Nil)  pp == Write(Write(l.prev, b, a), k, Nil)
<1>3. /\ nn \in [Key -> Key \cup {Nil}]
      /\ \A x \in Key : nn[x] = IF x = k THEN Nil ELSE IF x = a THEN b ELSE l.next[x]
  BY <1>l, <1>k, <1>2 DEF Write
<1>4. /\ pp \in [Key -> Key \cup {Nil}]
      /\ \A x \in Key : pp[x] = IF x = k THEN Nil ELSE IF x = b THEN a ELSE l.prev[x]
  BY <1>l, <1>k, <1>2 DEF Write
<1>5. m = [l EXCEPT !.next = nn, !.prev = pp, !.head = IF a = Nil THEN b ELSE l.head,
                    !.tail = IF b = Nil THEN a ELSE l.tail, !.map = l.map \ {k}]
  BY <1>l DEF RemoveNode, ListRec
<1> HIDE DEF nn, pp, m, a, b
<1>6. /\ m \in ListRec /\ m.map = l.map \ {k} /\ m.head = (IF a = Nil THEN b ELSE l.head)
      /\ m.tail = (IF b = Nil THEN a ELSE l.tail) /\ m.next = nn /\ m.prev = pp
  BY ZenonT(60), <1>5, <1>2, <1>3, <1>4, <1>l, <1>k DEF ListRec
<1>7. ASSUME NEW i \in 1 .. Len(t)
      PROVE \/ i < p /\ i \in 1 .. Len(s) /\ t[i] = s[i]
            \/ i >= p /\ i + 1 \in 1 .. Len(s) /\ t[i] = s[i + 1]
  BY SMTT(40), <1>1, <1>a
<1>8. ASSUME NEW i \in 1 .. Len(t) PROVE t[i] \in m.map
  <2>1. PICK q \in 1 .. Len(s) : q # p /\ t[i] = s[q]
    BY <1>7, <1>a
  <2> QED
    BY <1>0, <1>6, <1>b, <1>c, <2>1
<1>9. ASSUME NEW x \in m.map PROVE \E i \in 1 .. Len(t) : t[i] = x
  <2>1. PICK q \in 1 .. Len(s) : s[q] = x /\ q # p
    BY <1>0, <1>6, <1>c
  <2>2. CASE q < p
    <3>1. q \in 1 .. Len(t) /\ t[q] = s[q]
      BY <1>1, <1>a, <2>2
    <3> QED
      BY <2>1, <3>1
  <2>3. CASE q > p
    <3>1. q - 1 \in 1 .. Len(t) /\ t[q - 1] = s[q]
      BY <1>1, <1>a, <2>3
    <3> QED
      BY <2>1, <3>1
  <2> QED
    BY <2>1, <2>2, <2>3
<1>10. \A i, j \in 1 .. Len(t) : t[i] = t[j] => i = j
  BY SMTT(40), <1>1, <1>a, <1>b
<1>11. m.head = KeyAt(t, 1)
  <2>1. a = Nil <=> p = 1
    BY <1>0, <1>2, <1>a, <1>k DEF KeyAt
  <2> QED
    BY <1>0, <1>1, <1>2, <1>6, <1>a, <1>d, <2>1 DEF KeyAt
<1>12. m.tail = KeyAt(t, Len(t))
  <2>1. b = Nil <=> p = Len(s)
    BY <1>0, <1>2, <1>a, <1>k DEF KeyAt
  <2> QED
    BY SMTT(40), <1>0, <1>1, <1>2, <1>6, <1>a, <1>d, <2>1 DEF KeyAt
<1>13. ASSUME NEW i \in 1 .. Len(t) PROVE m.next[t[i]] = KeyAt(t, i + 1)
  <2>0. t[i] \in Key /\ t[i] # k /\ m.next[t[i]] = IF t[i] = a THEN b ELSE l.next[t[i]]
    BY <1>3, <1>6, <1>8, <1>l
  <2>1. CASE i < p - 1
    <3>1. i \in 1 .. Len(s) /\ p - 1 \in 1 .. Len(s) /\ t[i] = s[i] /\ i + 1 \in 1 .. Len(t) /\ t[i + 1] = s[i + 1] /\ i + 1 \in 1 .. Len(s) /\ i # p - 1
      BY SMTT(40), <1>1, <1>a, <2>1
    <3>2. t[i] # a
      BY <1>2, <1>b, <3>1 DEF KeyAt
    <3> QED
      BY <1>e, <2>0, <3>1, <3>2 DEF KeyAt
  <2>2. CASE i = p - 1
    <3>1. t[i] = a
      BY SMTT(40), <1>1, <1>2, <1>a, <2>2 DEF KeyAt
    <3> QED
      BY <1>1, <1>2, <1>a, <2>0, <2>2, <3>1 DEF KeyAt
  <2>3. CASE i >= p
    <3>1. i + 1 \in 1 .. Len(s) /\ t[i] = s[i + 1] /\ i + 1 # p - 1 /\ (p - 1 \in 1 .. Len(s) \/ p = 1)
      <4>1. i + 1 \in 1 .. Len(s) /\ t[i] = s[i + 1]
        BY <1>7, <2>3, <1>a
      <4>2. i \in Nat /\ i >= p /\ p \in Nat /\ 1 <= p /\ p <= Len(s) /\ Len(s) \in Nat
        BY <1>1, <1>a, <2>3
      <4> QED
        BY <4>1, <4>2
    <3>2. t[i] # a
      BY <1>2, <1>b, <1>k, <2>0, <3>1 DEF KeyAt
    <3>3. m.next[t[i]] = KeyAt(s, (i + 1) + 1)
      BY <1>e, <2>0, <3>1, <3>2
    <3> QED
      BY <1>1, <1>a, <2>3, <3>3 DEF KeyAt
  <2> QED
    BY <1>1, <1>a, <2>1, <2>2, <2>3
<1>14. ASSUME NEW i \in 1 .. Len(t) PROVE m.prev[t[i]] = KeyAt(t, i - 1)
  <2>0. t[i] \in Key /\ t[i] # k /\ m.prev[t[i]] = IF t[i] = b THEN a ELSE l.prev[t[i]]
    BY <1>4, <1>6, <1>8, <1>l
  <2>1. CASE i < p
    <3>1. i \in 1 .. Len(s) /\ t[i] = s[i] /\ i # p + 1
      BY SMTT(40), <1>1, <1>a, <2>1
    <3>2. t[i] # b
      BY <1>2, <1>b, <1>k, <2>0, <3>1 DEF KeyAt
    <3>3. m.prev[t[i]] = KeyAt(s, i - 1)
      BY <1>e, <2>0, <3>1, <3>2
    <3> QED
      BY SMTT(40), <1>1, <1>a, <2>1, <3>3 DEF KeyAt
  <2>2. CASE i = p
    <3>1. t[i] = b
      BY SMTT(40), <1>1, <1>2, <1>a, <2>2 DEF KeyAt
    <3> QED
      BY <1>1, <1>2, <1>a, <2>0, <2>2, <3>1 DEF KeyAt
  <2>3. CASE i > p
    <3>1. i + 1 \in 1 .. Len(s) /\ t[i] = s[i + 1] /\ i + 1 # p + 1 /\ (i + 1) - 1 = i /\ i \in 1 .. Len(s)
      BY SMTT(40), <1>1, <1>a, <2>3
    <3>2. t[i] # b
      BY <1>2, <1>b, <1>k, <2>0, <3>1 DEF KeyAt
    <3>3. m.prev[t[i]] = s[i]
      BY <1>e, <2>0, <3>1, <3>2 DEF KeyAt
    <3> QED
      BY <1>1, <1>a, <2>3, <3>3 DEF KeyAt
  <2> QED
    BY <1>1, <1>a, <2>1, <2>2, <2>3
<1>15. StandsFor(m, t)
  BY <1>1, <1>6, <1>8, <1>9, <1>10, <1>11, <1>12, <1>13, <1>14, StandsIf
<1> QED
  BY <1>1, <1>15 DEF m, t

(* pop_tail, when the list has more than one node *)
LEMMA PopTailStands ==
  ASSUME NEW l, NEW s, StandsFor(l, s), Len(s) > 1
  PROVE  StandsFor(PopTail(l), SubSeq(s, 1, Len(s) - 1)) /\ Len(SubSeq(s, 1, Len(s) - 1)) = Len(s) - 1
<1>a. s \in Seq(Key) /\ Len(s) \in Nat /\ \A i \in 1 .. Len(s) : s[i] \in Key
  BY DEF StandsFor
<1>b. \A i, j \in 1 .. Len(s) : s[i] = s[j] => i = j
  BY DEF StandsFor
<1>c. /\ \A i \in 1 .. Len(s) : s[i] \in l.map
      /\ \A x \in l.map : \E i \in 1 .. Len(s) : s[i] = x
  BY DEF StandsFor
<1>d. l.head = KeyAt(s, 1) /\ l.tail = KeyAt(s, Len(s))
  BY DEF StandsFor
<1>e. /\ \A i \in 1 .. Len(s) : l.next[s[i]] = KeyAt(s, i + 1)
      /\ \A i \in 1 .. Len(s) : l.prev[s[i]] = KeyAt(s, i - 1)
  BY DEF StandsFor
<1>l. /\ l \in ListRec /\ l.map \subseteq Key /\ l.head \in Key \cup {Nil} /\ l.tail \in Key \cup {Nil}
      /\ l.next \in [Key -> Key \cup {Nil}] /\ l.prev \in [Key -> Key \cup {Nil}]
  BY DEF StandsFor, ListRec
<1> DEFINE n == Len(s)  t == SubSeq(s, 1, Len(s) - 1)  m == PopTail(l)  k == l.tail  a == l.prev[l.tail]
<1>1. t \in Seq(Key) /\ Len(t) = Len(s) - 1 /\ \A i \in 1 .. Len(s) - 1 : t[i] = s[i]
  BY <1>a
<1> HIDE DEF t
<1>2. k = s[Len(s)] /\ Len(s) \in 1 .. Len(s) /\ Len(s) - 1 \in 1 .. Len(s)
  BY <1>a, <1>d DEF KeyAt
<1>3. a = s[Len(s) - 1] /\ a \in Key /\ k \in Key /\ Nil \notin Key /\ a # k
  BY <1>2, <1>a, <1>b, <1>e, RequestedAssumption DEF KeyAt
<1> DEFINE nn == Write(Write(l.next, a, Nil), k, Nil)  pp == Write(l.prev, k, Nil)
<1>4. nn \in [Key -> Key \cup {Nil}] /\ \A x \in Key : nn[x] = IF x = k \/ x = a THEN Nil ELSE l.next[x]
  BY <1>l, <1>3 DEF Write
<1>5. pp \in [Key -> Key \cup {Nil}] /\ \A x \in Key : pp[x] = IF x = k THEN Nil ELSE l.prev[x]
  BY <1>l, <1>3 DEF Write
<1>6. m = [l EXCEPT !.next = nn, !.prev = pp, !.tail = a, !.map = l.map \ {k}]
  BY <1>l DEF PopTail, ListRec
<1> HIDE DEF nn, pp, m, a, k
<1>7. m \in ListRec /\ m.map = l.map \ {k} /\ m.head = l.head /\ m.tail = a /\ m.next = nn /\ m.prev = pp
  BY <1>6, <1>3, <1>4, <1>5, <1>l DEF ListRec
<1>8. ASSUME NEW i \in 1 .. Len(t)
      PROVE i \in 1 .. Len(s) /\ i # Len(s) /\ t[i] = s[i] /\ t[i] \in Key /\ t[i] # k
  BY <1>1, <1>2, <1>a, <1>b
<1>9. ASSUME NEW i \in 1 .. Len(t) PROVE t[i] \in m.map
  BY <1>8, <1>7, <1>c
<1>10. ASSUME NEW x \in m.map PROVE \E i \in 1 .. Len(t) : t[i] = x
  <2>1. PICK q \in 1 .. Len(s) : s[q] = x
    BY <1>7, <1>c
  <2>2. q \in 1 .. Len(t)
    BY <1>1, <1>2, <1>7, <1>a, <2>1
  <2> QED
    BY <1>8, <2>1, <2>2
<1>11. \A i, j \in 1 .. Len(t) : t[i] = t[j] => i = j
  BY <1>8, <1>b
<1>12. m.head = KeyAt(t, 1) /\ m.tail = KeyAt(t, Len(t))
  BY <1>1, <1>2, <1>3, <1>7, <1>a, <1>d DEF KeyAt
<1>13. ASSUME NEW i \in 1 .. Len(t) PROVE m.next[t[i]] = KeyAt(t, i + 1)
  <2>1. CASE i = Len(t)
    BY <1>1, <1>3, <1>4, <1>7, <1>8, <1>a, <2>1 DEF KeyAt
  <2>2. CASE i # Len(t)
    <3>1. i # Len(s) - 1 /\ i + 1 \in 1 .. Len(t) /\ t[i + 1] = s[i + 1] /\ i + 1 \in 1 .. Len(s)
      BY <1>1, <1>a, <2>2
    <3>2. t[i] # a
      BY <1>2, <1>3, <1>8, <1>b, <3>1
    <3> QED
      BY SMTT(40), <1>4, <1>7, <1>8, <1>e, <3>1, <3>2 DEF KeyAt
  <2> QED
    BY <2>1, <2>2
<1>14. ASSUME NEW i \in 1 .. Len(t) PROVE m.prev[t[i]] = KeyAt(t, i - 1)
  <2>1. m.prev[t[i]] = KeyAt(s, i - 1)
    BY <1>5, <1>7, <1>8, <1>e
  <2> QED
    BY <1>1, <1>a, <2>1 DEF KeyAt
<1>15. StandsFor(m, t)
  BY <1>1, <1>7, <1>9, <1>10, <1>11, <1>12, <1>13, <1>14, StandsIf
<1> QED
  BY <1>1, <1>15 DEF m, t

(* Initially the list is empty. *)
LEMMA LruInitInd == LruInit => LruInd
<1> SUFFICES ASSUME LruInit PROVE LruInd
  OBVIOUS
<1> USE RequestedAssumption DEF LruInit, NoAccess
<1>1. LruTypeOK
  BY DEF LruTypeOK, Outcome
<1>2. ListIsOrder
  BY DEF ListIsOrder, Capacity
<1>3. OneFetch /\ OwnersKnown
  BY DEF OneFetch, OwnersKnown
<1> QED
  BY <1>1, <1>2, <1>3 DEF LruInd, CacheSafe

(* The state becomes a list that stands for a sequence. *)
LEMMA BecomeStands ==
  ASSUME NEW l, NEW s, StandsFor(l, s), Len(s) <= Capacity, Become(l, s)
  PROVE  StandsFor(Now, lruOrder)' /\ Len(lruOrder)' <= Capacity
<1>1. l \in ListRec
  BY DEF StandsFor
<1>2. Now' = l /\ lruOrder' = s
  BY <1>1, Zenon DEF Become, Now, ListRec
<1> QED
  BY <1>2 DEF StandsFor, ListRec, KeyAt

(* What the operations of the cache do to the list. *)
LEMMA ListSteps ==
  ASSUME LruTypeOK, ListIsOrder, NEW k \in Key,
         \/ Insert(k)
         \/ k \in lruMap /\ Become(BringToFront(Now, k), <<k>> \o Without(lruOrder, k))
         \/ k \in lruMap /\ Become(RemoveNode(Now, k), Without(lruOrder, k))
  PROVE  StandsFor(Now, lruOrder)' /\ Len(lruOrder)' <= Capacity
<1>1. StandsFor(Now, lruOrder) /\ Len(lruOrder) <= Capacity /\ Len(lruOrder) \in Nat
  BY NowStands DEF LruTypeOK
<1>2. Now.map = lruMap
  BY DEF Now
<1>3. Capacity \in Nat \ {0}
  BY RequestedAssumption DEF Capacity
<1>4. CASE k \in lruMap /\ Become(BringToFront(Now, k), <<k>> \o Without(lruOrder, k))
  <2>1. StandsFor(BringToFront(Now, k), <<k>> \o Without(lruOrder, k)) /\ Len(<<k>> \o Without(lruOrder, k)) = Len(lruOrder)
    BY <1>1, <1>2, <1>4, BringToFrontStands
  <2> QED
    BY <1>1, <1>4, <2>1, BecomeStands
<1>5. CASE k \in lruMap /\ Become(RemoveNode(Now, k), Without(lruOrder, k))
  <2>1. StandsFor(RemoveNode(Now, k), Without(lruOrder, k)) /\ Len(Without(lruOrder, k)) = Len(lruOrder) - 1
    BY <1>1, <1>2, <1>5, RemoveNodeStands
  <2>2. Len(Without(lruOrder, k)) <= Capacity
    BY <1>1, <1>3, <2>1
  <2> QED
    BY <1>5, <2>1, <2>2, BecomeStands
<1>6. CASE Insert(k) /\ k \notin lruMap
  <2> DEFINE l == PushFront(Now, k)  order == <<k>> \o lruOrder
  <2>1. StandsFor(l, order) /\ Len(order) = Len(lruOrder) + 1
    BY <1>1, <1>2, <1>6, PushFrontStands
  <2>2. CASE Overfull(l)
    <3>1. Len(order) > 1
      BY <1>1, <1>3, <2>1, <2>2 DEF Overfull
    <3>2. StandsFor(PopTail(l), SubSeq(order, 1, Len(order) - 1)) /\ Len(SubSeq(order, 1, Len(order) - 1)) = Len(order) - 1
      BY <2>1, <3>1, PopTailStands
    <3>3. Become(PopTail(l), SubSeq(order, 1, Len(order) - 1))
      BY <1>6, <2>2 DEF Insert
    <3> HIDE DEF l, order
    <3>4. Len(SubSeq(order, 1, Len(order) - 1)) <= Capacity
      BY <1>1, <1>3, <2>1, <3>2
    <3> QED
      BY <3>2, <3>3, <3>4, BecomeStands
  <2>3. CASE ~Overfull(l)
    <3>1. Len(order) <= Capacity
      BY <1>1, <1>3, <2>1, <2>3 DEF Overfull
    <3>2. Become(l, order)
      BY <1>6, <2>3 DEF Insert
    <3> HIDE DEF l, order
    <3> QED
      BY <2>1, <3>1, <3>2, BecomeStands
  <2> QED
    BY <2>2, <2>3
<1> QED
  BY <1>4, <1>5, <1>6 DEF Insert

(* The types of the list after such a step, and the order it has. *)
LEMMA ListKept ==
  ASSUME StandsFor(Now, lruOrder)', Len(lruOrder)' <= Capacity,
         pending' \in [Key -> Outcome \cup {"none"}],
         access' \in [Access -> [key : Key \cup {Nil}, owner : BOOLEAN, outcome : Outcome]]
  PROVE  LruTypeOK' /\ ListIsOrder'
<1>1. LruTypeOK'
  BY DEF LruTypeOK, StandsFor, ListRec, Now
<1>2. ListIsOrder'
  BY DEF ListIsOrder, StandsFor, Now, KeyAt
<1> QED
  BY <1>1, <1>2
(* A step of an access, or of a fetch, that leaves the list alone or does   *)
(* one thing to it.                                                         *)
ListStep == UNCHANGED list \/ \E k \in Key : Insert(k)

(* Steps that may insert a key, and otherwise leave the list alone. *)
LEMMA ListStepKept ==
  ASSUME LruInd, ListStep,
         pending' \in [Key -> Outcome \cup {"none"}],
         access' \in [Access -> [key : Key \cup {Nil}, owner : BOOLEAN, outcome : Outcome]]
  PROVE  LruTypeOK' /\ ListIsOrder'
<1>1. LruTypeOK /\ ListIsOrder
  BY DEF LruInd, CacheSafe
<1>2. CASE UNCHANGED list
  <2>1. LruTypeOK'
    BY <1>1, <1>2 DEF list, LruTypeOK
  <2>2. /\ lruMap' = lruMap /\ lruHead' = lruHead /\ lruTail' = lruTail
        /\ lruNext' = lruNext /\ lruPrev' = lruPrev /\ lruOrder' = lruOrder
    BY <1>2 DEF list
  <2>3. ListIsOrder'
    BY <1>1, <2>2 DEF ListIsOrder
  <2> QED
    BY <2>1, <2>3
<1>3. ASSUME NEW k \in Key, Insert(k) PROVE LruTypeOK' /\ ListIsOrder'
  <2>1. StandsFor(Now, lruOrder)' /\ Len(lruOrder)' <= Capacity
    BY <1>1, <1>3, ListSteps
  <2> QED
    BY <2>1, ListKept
<1> QED
  BY <1>2, <1>3 DEF ListStep

(* Every step keeps the invariant. *)
LEMMA LruStepInd == LruInd /\ [LruNext]_lruVars => LruInd'
<1> SUFFICES ASSUME LruInd, [LruNext]_lruVars PROVE LruInd'
  OBVIOUS
<1> DEFINE AccessRec == [key : Key \cup {Nil}, owner : BOOLEAN, outcome : Outcome]
<1>t. LruTypeOK /\ ListIsOrder /\ OneFetch /\ OwnersKnown
  BY DEF LruInd, CacheSafe
<1>u. /\ pending \in [Key -> Outcome \cup {"none"}] /\ access \in [Access -> AccessRec]
      /\ NoAccess \in AccessRec /\ NoAccess.owner = FALSE /\ NoAccess.key = Nil /\ "none" \notin Outcome /\ Nil \notin Key
  BY <1>t, RequestedAssumption DEF LruTypeOK, NoAccess, Outcome
<1>1. ASSUME NEW k \in Key, InsertKey(k) \/ ContainsKey(k) \/ RemoveKey(k) PROVE LruInd'
  <2>1. UNCHANGED <<pending, access>>
    BY <1>1 DEF InsertKey, ContainsKey, RemoveKey
  <2>2. StandsFor(Now, lruOrder)' /\ Len(lruOrder)' <= Capacity
    BY <1>t, <1>1, ListSteps DEF InsertKey, ContainsKey, RemoveKey
  <2>3. LruTypeOK' /\ ListIsOrder'
    BY <1>u, <2>1, <2>2, ListKept
  <2>4. OneFetch' /\ OwnersKnown'
    BY <1>t, <2>1 DEF OneFetch, OwnersKnown
  <2> QED
    BY <2>3, <2>4 DEF LruInd, CacheSafe
<1>2. ASSUME NEW k \in Key, NEW o \in Outcome \ {"running"}, FetchEnds(k, o) PROVE LruInd'
  <2>1. pending' = [pending EXCEPT ![k] = o] /\ UNCHANGED list
    BY <1>2 DEF FetchEnds
  <2>2. \A a \in Access : access'[a] = IF access[a].key = k THEN [access[a] EXCEPT !.outcome = o] ELSE access[a]
    BY <1>2 DEF FetchEnds
  <2>3. access' \in [Access -> AccessRec]
    BY <1>u, <1>2 DEF FetchEnds
  <2>4. \A a \in Access : access'[a].owner = access[a].owner /\ access'[a].key = access[a].key
                          /\ access'[a].outcome = IF access[a].key = k THEN o ELSE access[a].outcome
    BY ZenonT(60), <1>u, <2>2
  <2>5. pending' \in [Key -> Outcome \cup {"none"}]
    BY <1>u, <2>1
  <2>6. OneFetch' /\ OwnersKnown'
    BY <1>t, <1>u, <2>1, <2>4 DEF OneFetch, OwnersKnown
  <2>7. LruTypeOK' /\ ListIsOrder'
    BY <2>1, <2>3, <2>5, ListStepKept DEF ListStep
  <2> QED
    BY <2>6, <2>7 DEF LruInd, CacheSafe
<1>3. ASSUME NEW a \in Access, AccessReturns(a) \/ AccessCallbackFails(a) \/ AccessDropped(a) PROVE LruInd'
  <2>1. access' = [access EXCEPT ![a] = NoAccess]
    BY <1>3 DEF AccessReturns, AccessCallbackFails, AccessDropped
  <2>2. \/ pending' = pending
        \/ access[a].owner /\ pending' = [pending EXCEPT ![access[a].key] = "none"]
    BY <1>3 DEF AccessReturns, AccessCallbackFails, AccessDropped
  <2>3. ListStep
    <3>1. CASE AccessReturns(a)
      BY <1>u, <3>1 DEF AccessReturns, ListStep
    <3>2. CASE AccessCallbackFails(a)
      BY <1>t, <1>u, <3>2 DEF AccessCallbackFails, ListStep, OwnersKnown
    <3>3. CASE AccessDropped(a)
      BY <3>3 DEF AccessDropped, ListStep
    <3> QED
      BY <1>3, <3>1, <3>2, <3>3
  <2>4. access' \in [Access -> AccessRec] /\ pending' \in [Key -> Outcome \cup {"none"}]
    BY <1>t, <1>u, <2>1, <2>2 DEF OwnersKnown
  <2>5. OneFetch' /\ OwnersKnown'
    BY <1>t, <1>u, <2>1, <2>2 DEF OneFetch, OwnersKnown
  <2>6. LruTypeOK' /\ ListIsOrder'
    BY <2>3, <2>4, ListStepKept
  <2> QED
    BY <2>5, <2>6 DEF LruInd, CacheSafe
<1>4. ASSUME NEW a \in Access, NEW k \in Key, AccessPending(a, k) PROVE LruInd'
  <2>1. /\ access' = [access EXCEPT ![a] = [key |-> k, owner |-> FALSE, outcome |-> pending[k]]]
        /\ pending' = pending /\ UNCHANGED list /\ pending[k] \in Outcome
    BY <1>4, <1>u DEF AccessPending
  <2>2. access' \in [Access -> AccessRec]
    BY <1>u, <2>1
  <2>3. OneFetch' /\ OwnersKnown'
    BY <1>t, <1>u, <2>1 DEF OneFetch, OwnersKnown
  <2>4. LruTypeOK' /\ ListIsOrder'
    BY <1>u, <2>1, <2>2, ListStepKept DEF ListStep
  <2> QED
    BY <2>3, <2>4 DEF LruInd, CacheSafe
<1>5. ASSUME NEW a \in Access, NEW k \in Key, AccessFetches(a, k) PROVE LruInd'
  <2>1. /\ access' = [access EXCEPT ![a] = [key |-> k, owner |-> TRUE, outcome |-> "running"]]
        /\ pending' = [pending EXCEPT ![k] = "running"] /\ UNCHANGED list /\ pending[k] = "none"
    BY <1>5 DEF AccessFetches
  <2>2. access' \in [Access -> AccessRec] /\ pending' \in [Key -> Outcome \cup {"none"}]
    BY <1>u, <2>1 DEF Outcome
  <2>3. \A b \in Access : access[b].owner => access[b].key # k
    BY <1>t, <1>u, <2>1 DEF OneFetch
  <2>4. OneFetch' /\ OwnersKnown'
    BY <1>t, <1>u, <2>1, <2>3 DEF OneFetch, OwnersKnown
  <2>5. LruTypeOK' /\ ListIsOrder'
    BY <2>1, <2>2, ListStepKept DEF ListStep
  <2> QED
    BY <2>4, <2>5 DEF LruInd, CacheSafe
<1>6. CASE UNCHANGED lruVars
  <2>1. UNCHANGED list /\ UNCHANGED <<pending, access>>
    BY <1>6 DEF lruVars
  <2>2. LruTypeOK' /\ ListIsOrder'
    BY <1>u, <2>1, ListStepKept DEF ListStep
  <2>3. OneFetch' /\ OwnersKnown'
    BY <1>t, <2>1 DEF OneFetch, OwnersKnown
  <2> QED
    BY <2>2, <2>3 DEF LruInd, CacheSafe
<1>7. ASSUME NEW a \in Access, NEW k \in Key, AccessCached(a, k) PROVE LruInd'
  BY <1>1, <1>7 DEF AccessCached
<1> QED
  BY <1>1, <1>2, <1>3, <1>4, <1>5, <1>6, <1>7 DEF LruNext

(* LruCache: the hash map and the doubly linked list under it always        *)
(* stand for the keys in the order of their use, however insert, get_mut    *)
(* and remove are mixed with the asynchronous accesses that share a         *)
(* fetch, and no pointer leads to a freed node.                             *)
THEOREM CacheIsList == LruSpec => []CacheSafe
<1>1. LruSpec => []LruInd
  BY LruInitInd, LruStepInd, PTL DEF LruSpec
<1>2. LruInd => CacheSafe
  BY DEF LruInd
<1> QED
  BY <1>1, <1>2, PTL

-----------------------------------------------------------------------------
(* Configuration files *)

ChainOp == {"delete_store_verification", "delete_store_sync", "delete_store_prune", "delete_store_acl", "delete_store_tape"}
AllAreas == {"access", "deletes", "factors", "stores", "sync", "tape", "tape_jobs", "realms", "other"}
Op == (UNION {Ops(a) : a \in AllAreas}) \cup ChainOp \cup LaterTask

(* Files hold names, and pairs of a realm and whether it is the default. *)
Grant == {"u!t@d", "u!t@/"}
Name ==
    Grant \cup {"u", "u:disabled", "u!t", "webauthn", "d", "d*", "c", "c*", "v", "v*", "w", "w*", "r", "r*", "j", UsesRemote,
               UsesKey, AssociatesKey, "k", "k:archived", "drive", "drive:changer", "changer", "changer*", "pool", "pool*", "t", "t*", "x", "x*",
               "ldap", "ad", "rule", "rule*", "http", "http*", "udp", "udp*"}
RealmEntry == {"ldap", "ad", "openid", "pam", "pbs"} \X BOOLEAN
Entry == Name \cup RealmEntry
SaveRec == [name : File, from : SUBSET Entry, to : SUBSET Entry]
ReqRec == [op : Op \cup {"none"}, step : {"idle", "lock", "save", "saving"}, want : Seq(File),
           held : SUBSET File, saves : Seq(SaveRec)]
FilesOK(f) == f \in [File -> SUBSET Entry] /\ f["domains"] \subseteq RealmEntry /\ f["acl"] \subseteq Grant

(* The locks a handler asks for. *)
Needs(op) == {n \in File : \E i \in DOMAIN HandlerOf(op, Empty).locks : HandlerOf(op, Empty).locks[i] = n}

(* The first save of a file starts from what it held, any other from what  *)
(* the one before it has saved.                                            *)
FirstOf(sv, i) == \A k \in 1 .. i - 1 : sv[k].name # sv[i].name
Chained(sv) ==
    \A i, k \in DOMAIN sv :
        k < i /\ sv[k].name = sv[i].name /\ (\A j \in k + 1 .. i - 1 : sv[j].name # sv[i].name) => sv[i].from = sv[k].to

GuardOK(op, n) ==
    /\ op \notin Careless => Guard(n) \in Needs(op)
    /\ op = "delete_store_acl" => n = "acl"
    /\ op = "update_webauthn_config" => n = "tfa"

LocksShape(op, h) ==
    /\ h.locks \in Seq(File) /\ h.locks = HandlerOf(op, Empty).locks
    /\ h.then \in ChainOp \cup LaterTask \cup {"end"}
    /\ h.then \in ChainOp => op \in ChainOp \cup {"delete_datastore"}
    /\ op = "delete_store_acl" => h.locks = << >>
SavesShape(op, f, sv) ==
    /\ sv \in Seq(SaveRec)
    /\ \A i \in DOMAIN sv : GuardOK(op, sv[i].name)
    /\ \A i \in DOMAIN sv : FirstOf(sv, i) => sv[i].from = f[sv[i].name]
    /\ Chained(sv)

(* A section x of the file c, and what it needs in the file b. *)
Backed(sv, f, c, b, x) ==
    \A i \in DOMAIN sv :
        /\ sv[i].name = c /\ x \in sv[i].to =>
             /\ x \in f[b] \/ \E j \in 1 .. i - 1 : sv[j].name = b /\ x \in sv[j].to
             /\ \A j \in DOMAIN sv : sv[j].name = b => x \in sv[j].to
        /\ sv[i].name = b /\ x \notin sv[i].to =>
             x \notin f[c] \/ \E j \in 1 .. i - 1 : sv[j].name = c /\ x \notin sv[j].to

Defaults(D) == \A s, t \in D : s[2] /\ t[2] => s = t
DomainsOK(sv) == \A i \in DOMAIN sv : sv[i].name = "domains" => sv[i].to \subseteq RealmEntry /\ Defaults(sv[i].to)

(* What the saves of a call remove. *)
RemovesOK(op, sv) ==
    \A i \in DOMAIN sv :
        /\ sv[i].name = "remote" /\ "r" \in sv[i].from \ sv[i].to => op = "delete_remote"
        /\ sv[i].name = "keys" /\ "k" \in sv[i].from \ sv[i].to => op = "delete_key"
        /\ sv[i].name = "s3" /\ "c" \in sv[i].from \ sv[i].to => op = "delete_s3_client"
        /\ sv[i].name = "tape" /\ "changer" \in sv[i].from \ sv[i].to => "drive:changer" \notin sv[i].from
        /\ sv[i].name = "user" /\ "u!t" \in sv[i].from \ sv[i].to =>
             op \in {"delete_user", "delete_token"} /\ \E j \in DOMAIN sv : j > i /\ sv[j].name = "acl"

(* After the last save of user.cfg, a secret belongs to a token. *)
SecretsOK(f) == "u!t" \in f["shadow"] => "u!t" \in f["user"]
UserEnds(sv, f) ==
    /\ \A i \in DOMAIN sv :
         sv[i].name = "user" /\ "u!t" \notin sv[i].to /\ (\A k \in i + 1 .. Len(sv) : sv[k].name # "user") =>
             /\ \A j \in DOMAIN sv : sv[j].name = "shadow" => "u!t" \notin sv[j].to
             /\ "u!t" \notin f["shadow"] \/ \E j \in 1 .. i - 1 : sv[j].name = "shadow"
    /\ \A j \in DOMAIN sv : sv[j].name = "shadow" => \E i \in j + 1 .. Len(sv) : sv[i].name = "user"

(* What is saved as permissions. *)
AclTyped(op, sv) ==
    \A i \in DOMAIN sv : sv[i].name = "acl" =>
        sv[i].to \subseteq Grant /\ (op = "delete_store_acl" => sv[i].to \subseteq sv[i].from)
AclOK(op, f, sv) ==
    \A i \in DOMAIN sv : sv[i].name = "acl" /\ op # "delete_store_acl" =>
        sv[i].to = {} \/ ("u!t" \in f["user"] /\ op \notin {"delete_user", "delete_token"})

KeyBacked(sv, f) == Backed(sv, f, "keys", "keyfile", "k") /\ Backed(sv, f, "tapekeyconf", "tapekeys", "x")
BackedOK(f) == ("k" \in f["keys"] => "k" \in f["keyfile"]) /\ ("x" \in f["tapekeyconf"] => "x" \in f["tapekeys"])

Effects(op, f, sv) ==
    /\ BackedOK(f) => KeyBacked(sv, f)
    /\ Defaults(f["domains"]) => DomainsOK(sv)
    /\ RemovesOK(op, sv)
    /\ SecretsOK(f) => UserEnds(sv, f)
    /\ AclTyped(op, sv)
    /\ ("u!t" \notin f["user"] => f["acl"] = {}) => AclOK(op, f, sv)
    /\ op = "store_key" => "k" \notin f["keys"] /\ Len(sv) = 2 /\ sv[1].name = "keyfile" /\ sv[2].name = "keys"
    /\ op = "delete_key" => ~KeyUsed(f["sync"])
    /\ op = "delete_s3_client" => "d" \notin f["datastore"]

Special == {"user", "shadow", "acl", "keys", "keyfile", "tapekeys", "tapekeyconf", "domains", "remote", "s3", "tape"}

LEMMA SaveIs ==
  ASSUME NEW n \in File, NEW F \in SUBSET Entry, NEW T \in SUBSET Entry
  PROVE  /\ Save(n, F, T) \in SaveRec
         /\ Save(n, F, T).name = n /\ Save(n, F, T).from = F /\ Save(n, F, T).to = T
  BY DEF Save, SaveRec
LEMMA ConfPutIs ==
  ASSUME NEW f, FilesOK(f), NEW n \in File, NEW X \in SUBSET Name
  PROVE  Put(f, n, X) \in SaveRec /\ Put(f, n, X).name = n /\ Put(f, n, X).from = f[n] /\ Put(f, n, X).to = f[n] \cup X
  BY DEF Put, Save, SaveRec, Entry, FilesOK
LEMMA DelIs ==
  ASSUME NEW f, FilesOK(f), NEW n \in File, NEW X
  PROVE  Del(f, n, X) \in SaveRec /\ Del(f, n, X).name = n /\ Del(f, n, X).from = f[n] /\ Del(f, n, X).to = f[n] \ X
  BY DEF Del, Save, SaveRec, Entry, FilesOK
LEMMA FlipIs ==
  ASSUME NEW f, FilesOK(f), NEW n \in File, NEW x \in Name
  PROVE  Flip(f, n, x) \in SaveRec /\ Flip(f, n, x).name = n /\ Flip(f, n, x).from = f[n]
  BY DEF Flip, Save, SaveRec, Entry, FilesOK
LEMMA FlipTo ==
  ASSUME NEW f, NEW n, NEW x, NEW y, y # x
  PROVE  y \in Flip(f, n, x).to <=> y \in f[n]
  BY DEF Flip, Save

(* Realms *)
LEMMA SetRealmIs ==
  ASSUME NEW f, FilesOK(f), NEW x \in {"ldap", "ad", "openid", "pam", "pbs"}, NEW default \in BOOLEAN
  PROVE  /\ SetRealm(f, x, default) \in SaveRec
         /\ SetRealm(f, x, default).name = "domains" /\ SetRealm(f, x, default).from = f["domains"]
         /\ SetRealm(f, x, default).to \subseteq RealmEntry
         /\ Defaults(f["domains"]) => Defaults(SetRealm(f, x, default).to)
<1> DEFINE rest == {t \in f["domains"] : t[1] # x}
           new == {<<s[1], s[2] /\ ~default>> : s \in rest} \cup {<<x, default>>}
<1>1. SetRealm(f, x, default) = Save("domains", f["domains"], new)
  BY DEF SetRealm
<1>2. \A s \in rest : s[1] \in {"ldap", "ad", "openid", "pam", "pbs"} /\ s[2] \in BOOLEAN /\ s = <<s[1], s[2]>>
  BY DEF FilesOK, RealmEntry
<1>3. \A s \in rest : (s[2] /\ ~default) \in BOOLEAN
  BY <1>2
<1>4. \A s \in rest : <<s[1], s[2] /\ ~default>> \in RealmEntry
  BY <1>2, <1>3 DEF RealmEntry
<1>5. new \subseteq RealmEntry
  BY <1>4 DEF RealmEntry
<1>6. new \in SUBSET Entry /\ f["domains"] \in SUBSET Entry /\ "domains" \in File
  BY <1>5 DEF Entry, FilesOK, File
<1>7. ASSUME Defaults(f["domains"]) PROVE Defaults(new)
  <2> SUFFICES ASSUME NEW a \in new, NEW b \in new, a[2], b[2] PROVE a = b
    BY DEF Defaults
  <2>1. CASE default
    <3>1. \A s \in rest : ~<<s[1], s[2] /\ ~default>>[2]
      BY <2>1
    <3> QED
      BY <3>1
  <2>2. CASE ~default
    <3>1. \A c \in new : c[2] => \E s \in rest : c = <<s[1], s[2] /\ ~default>> /\ s[2]
      BY <2>2
    <3>2. PICK s \in rest : a = <<s[1], s[2] /\ ~default>> /\ s[2]
      BY <3>1
    <3>3. PICK t \in rest : b = <<t[1], t[2] /\ ~default>> /\ t[2]
      BY <3>1
    <3>4. s = t
      BY <1>7, <3>2, <3>3 DEF Defaults
    <3> QED
      BY <3>2, <3>3, <3>4
  <2> QED
    BY <2>1, <2>2
<1> HIDE DEF new
<1> QED
  BY <1>1, <1>5, <1>6, <1>7, SaveIs
LEMMA DelRealmIs ==
  ASSUME NEW f, FilesOK(f), NEW x \in {"ldap", "ad", "openid", "pam", "pbs"}
  PROVE  /\ DelRealm(f, x) \in SaveRec
         /\ DelRealm(f, x).name = "domains" /\ DelRealm(f, x).from = f["domains"]
         /\ DelRealm(f, x).to \subseteq f["domains"]
  BY DEF DelRealm, Save, SaveRec, Entry, FilesOK, File

(* Lists of saves *)
LEMMA OneSave ==
  ASSUME NEW s \in SaveRec
  PROVE  <<s>> \in Seq(SaveRec) /\ DOMAIN <<s>> = {1} /\ <<s>>[1] = s /\ Len(<<s>>) = 1
  OBVIOUS
LEMMA TwoSaves ==
  ASSUME NEW s \in SaveRec, NEW t \in SaveRec
  PROVE  <<s, t>> \in Seq(SaveRec) /\ DOMAIN <<s, t>> = {1, 2} /\ <<s, t>>[1] = s /\ <<s, t>>[2] = t /\ Len(<<s, t>>) = 2
  OBVIOUS
LEMMA OneShape ==
  ASSUME NEW f, NEW op, NEW s \in SaveRec, s.from = f[s.name], GuardOK(op, s.name)
  PROVE  SavesShape(op, f, <<s>>)
  BY OneSave DEF SavesShape, FirstOf, Chained
LEMMA TwoShape ==
  ASSUME NEW f, NEW op, NEW s \in SaveRec, NEW t \in SaveRec, s.from = f[s.name], t.from = f[t.name], s.name # t.name,
         GuardOK(op, s.name), GuardOK(op, t.name)
  PROVE  SavesShape(op, f, <<s, t>>)
<1> DEFINE sv == <<s, t>>
<1>1. sv \in Seq(SaveRec) /\ DOMAIN sv = {1, 2} /\ sv[1] = s /\ sv[2] = t
  BY TwoSaves
<1> HIDE DEF sv
<1>2. SavesShape(op, f, sv)
  BY <1>1 DEF SavesShape, FirstOf, Chained
<1> QED
  BY <1>2 DEF sv

(* Files that no property of several files is about. *)
LEMMA PlainEffects ==
  ASSUME NEW f, NEW op, op \notin {"store_key", "delete_key", "delete_s3_client"}, NEW sv, \A i \in DOMAIN sv : sv[i].name \notin Special
  PROVE  Effects(op, f, sv)
  BY DEF Special, Effects, KeyBacked, Backed, DomainsOK, RemovesOK, UserEnds, AclTyped, AclOK
LEMMA ThreeSaves ==
  ASSUME NEW s \in SaveRec, NEW t \in SaveRec, NEW u \in SaveRec
  PROVE  /\ <<s, t, u>> \in Seq(SaveRec) /\ DOMAIN <<s, t, u>> = {1, 2, 3} /\ Len(<<s, t, u>>) = 3
         /\ <<s, t, u>>[1] = s /\ <<s, t, u>>[2] = t /\ <<s, t, u>>[3] = u
  OBVIOUS
LEMMA ThreeShape ==
  ASSUME NEW f, NEW op, NEW s \in SaveRec, NEW t \in SaveRec, NEW u \in SaveRec,
         s.from = f[s.name], t.from = f[t.name], u.from = f[u.name], s.name # t.name, t.name # u.name, s.name # u.name,
         GuardOK(op, s.name), GuardOK(op, t.name), GuardOK(op, u.name)
  PROVE  SavesShape(op, f, <<s, t, u>>)
<1> DEFINE sv == <<s, t, u>>
<1>1. sv \in Seq(SaveRec) /\ DOMAIN sv = {1, 2, 3} /\ sv[1] = s /\ sv[2] = t /\ sv[3] = u
  BY ThreeSaves
<1> HIDE DEF sv
<1>2. SavesShape(op, f, sv)
  BY <1>1 DEF SavesShape, FirstOf, Chained
<1> QED
  BY <1>2 DEF sv

(* One lock, and what is saved under it. *)
LEMMA LockNeeded ==
  ASSUME NEW op, NEW n \in File, HandlerOf(op, Empty).locks = <<n>>
  PROVE  n \in Needs(op)
  BY DEF Needs
LEMMA HandlerLocks ==
  ASSUME NEW l, NEW ok, NEW s
  PROVE  Handler(l, ok, s).locks = l
  BY DEF Handler

LEMMA DeleteUserLocks ==
  ASSUME NEW f
  PROVE  DeleteUser(f).locks = <<"user", "tfa", "acl">>
  BY HandlerLocks, Zenon DEF DeleteUser

(* The calls, by name. *)
LEMMA OpCases ==
  ASSUME NEW op \in Op
  PROVE  \/ op = "create_user"
         \/ op = "autocreate_user"
         \/ op = "update_user"
         \/ op = "delete_user"
         \/ op = "generate_token"
         \/ op = "update_token"
         \/ op = "delete_token"
         \/ op = "update_acl"
         \/ op = "update_acl_root"
         \/ op = "delete_acl"
         \/ op = "delete_datastore"
         \/ op = "add_tfa_entry"
         \/ op = "delete_tfa"
         \/ op = "update_webauthn_config"
         \/ op = "create_datastore"
         \/ op = "update_datastore"
         \/ op = "create_s3_client"
         \/ op = "update_s3_client"
         \/ op = "delete_s3_client"
         \/ op = "create_prune_job"
         \/ op = "update_prune_job"
         \/ op = "delete_prune_job"
         \/ op = "create_verification_job"
         \/ op = "update_verification_job"
         \/ op = "delete_verification_job"
         \/ op = "create_remote"
         \/ op = "update_remote"
         \/ op = "delete_remote"
         \/ op = "create_sync_job"
         \/ op = "update_sync_job"
         \/ op = "update_sync_job_remote"
         \/ op = "delete_sync_job"
         \/ op = "store_key"
         \/ op = "toggle_key_archive_state"
         \/ op = "delete_key"
         \/ op = "create_drive"
         \/ op = "update_drive"
         \/ op = "delete_drive"
         \/ op = "create_changer"
         \/ op = "update_changer"
         \/ op = "delete_changer"
         \/ op = "create_pool"
         \/ op = "update_pool"
         \/ op = "delete_pool"
         \/ op = "create_tape_backup_job"
         \/ op = "update_tape_backup_job"
         \/ op = "delete_tape_backup_job"
         \/ op = "insert_tape_key"
         \/ op = "change_passphrase"
         \/ op = "delete_tape_key"
         \/ op = "create_ldap_realm"
         \/ op = "update_ldap_realm"
         \/ op = "delete_ldap_realm"
         \/ op = "create_ad_realm"
         \/ op = "update_ad_realm"
         \/ op = "create_openid_realm"
         \/ op = "update_openid_realm"
         \/ op = "delete_openid_realm"
         \/ op = "update_pam_realm"
         \/ op = "update_pbs_realm"
         \/ op = "create_traffic_control"
         \/ op = "update_traffic_control"
         \/ op = "delete_traffic_control"
         \/ op = "create_influxdb_http"
         \/ op = "update_influxdb_http"
         \/ op = "delete_influxdb_http"
         \/ op = "create_influxdb_udp"
         \/ op = "update_influxdb_udp"
         \/ op = "delete_influxdb_udp"
         \/ op = "delete_datastore_only"
         \/ op = "delete_store_verification"
         \/ op = "delete_store_sync"
         \/ op = "delete_store_prune"
         \/ op = "delete_store_acl"
         \/ op = "delete_store_tape"
         \/ op = "destroy"
         \/ op = "create_datastore_pruned"
         \/ op = "create_store_prune"
         \/ op = "update_sync_job_other_key"
         \/ op = "update_sync_job_associated"
<1>1. CASE op \in Ops("access")
  BY <1>1 DEF Ops
<1>2. CASE op \in Ops("deletes")
  BY <1>2 DEF Ops
<1>3. CASE op \in Ops("factors")
  BY <1>3 DEF Ops
<1>4. CASE op \in Ops("stores")
  BY <1>4 DEF Ops
<1>5. CASE op \in Ops("sync")
  BY <1>5 DEF Ops
<1>6. CASE op \in Ops("tape")
  BY <1>6 DEF Ops
<1>7. CASE op \in Ops("tape_jobs")
  BY <1>7 DEF Ops
<1>8. CASE op \in Ops("realms")
  BY <1>8 DEF Ops
<1>9. CASE op \in Ops("other")
  BY <1>9 DEF Ops
<1>10. CASE op \in ChainOp
  BY <1>10 DEF ChainOp
<1>11. CASE op \in LaterTask
  BY <1>11 DEF LaterTask
<1>12. op \in ChainOp \/ op \in LaterTask \/ \E a \in AllAreas : op \in Ops(a)
  <2>1. op \in (UNION {Ops(a) : a \in AllAreas}) \/ op \in ChainOp \/ op \in LaterTask
    BY DEF Op
  <2>2. ASSUME op \in UNION {Ops(a) : a \in AllAreas}
        PROVE  \E a \in AllAreas : op \in Ops(a)
    <3>1. PICK S \in {Ops(a) : a \in AllAreas} : op \in S
      BY <2>2
    <3> QED
      BY <3>1
  <2> QED
    BY <2>1, <2>2
<1>13. (\E a \in AllAreas : op \in Ops(a)) =>
         \/ op \in Ops("access")
         \/ op \in Ops("deletes")
         \/ op \in Ops("factors")
         \/ op \in Ops("stores")
         \/ op \in Ops("sync")
         \/ op \in Ops("tape")
         \/ op \in Ops("tape_jobs")
         \/ op \in Ops("realms")
         \/ op \in Ops("other")
  BY DEF AllAreas
<1> QED
  BY <1>1, <1>2, <1>3, <1>4, <1>5, <1>6, <1>7, <1>8, <1>9, <1>10, <1>11, <1>12, <1>13

(* What the handlers lock, save and change. *)
LEMMA HandlerShape ==
  ASSUME NEW op \in Op, NEW f, FilesOK(f)
  PROVE  /\ LocksShape(op, HandlerOf(op, f))
         /\ SavesShape(op, f, HandlerOf(op, f).saves)
         /\ HandlerOf(op, f).ok => Effects(op, f, HandlerOf(op, f).saves)
<1> DEFINE h == HandlerOf(op, f)
           h0 == HandlerOf(op, Empty)
<1>1. CASE op = "create_user"
  <2>1. h = CreateUser(f) /\ h0 = CreateUser(Empty)
    BY <1>1 DEF HandlerOf
  <2> DEFINE s1 == Put(f, "user", {"u"})
             s2 == Put(f, "password", {"u"})
  <2>t1. "user" \in File /\ {"u"} \in SUBSET Name
    BY DEF File, Name, Grant
  <2>f1. s1.to = f["user"] \cup {"u"}
    BY <2>t1, ConfPutIs
  <2>s1. s1 \in SaveRec /\ s1.name = "user" /\ s1.from = f["user"]
    BY <2>t1, ConfPutIs
  <2>t2. "password" \in File /\ {"u"} \in SUBSET Name
    BY DEF File, Name, Grant
  <2>s2. s2 \in SaveRec /\ s2.name = "password" /\ s2.from = f["password"]
    BY <2>t2, ConfPutIs
  <2>b. h = Handler(<<"user">>, "u" \notin f["user"], <<s1, s2>>)
    BY <2>1 DEF CreateUser
  <2>c. h0 = Handler(<<"user">>, "u" \notin Empty["user"], <<Put(Empty, "user", {"u"}), Put(Empty, "password", {"u"})>>)
    BY <2>1 DEF CreateUser
  <2>d. h0.locks = <<"user">>
    BY <2>c, HandlerLocks
  <2> HIDE DEF s1, s2
  <2>2. h.locks = <<"user">> /\ h0.locks = <<"user">> /\ h.then = "end" /\ h.saves = <<s1, s2>>
    BY <2>b, <2>d DEF Handler
  <2>l. <<"user">> \in Seq(File)
    BY DEF File
  <2>4. LocksShape(op, h)
    BY <1>1, <2>2, <2>l DEF LocksShape, ChainOp
  <2>5. GuardOK(op, s1.name) /\ GuardOK(op, s2.name)
    BY <1>1, <2>2, <2>s1, <2>s2, LockNeeded DEF GuardOK, Careless, Guard, File
  <2>6. SavesShape(op, f, h.saves)
    BY <2>2, <2>s1, <2>s2, <2>5, TwoShape
  <2>8. DOMAIN h.saves = {1, 2} /\ Len(h.saves) = 2 /\ h.saves[1] = s1 /\ h.saves[2] = s2
    BY <2>2, <2>s1, <2>s2, TwoSaves
  <2>7. Effects(op, f, h.saves)
    BY <1>1, <2>2, <2>s1, <2>s2, <2>8, <2>f1 DEF Effects, BackedOK, KeyBacked, Backed, DomainsOK, Defaults,
       RemovesOK, SecretsOK, UserEnds, AclTyped, AclOK, Grant, FilesOK, File, Entry
  <2> QED
    BY <2>4, <2>6, <2>7
<1>2. CASE op = "autocreate_user"
  <2>1. h = AutocreateUser(f) /\ h0 = AutocreateUser(Empty)
    BY <1>2 DEF HandlerOf
  <2> DEFINE s1 == Put(f, "user", {"u"})
  <2>t1. "user" \in File /\ {"u"} \in SUBSET Name
    BY DEF File, Name, Grant
  <2>f1. s1.to = f["user"] \cup {"u"}
    BY <2>t1, ConfPutIs
  <2>s1. s1 \in SaveRec /\ s1.name = "user" /\ s1.from = f["user"]
    BY <2>t1, ConfPutIs
  <2> HIDE DEF s1
  <2>2. h.locks = <<"user">> /\ h0.locks = <<"user">> /\ h.then = "end" /\ h.saves = <<s1>>
    BY <2>1 DEF AutocreateUser, CreateSection, Handler, s1
  <2>l. <<"user">> \in Seq(File)
    BY DEF File
  <2>4. LocksShape(op, h)
    BY <1>2, <2>2, <2>l DEF LocksShape, ChainOp
  <2>5. GuardOK(op, s1.name)
    BY <1>2, <2>2, <2>s1, LockNeeded DEF GuardOK, Careless, Guard, File
  <2>6. SavesShape(op, f, h.saves)
    BY <2>2, <2>s1, <2>5, OneShape
  <2>8. DOMAIN h.saves = {1} /\ Len(h.saves) = 1 /\ h.saves[1] = s1
    BY <2>2, <2>s1, OneSave
  <2>7. Effects(op, f, h.saves)
    BY <1>2, <2>2, <2>s1, <2>8, <2>f1 DEF Effects, BackedOK, KeyBacked, Backed, DomainsOK, Defaults,
       RemovesOK, SecretsOK, UserEnds, AclTyped, AclOK, Grant, FilesOK, File, Entry
  <2> QED
    BY <2>4, <2>6, <2>7
<1>3. CASE op = "update_user"
  <2>1. h = UpdateUser(f) /\ h0 = UpdateUser(Empty)
    BY <1>3 DEF HandlerOf
  <2> DEFINE s1 == Flip(f, "user", "u:disabled")
  <2>t1. "user" \in File /\ "u:disabled" \in Name
    BY DEF File, Name, Grant
  <2>f1. \A y : y # "u:disabled" => (y \in s1.to <=> y \in f["user"])
    BY <2>t1, FlipTo
  <2>s1. s1 \in SaveRec /\ s1.name = "user" /\ s1.from = f["user"]
    BY <2>t1, FlipIs
  <2> HIDE DEF s1
  <2>2. h.locks = <<"user">> /\ h0.locks = <<"user">> /\ h.then = "end" /\ h.saves = <<s1>>
    BY <2>1 DEF Handler, UpdateUser, UpdateSection, s1
  <2>l. <<"user">> \in Seq(File)
    BY DEF File
  <2>4. LocksShape(op, h)
    BY <1>3, <2>2, <2>l DEF LocksShape, ChainOp
  <2>5. GuardOK(op, s1.name)
    BY <1>3, <2>2, <2>s1, LockNeeded DEF GuardOK, Careless, Guard, File
  <2>6. SavesShape(op, f, h.saves)
    BY <2>2, <2>s1, <2>5, OneShape
  <2>8. DOMAIN h.saves = {1} /\ Len(h.saves) = 1 /\ h.saves[1] = s1
    BY <2>2, <2>s1, OneSave
  <2>7. Effects(op, f, h.saves)
    BY <1>3, <2>2, <2>s1, <2>8, <2>f1 DEF Effects, BackedOK, KeyBacked, Backed, DomainsOK, Defaults,
       RemovesOK, SecretsOK, UserEnds, AclTyped, AclOK, Grant, FilesOK, File, Entry
  <2> QED
    BY <2>4, <2>6, <2>7
<1>4. CASE op = "delete_user"
  <2>1. h = DeleteUser(f) /\ h0 = DeleteUser(Empty)
    BY <1>4 DEF HandlerOf
  <2> DEFINE token == f["user"] \cap {"u!t"}
             rest == f["user"] \ {"u", "u:disabled"}
             s1 == Save("user", f["user"], rest)
             s2 == Del(f, "password", {"u"})
             s3 == Del(f, "tfa", {"u"})
             s4 == Del(f, "shadow", token)
             s5 == Save("user", rest, rest \ token)
             s6 == Del(f, "acl", IF token = {} THEN {} ELSE {"u!t@d", "u!t@/"})
  <2>2. h = Handler(<<"user", "tfa", "acl">>, "u" \in f["user"], <<s1, s2, s3, s4, s5, s6>>)
    BY <2>1, Zenon DEF DeleteUser
  <2>k. h0.locks = <<"user", "tfa", "acl">>
    BY <2>1, DeleteUserLocks
  <2>t. /\ "user" \in File /\ "password" \in File /\ "tfa" \in File /\ "shadow" \in File /\ "acl" \in File
        /\ f["user"] \in SUBSET Entry /\ f["acl"] \subseteq Grant
    BY DEF File, FilesOK
  <2>u. rest \in SUBSET Entry /\ rest \ token \in SUBSET Entry /\ ("u!t" \in rest <=> "u!t" \in f["user"])
    BY <2>t
  <2>v. ("u!t" \in token <=> "u!t" \in f["user"]) /\ (token = {} => "u!t" \notin f["user"])
    OBVIOUS
  <2> HIDE DEF token, rest
  <2>s1. s1 \in SaveRec /\ s1.name = "user" /\ s1.from = f["user"] /\ s1.to = rest
    BY <2>t, <2>u, SaveIs
  <2>s2. s2 \in SaveRec /\ s2.name = "password" /\ s2.from = f["password"]
    BY <2>t, DelIs
  <2>s3. s3 \in SaveRec /\ s3.name = "tfa" /\ s3.from = f["tfa"]
    BY <2>t, DelIs
  <2>s4. s4 \in SaveRec /\ s4.name = "shadow" /\ s4.from = f["shadow"] /\ s4.to = f["shadow"] \ token
    BY <2>t, DelIs
  <2>s5. s5 \in SaveRec /\ s5.name = "user" /\ s5.from = rest /\ s5.to = rest \ token
    BY <2>t, <2>u, SaveIs
  <2>s6. s6 \in SaveRec /\ s6.name = "acl" /\ s6.from = f["acl"] /\ s6.to \subseteq f["acl"]
    BY <2>t, DelIs
  <2>f1. "u!t" \in s1.to <=> "u!t" \in f["user"]
    BY <2>s1, <2>u
  <2>f4. "u!t" \in s4.to <=> "u!t" \in f["shadow"] /\ "u!t" \notin f["user"]
    BY <2>s4, <2>v
  <2>e. ("u!t" \notin f["user"] => f["acl"] = {}) => s6.to = {}
    <3>1. CASE token = {}
      BY <3>1, <2>s6, <2>v
    <3>2. CASE token # {}
      <4>1. s6.to = f["acl"] \ {"u!t@d", "u!t@/"}
        BY <3>2, <2>t, DelIs
      <4>2. f["acl"] \ {"u!t@d", "u!t@/"} = {}
        BY <2>t DEF Grant
      <4> QED
        BY <4>1, <4>2
    <3> QED
      BY <3>1, <3>2
  <2> HIDE DEF s1, s2, s3, s4, s5, s6
  <2>4. h.locks = <<"user", "tfa", "acl">> /\ h.then = "end" /\ h.saves = <<s1, s2, s3, s4, s5, s6>>
    BY <2>2 DEF Handler
  <2>l. <<"user", "tfa", "acl">> \in Seq(File)
    BY DEF File
  <2> DEFINE three == <<"user", "tfa", "acl">>
  <2>m. DOMAIN three = {1, 2, 3} /\ three[1] = "user" /\ three[2] = "tfa" /\ three[3] = "acl"
    OBVIOUS
  <2>n. h.locks = three /\ h0.locks = three /\ three \in Seq(File)
    BY <2>k, <2>4, <2>l
  <2> HIDE DEF three
  <2>5. LocksShape(op, h)
    BY <1>4, <2>4, <2>n DEF LocksShape, ChainOp
  <2>6. "user" \in Needs(op) /\ "tfa" \in Needs(op) /\ "acl" \in Needs(op)
    BY <2>m, <2>n, <2>t DEF Needs
  <2> DEFINE sv == <<s1, s2, s3, s4, s5, s6>>
  <2>7. sv \in Seq(SaveRec) /\ DOMAIN sv = 1 .. 6 /\ Len(sv) = 6
    BY <2>s1, <2>s2, <2>s3, <2>s4, <2>s5, <2>s6
  <2>8. sv[1] = s1 /\ sv[2] = s2 /\ sv[3] = s3 /\ sv[4] = s4 /\ sv[5] = s5 /\ sv[6] = s6
    OBVIOUS
  <2> HIDE DEF sv
  <2>9. \A i \in DOMAIN sv : i = 1 \/ i = 2 \/ i = 3 \/ i = 4 \/ i = 5 \/ i = 6
    BY <2>7
  <2>10. /\ sv[1].name = "user" /\ sv[2].name = "password" /\ sv[3].name = "tfa" /\ sv[4].name = "shadow"
         /\ sv[5].name = "user" /\ sv[6].name = "acl"
    BY <2>8, <2>s1, <2>s2, <2>s3, <2>s4, <2>s5, <2>s6
  <2>11. \A i \in DOMAIN sv : GuardOK(op, sv[i].name)
    BY <1>4, <2>6, <2>9, <2>10 DEF GuardOK, Guard, Careless
  <2>12. \A i \in DOMAIN sv : FirstOf(sv, i) => sv[i].from = f[sv[i].name]
    <3>1. ~FirstOf(sv, 5)
      BY <2>10 DEF FirstOf
    <3> QED
      BY <3>1, <2>9, <2>8, <2>s1, <2>s2, <2>s3, <2>s4, <2>s6
  <2>13. Chained(sv)
    <3> SUFFICES ASSUME NEW i \in DOMAIN sv, NEW k \in DOMAIN sv, k < i, sv[k].name = sv[i].name PROVE sv[i].from = sv[k].to
      BY DEF Chained
    <3>1. k = 1 /\ i = 5
      BY <2>9, <2>10
    <3> QED
      BY <3>1, <2>8, <2>s1, <2>s5
  <2>14. SavesShape(op, f, h.saves)
    BY <2>4, <2>7, <2>11, <2>12, <2>13 DEF SavesShape, sv
  <2>15. KeyBacked(sv, f) /\ DomainsOK(sv)
    BY <2>9, <2>10 DEF KeyBacked, Backed, DomainsOK
  <2>16. RemovesOK(op, sv)
    BY <1>4, <2>7, <2>8, <2>9, <2>10, <2>f1, <2>s1 DEF RemovesOK
  <2>17. SecretsOK(f) => UserEnds(sv, f)
    BY <2>7, <2>8, <2>9, <2>10, <2>f1, <2>f4 DEF UserEnds, SecretsOK
  <2>18. AclTyped(op, sv)
    BY <1>4, <2>8, <2>9, <2>10, <2>s6, <2>t DEF AclTyped
  <2>19. ("u!t" \notin f["user"] => f["acl"] = {}) => AclOK(op, f, sv)
    <3> SUFFICES ASSUME "u!t" \notin f["user"] => f["acl"] = {} PROVE AclOK(op, f, sv)
      OBVIOUS
    <3>1. \A i \in DOMAIN sv : sv[i].name = "acl" => sv[i].to = {}
      BY <2>8, <2>9, <2>10, <2>e
    <3> QED
      BY <3>1 DEF AclOK
  <2>20. Effects(op, f, sv)
    BY <1>4, <2>15, <2>16, <2>17, <2>18, <2>19 DEF Effects
  <2> QED
    BY <2>4, <2>5, <2>14, <2>20 DEF sv
<1>5. CASE op = "generate_token"
  <2>1. h = GenerateToken(f) /\ h0 = GenerateToken(Empty)
    BY <1>5 DEF HandlerOf
  <2> DEFINE s1 == Put(f, "shadow", {"u!t"})
             s2 == Put(f, "user", {"u!t"})
  <2>t1. "shadow" \in File /\ {"u!t"} \in SUBSET Name
    BY DEF File, Name, Grant
  <2>f1. s1.to = f["shadow"] \cup {"u!t"}
    BY <2>t1, ConfPutIs
  <2>s1. s1 \in SaveRec /\ s1.name = "shadow" /\ s1.from = f["shadow"]
    BY <2>t1, ConfPutIs
  <2>t2. "user" \in File /\ {"u!t"} \in SUBSET Name
    BY DEF File, Name, Grant
  <2>f2. s2.to = f["user"] \cup {"u!t"}
    BY <2>t2, ConfPutIs
  <2>s2. s2 \in SaveRec /\ s2.name = "user" /\ s2.from = f["user"]
    BY <2>t2, ConfPutIs
  <2>b. h = Handler(<<"user">>, "u!t" \notin f["user"], <<s1, s2>>)
    BY <2>1 DEF GenerateToken
  <2>c. h0 = Handler(<<"user">>, "u!t" \notin Empty["user"], <<Put(Empty, "shadow", {"u!t"}), Put(Empty, "user", {"u!t"})>>)
    BY <2>1 DEF GenerateToken
  <2>d. h0.locks = <<"user">>
    BY <2>c, HandlerLocks
  <2> HIDE DEF s1, s2
  <2>2. h.locks = <<"user">> /\ h0.locks = <<"user">> /\ h.then = "end" /\ h.saves = <<s1, s2>>
    BY <2>b, <2>d DEF Handler
  <2>l. <<"user">> \in Seq(File)
    BY DEF File
  <2>4. LocksShape(op, h)
    BY <1>5, <2>2, <2>l DEF LocksShape, ChainOp
  <2>5. GuardOK(op, s1.name) /\ GuardOK(op, s2.name)
    BY <1>5, <2>2, <2>s1, <2>s2, LockNeeded DEF GuardOK, Careless, Guard, File
  <2>6. SavesShape(op, f, h.saves)
    BY <2>2, <2>s1, <2>s2, <2>5, TwoShape
  <2>8. DOMAIN h.saves = {1, 2} /\ Len(h.saves) = 2 /\ h.saves[1] = s1 /\ h.saves[2] = s2
    BY <2>2, <2>s1, <2>s2, TwoSaves
  <2>7. Effects(op, f, h.saves)
    BY <1>5, <2>2, <2>s1, <2>s2, <2>8, <2>f1, <2>f2 DEF Effects, BackedOK, KeyBacked, Backed, DomainsOK,
       Defaults, RemovesOK, SecretsOK, UserEnds, AclTyped, AclOK, Grant, FilesOK, File, Entry
  <2> QED
    BY <2>4, <2>6, <2>7
<1>6. CASE op = "update_token"
  <2>1. h = UpdateToken(f) /\ h0 = UpdateToken(Empty)
    BY <1>6 DEF HandlerOf
  <2> DEFINE s1 == Put(f, "shadow", {"u!t"})
             s2 == Put(f, "user", {"u!t"})
  <2>t1. "shadow" \in File /\ {"u!t"} \in SUBSET Name
    BY DEF File, Name, Grant
  <2>f1. s1.to = f["shadow"] \cup {"u!t"}
    BY <2>t1, ConfPutIs
  <2>s1. s1 \in SaveRec /\ s1.name = "shadow" /\ s1.from = f["shadow"]
    BY <2>t1, ConfPutIs
  <2>t2. "user" \in File /\ {"u!t"} \in SUBSET Name
    BY DEF File, Name, Grant
  <2>f2. s2.to = f["user"] \cup {"u!t"}
    BY <2>t2, ConfPutIs
  <2>s2. s2 \in SaveRec /\ s2.name = "user" /\ s2.from = f["user"]
    BY <2>t2, ConfPutIs
  <2>b. h = Handler(<<"user">>, "u!t" \in f["user"], <<s1, s2>>)
    BY <2>1 DEF UpdateToken
  <2>c. h0 = Handler(<<"user">>, "u!t" \in Empty["user"], <<Put(Empty, "shadow", {"u!t"}), Put(Empty, "user", {"u!t"})>>)
    BY <2>1 DEF UpdateToken
  <2>d. h0.locks = <<"user">>
    BY <2>c, HandlerLocks
  <2> HIDE DEF s1, s2
  <2>2. h.locks = <<"user">> /\ h0.locks = <<"user">> /\ h.then = "end" /\ h.saves = <<s1, s2>>
    BY <2>b, <2>d DEF Handler
  <2>l. <<"user">> \in Seq(File)
    BY DEF File
  <2>4. LocksShape(op, h)
    BY <1>6, <2>2, <2>l DEF LocksShape, ChainOp
  <2>5. GuardOK(op, s1.name) /\ GuardOK(op, s2.name)
    BY <1>6, <2>2, <2>s1, <2>s2, LockNeeded DEF GuardOK, Careless, Guard, File
  <2>6. SavesShape(op, f, h.saves)
    BY <2>2, <2>s1, <2>s2, <2>5, TwoShape
  <2>8. DOMAIN h.saves = {1, 2} /\ Len(h.saves) = 2 /\ h.saves[1] = s1 /\ h.saves[2] = s2
    BY <2>2, <2>s1, <2>s2, TwoSaves
  <2>7. Effects(op, f, h.saves)
    BY <1>6, <2>2, <2>s1, <2>s2, <2>8, <2>f1, <2>f2 DEF Effects, BackedOK, KeyBacked, Backed, DomainsOK,
       Defaults, RemovesOK, SecretsOK, UserEnds, AclTyped, AclOK, Grant, FilesOK, File, Entry
  <2> QED
    BY <2>4, <2>6, <2>7
<1>7. CASE op = "delete_token"
  <2>1. h = DeleteToken(f) /\ h0 = DeleteToken(Empty)
    BY <1>7 DEF HandlerOf
  <2> DEFINE s1 == Del(f, "shadow", {"u!t"})
             s2 == Del(f, "user", {"u!t"})
             s3 == Del(f, "acl", {"u!t@d", "u!t@/"})
  <2>t1. "shadow" \in File
    BY DEF File, Name, Grant
  <2>f1. s1.to = f["shadow"] \ {"u!t"}
    BY <2>t1, DelIs
  <2>s1. s1 \in SaveRec /\ s1.name = "shadow" /\ s1.from = f["shadow"]
    BY <2>t1, DelIs
  <2>t2. "user" \in File
    BY DEF File, Name, Grant
  <2>f2. s2.to = f["user"] \ {"u!t"}
    BY <2>t2, DelIs
  <2>s2. s2 \in SaveRec /\ s2.name = "user" /\ s2.from = f["user"]
    BY <2>t2, DelIs
  <2>t3. "acl" \in File
    BY DEF File, Name, Grant
  <2>f3. s3.to = f["acl"] \ {"u!t@d", "u!t@/"}
    BY <2>t3, DelIs
  <2>s3. s3 \in SaveRec /\ s3.name = "acl" /\ s3.from = f["acl"]
    BY <2>t3, DelIs
  <2> HIDE DEF s1, s2, s3
  <2>2. h.locks = <<"acl", "user">> /\ h0.locks = <<"acl", "user">> /\ h.then = "end" /\ h.saves = <<s1, s2, s3>>
    BY <2>1 DEF DeleteToken, Handler, s1, s2, s3
  <2>l. <<"acl", "user">> \in Seq(File)
    BY DEF File
  <2>4. LocksShape(op, h)
    BY <1>7, <2>2, <2>l DEF LocksShape, ChainOp
  <2>5. GuardOK(op, s1.name) /\ GuardOK(op, s2.name) /\ GuardOK(op, s3.name)
    BY <1>7, <2>2, <2>s1, <2>s2, <2>s3 DEF GuardOK, Careless, Guard, File, Needs
  <2>6. SavesShape(op, f, h.saves)
    BY <2>2, <2>s1, <2>s2, <2>s3, <2>5, ThreeShape
  <2>8. DOMAIN h.saves = {1, 2, 3} /\ Len(h.saves) = 3 /\ h.saves[1] = s1 /\ h.saves[2] = s2 /\ h.saves[3] = s3
    BY <2>2, <2>s1, <2>s2, <2>s3, ThreeSaves
  <2>e. s3.to = {}
    BY <2>f3 DEF FilesOK, Grant
  <2>7. Effects(op, f, h.saves)
    <3>1. BackedOK(f) => KeyBacked(h.saves, f)
      BY <1>7, <2>2, <2>s1, <2>s2, <2>s3, <2>8, <2>f1, <2>f2, <2>f3, <2>e DEF BackedOK, KeyBacked, Backed
    <3>2. Defaults(f["domains"]) => DomainsOK(h.saves)
      BY <1>7, <2>2, <2>s1, <2>s2, <2>s3, <2>8, <2>f1, <2>f2, <2>f3, <2>e DEF DomainsOK
    <3>3. RemovesOK(op, h.saves)
      BY <1>7, <2>2, <2>s1, <2>s2, <2>s3, <2>8, <2>f1, <2>f2, <2>f3, <2>e DEF RemovesOK
    <3>4. SecretsOK(f) => UserEnds(h.saves, f)
      BY <1>7, <2>2, <2>s1, <2>s2, <2>s3, <2>8, <2>f1, <2>f2, <2>f3, <2>e DEF SecretsOK, UserEnds
    <3>5. AclTyped(op, h.saves)
      BY <1>7, <2>2, <2>s1, <2>s2, <2>s3, <2>8, <2>f1, <2>f2, <2>f3, <2>e DEF AclTyped, Grant, FilesOK
    <3>6. ("u!t" \notin f["user"] => f["acl"] = {}) => AclOK(op, f, h.saves)
      <4>1. \A i \in DOMAIN h.saves : h.saves[i].name = "acl" => h.saves[i].to = {}
        BY <2>s1, <2>s2, <2>s3, <2>8, <2>e
      <4> QED
        BY <4>1 DEF AclOK
    <3> QED
      BY <1>7, <3>1, <3>2, <3>3, <3>4, <3>5, <3>6 DEF Effects
  <2> QED
    BY <2>4, <2>6, <2>7
<1>8. CASE op = "update_acl"
  <2>1. h = UpdateAcl(f, "u!t@d") /\ h0 = UpdateAcl(Empty, "u!t@d")
    BY <1>8 DEF HandlerOf
  <2> DEFINE s1 == Put(f, "acl", {"u!t@d"})
  <2>t1. "acl" \in File /\ {"u!t@d"} \in SUBSET Name
    BY DEF File, Name, Grant
  <2>f1. s1.to = f["acl"] \cup {"u!t@d"}
    BY <2>t1, ConfPutIs
  <2>s1. s1 \in SaveRec /\ s1.name = "acl" /\ s1.from = f["acl"]
    BY <2>t1, ConfPutIs
  <2>b. h = Handler(<<"acl">>, "u!t" \in f["user"], <<s1>>)
    BY <2>1 DEF UpdateAcl
  <2>c. h0 = Handler(<<"acl">>, "u!t" \in Empty["user"], <<Put(Empty, "acl", {"u!t@d"})>>)
    BY <2>1 DEF UpdateAcl
  <2>d. h0.locks = <<"acl">>
    BY <2>c, HandlerLocks
  <2> HIDE DEF s1
  <2>2. h.locks = <<"acl">> /\ h0.locks = <<"acl">> /\ h.then = "end" /\ h.saves = <<s1>>
    BY <2>b, <2>d DEF Handler
  <2>l. <<"acl">> \in Seq(File)
    BY DEF File
  <2>4. LocksShape(op, h)
    BY <1>8, <2>2, <2>l DEF LocksShape, ChainOp
  <2>5. GuardOK(op, s1.name)
    BY <1>8, <2>2, <2>s1, LockNeeded DEF GuardOK, Careless, Guard, File
  <2>6. SavesShape(op, f, h.saves)
    BY <2>2, <2>s1, <2>5, OneShape
  <2>8. DOMAIN h.saves = {1} /\ Len(h.saves) = 1 /\ h.saves[1] = s1
    BY <2>2, <2>s1, OneSave
  <2>a. h.ok = ("u!t" \in f["user"])
    BY <2>1 DEF Handler, UpdateAcl
  <2>9. h.ok => "u!t" \in f["user"]
    BY <2>a
  <2>7. h.ok => Effects(op, f, h.saves)
    BY <1>8, <2>2, <2>s1, <2>8, <2>f1, <2>9 DEF Effects, BackedOK, KeyBacked, Backed, DomainsOK,
       Defaults, RemovesOK, SecretsOK, UserEnds, AclTyped, AclOK, Grant, FilesOK, File, Entry
  <2> QED
    BY <2>4, <2>6, <2>7
<1>9. CASE op = "update_acl_root"
  <2>1. h = UpdateAcl(f, "u!t@/") /\ h0 = UpdateAcl(Empty, "u!t@/")
    BY <1>9 DEF HandlerOf
  <2> DEFINE s1 == Put(f, "acl", {"u!t@/"})
  <2>t1. "acl" \in File /\ {"u!t@/"} \in SUBSET Name
    BY DEF File, Name, Grant
  <2>f1. s1.to = f["acl"] \cup {"u!t@/"}
    BY <2>t1, ConfPutIs
  <2>s1. s1 \in SaveRec /\ s1.name = "acl" /\ s1.from = f["acl"]
    BY <2>t1, ConfPutIs
  <2>b. h = Handler(<<"acl">>, "u!t" \in f["user"], <<s1>>)
    BY <2>1 DEF UpdateAcl
  <2>c. h0 = Handler(<<"acl">>, "u!t" \in Empty["user"], <<Put(Empty, "acl", {"u!t@/"})>>)
    BY <2>1 DEF UpdateAcl
  <2>d. h0.locks = <<"acl">>
    BY <2>c, HandlerLocks
  <2> HIDE DEF s1
  <2>2. h.locks = <<"acl">> /\ h0.locks = <<"acl">> /\ h.then = "end" /\ h.saves = <<s1>>
    BY <2>b, <2>d DEF Handler
  <2>l. <<"acl">> \in Seq(File)
    BY DEF File
  <2>4. LocksShape(op, h)
    BY <1>9, <2>2, <2>l DEF LocksShape, ChainOp
  <2>5. GuardOK(op, s1.name)
    BY <1>9, <2>2, <2>s1, LockNeeded DEF GuardOK, Careless, Guard, File
  <2>6. SavesShape(op, f, h.saves)
    BY <2>2, <2>s1, <2>5, OneShape
  <2>8. DOMAIN h.saves = {1} /\ Len(h.saves) = 1 /\ h.saves[1] = s1
    BY <2>2, <2>s1, OneSave
  <2>a. h.ok = ("u!t" \in f["user"])
    BY <2>1 DEF Handler, UpdateAcl
  <2>9. h.ok => "u!t" \in f["user"]
    BY <2>a
  <2>7. h.ok => Effects(op, f, h.saves)
    BY <1>9, <2>2, <2>s1, <2>8, <2>f1, <2>9 DEF Effects, BackedOK, KeyBacked, Backed, DomainsOK,
       Defaults, RemovesOK, SecretsOK, UserEnds, AclTyped, AclOK, Grant, FilesOK, File, Entry
  <2> QED
    BY <2>4, <2>6, <2>7
<1>10. CASE op = "delete_acl"
  <2>1. h = DeleteAcl(f, "u!t@/") /\ h0 = DeleteAcl(Empty, "u!t@/")
    BY <1>10 DEF HandlerOf
  <2> DEFINE s1 == Del(f, "acl", {"u!t@/"})
  <2>t1. "acl" \in File
    BY DEF File, Name, Grant
  <2>f1. s1.to = f["acl"] \ {"u!t@/"}
    BY <2>t1, DelIs
  <2>s1. s1 \in SaveRec /\ s1.name = "acl" /\ s1.from = f["acl"]
    BY <2>t1, DelIs
  <2>b. h = Handler(<<"acl">>, TRUE, <<s1>>)
    BY <2>1 DEF DeleteAcl
  <2>c. h0 = Handler(<<"acl">>, TRUE, <<Del(Empty, "acl", {"u!t@/"})>>)
    BY <2>1 DEF DeleteAcl
  <2>d. h0.locks = <<"acl">>
    BY <2>c, HandlerLocks
  <2> HIDE DEF s1
  <2>2. h.locks = <<"acl">> /\ h0.locks = <<"acl">> /\ h.then = "end" /\ h.saves = <<s1>>
    BY <2>b, <2>d DEF Handler
  <2>l. <<"acl">> \in Seq(File)
    BY DEF File
  <2>4. LocksShape(op, h)
    BY <1>10, <2>2, <2>l DEF LocksShape, ChainOp
  <2>5. GuardOK(op, s1.name)
    BY <1>10, <2>2, <2>s1, LockNeeded DEF GuardOK, Careless, Guard, File
  <2>6. SavesShape(op, f, h.saves)
    BY <2>2, <2>s1, <2>5, OneShape
  <2>8. DOMAIN h.saves = {1} /\ Len(h.saves) = 1 /\ h.saves[1] = s1
    BY <2>2, <2>s1, OneSave
  <2>7. Effects(op, f, h.saves)
    BY <1>10, <2>2, <2>s1, <2>8, <2>f1 DEF Effects, BackedOK, KeyBacked, Backed, DomainsOK, Defaults,
       RemovesOK, SecretsOK, UserEnds, AclTyped, AclOK, Grant, FilesOK, File, Entry
  <2> QED
    BY <2>4, <2>6, <2>7
<1>11. CASE op = "delete_datastore"
  <2>1. h = DeleteDatastore(f) /\ h0 = DeleteDatastore(Empty)
    BY <1>11 DEF HandlerOf
  <2>2. h.locks = <<"datastore">> /\ h0.locks = <<"datastore">> /\ h.then = "delete_store_verification" /\ h.saves = << >>
    BY <2>1 DEF DeleteDatastore, Handler
  <2>s1. << >> \in Seq(SaveRec) /\ DOMAIN << >> = {}
    OBVIOUS
  <2>l. <<"datastore">> \in Seq(File)
    BY DEF File
  <2>4. LocksShape(op, h)
    BY <1>11, <2>2, <2>l DEF LocksShape, ChainOp
  <2>6. SavesShape(op, f, h.saves)
    BY <2>2, <2>s1 DEF SavesShape, Chained
  <2>7. Effects(op, f, h.saves)
    BY <1>11, <2>2, <2>s1, PlainEffects DEF Special
  <2> QED
    BY <2>4, <2>6, <2>7
<1>12. CASE op = "add_tfa_entry"
  <2>1. h = AddTfaEntry(f) /\ h0 = AddTfaEntry(Empty)
    BY <1>12 DEF HandlerOf
  <2> DEFINE s1 == Put(f, "tfa", {"u"})
  <2>t1. "tfa" \in File /\ {"u"} \in SUBSET Name
    BY DEF File, Name, Grant
  <2>s1. s1 \in SaveRec /\ s1.name = "tfa" /\ s1.from = f["tfa"]
    BY <2>t1, ConfPutIs
  <2>b. h = Handler(<<"tfa">>, TRUE, <<s1>>)
    BY <2>1 DEF AddTfaEntry
  <2>c. h0 = Handler(<<"tfa">>, TRUE, <<Put(Empty, "tfa", {"u"})>>)
    BY <2>1 DEF AddTfaEntry
  <2>d. h0.locks = <<"tfa">>
    BY <2>c, HandlerLocks
  <2> HIDE DEF s1
  <2>2. h.locks = <<"tfa">> /\ h0.locks = <<"tfa">> /\ h.then = "end" /\ h.saves = <<s1>>
    BY <2>b, <2>d DEF Handler
  <2>l. <<"tfa">> \in Seq(File)
    BY DEF File
  <2>4. LocksShape(op, h)
    BY <1>12, <2>2, <2>l DEF LocksShape, ChainOp
  <2>5. GuardOK(op, s1.name)
    BY <1>12, <2>2, <2>s1, LockNeeded DEF GuardOK, Careless, Guard, File
  <2>6. SavesShape(op, f, h.saves)
    BY <2>2, <2>s1, <2>5, OneShape
  <2>7. Effects(op, f, h.saves)
    BY <1>12, <2>2, <2>s1, OneSave, PlainEffects DEF Special
  <2> QED
    BY <2>4, <2>6, <2>7
<1>13. CASE op = "delete_tfa"
  <2>1. h = DeleteTfa(f) /\ h0 = DeleteTfa(Empty)
    BY <1>13 DEF HandlerOf
  <2> DEFINE s1 == Del(f, "tfa", {"u"})
  <2>t1. "tfa" \in File
    BY DEF File, Name, Grant
  <2>s1. s1 \in SaveRec /\ s1.name = "tfa" /\ s1.from = f["tfa"]
    BY <2>t1, DelIs
  <2>b. h = Handler(<<"tfa">>, "u" \in f["tfa"], <<s1>>)
    BY <2>1 DEF DeleteTfa
  <2>c. h0 = Handler(<<"tfa">>, "u" \in Empty["tfa"], <<Del(Empty, "tfa", {"u"})>>)
    BY <2>1 DEF DeleteTfa
  <2>d. h0.locks = <<"tfa">>
    BY <2>c, HandlerLocks
  <2> HIDE DEF s1
  <2>2. h.locks = <<"tfa">> /\ h0.locks = <<"tfa">> /\ h.then = "end" /\ h.saves = <<s1>>
    BY <2>b, <2>d DEF Handler
  <2>l. <<"tfa">> \in Seq(File)
    BY DEF File
  <2>4. LocksShape(op, h)
    BY <1>13, <2>2, <2>l DEF LocksShape, ChainOp
  <2>5. GuardOK(op, s1.name)
    BY <1>13, <2>2, <2>s1, LockNeeded DEF GuardOK, Careless, Guard, File
  <2>6. SavesShape(op, f, h.saves)
    BY <2>2, <2>s1, <2>5, OneShape
  <2>7. Effects(op, f, h.saves)
    BY <1>13, <2>2, <2>s1, OneSave, PlainEffects DEF Special
  <2> QED
    BY <2>4, <2>6, <2>7
<1>14. CASE op = "update_webauthn_config"
  <2>1. h = UpdateWebauthnConfig(f) /\ h0 = UpdateWebauthnConfig(Empty)
    BY <1>14 DEF HandlerOf
  <2> DEFINE s1 == Flip(f, "tfa", "webauthn")
  <2>t1. "tfa" \in File /\ "webauthn" \in Name
    BY DEF File, Name, Grant
  <2>s1. s1 \in SaveRec /\ s1.name = "tfa" /\ s1.from = f["tfa"]
    BY <2>t1, FlipIs
  <2>b. h = Handler(<<"tfa">>, TRUE, <<s1>>)
    BY <2>1 DEF UpdateWebauthnConfig
  <2>c. h0 = Handler(<<"tfa">>, TRUE, <<Flip(Empty, "tfa", "webauthn")>>)
    BY <2>1 DEF UpdateWebauthnConfig
  <2>d. h0.locks = <<"tfa">>
    BY <2>c, HandlerLocks
  <2> HIDE DEF s1
  <2>2. h.locks = <<"tfa">> /\ h0.locks = <<"tfa">> /\ h.then = "end" /\ h.saves = <<s1>>
    BY <2>b, <2>d DEF Handler
  <2>l. <<"tfa">> \in Seq(File)
    BY DEF File
  <2>4. LocksShape(op, h)
    BY <1>14, <2>2, <2>l DEF LocksShape, ChainOp
  <2>5. GuardOK(op, s1.name)
    BY <1>14, <2>s1 DEF GuardOK, Careless
  <2>6. SavesShape(op, f, h.saves)
    BY <2>2, <2>s1, <2>5, OneShape
  <2>7. Effects(op, f, h.saves)
    BY <1>14, <2>2, <2>s1, OneSave, PlainEffects DEF Special
  <2> QED
    BY <2>4, <2>6, <2>7
<1>15. CASE op = "create_datastore"
  <2>1. h = CreateDatastore(f) /\ h0 = CreateDatastore(Empty)
    BY <1>15 DEF HandlerOf
  <2> DEFINE s1 == Put(f, "datastore", {"d"})
  <2>t1. "datastore" \in File /\ {"d"} \in SUBSET Name
    BY DEF File, Name, Grant
  <2>s1. s1 \in SaveRec /\ s1.name = "datastore" /\ s1.from = f["datastore"]
    BY <2>t1, ConfPutIs
  <2>b. h = Handler(<<"datastore">>, "d" \notin f["datastore"] /\ "c" \in f["s3"], <<s1>>)
    BY <2>1 DEF CreateDatastore
  <2>c. h0 = Handler(<<"datastore">>, "d" \notin Empty["datastore"] /\ "c" \in Empty["s3"], <<Put(Empty, "datastore", {"d"})>>)
    BY <2>1 DEF CreateDatastore
  <2>d. h0.locks = <<"datastore">>
    BY <2>c, HandlerLocks
  <2> HIDE DEF s1
  <2>2. h.locks = <<"datastore">> /\ h0.locks = <<"datastore">> /\ h.then = "end" /\ h.saves = <<s1>>
    BY <2>b, <2>d DEF Handler
  <2>l. <<"datastore">> \in Seq(File)
    BY DEF File
  <2>4. LocksShape(op, h)
    BY <1>15, <2>2, <2>l DEF LocksShape, ChainOp
  <2>5. GuardOK(op, s1.name)
    BY <1>15, <2>2, <2>s1, LockNeeded DEF GuardOK, Careless, Guard, File
  <2>6. SavesShape(op, f, h.saves)
    BY <2>2, <2>s1, <2>5, OneShape
  <2>7. Effects(op, f, h.saves)
    BY <1>15, <2>2, <2>s1, OneSave, PlainEffects DEF Special
  <2> QED
    BY <2>4, <2>6, <2>7
<1>16. CASE op = "update_datastore"
  <2>1. h = UpdateDatastore(f) /\ h0 = UpdateDatastore(Empty)
    BY <1>16 DEF HandlerOf
  <2> DEFINE s1 == Flip(f, "datastore", "d*")
  <2>t1. "datastore" \in File /\ "d*" \in Name
    BY DEF File, Name, Grant
  <2>s1. s1 \in SaveRec /\ s1.name = "datastore" /\ s1.from = f["datastore"]
    BY <2>t1, FlipIs
  <2> HIDE DEF s1
  <2>2. h.locks = <<"datastore">> /\ h0.locks = <<"datastore">> /\ h.then = "end" /\ h.saves = <<s1>>
    BY <2>1 DEF Handler, UpdateDatastore, UpdateSection, s1
  <2>l. <<"datastore">> \in Seq(File)
    BY DEF File
  <2>4. LocksShape(op, h)
    BY <1>16, <2>2, <2>l DEF LocksShape, ChainOp
  <2>5. GuardOK(op, s1.name)
    BY <1>16, <2>2, <2>s1, LockNeeded DEF GuardOK, Careless, Guard, File
  <2>6. SavesShape(op, f, h.saves)
    BY <2>2, <2>s1, <2>5, OneShape
  <2>7. Effects(op, f, h.saves)
    BY <1>16, <2>2, <2>s1, OneSave, PlainEffects DEF Special
  <2> QED
    BY <2>4, <2>6, <2>7
<1>17. CASE op = "create_s3_client"
  <2>1. h = CreateS3Client(f) /\ h0 = CreateS3Client(Empty)
    BY <1>17 DEF HandlerOf
  <2> DEFINE s1 == Put(f, "s3", {"c"})
  <2>t1. "s3" \in File /\ {"c"} \in SUBSET Name
    BY DEF File, Name, Grant
  <2>f1. s1.to = f["s3"] \cup {"c"}
    BY <2>t1, ConfPutIs
  <2>s1. s1 \in SaveRec /\ s1.name = "s3" /\ s1.from = f["s3"]
    BY <2>t1, ConfPutIs
  <2> HIDE DEF s1
  <2>2. h.locks = <<"s3">> /\ h0.locks = <<"s3">> /\ h.then = "end" /\ h.saves = <<s1>>
    BY <2>1 DEF CreateS3Client, CreateSection, Handler, s1
  <2>l. <<"s3">> \in Seq(File)
    BY DEF File
  <2>4. LocksShape(op, h)
    BY <1>17, <2>2, <2>l DEF LocksShape, ChainOp
  <2>5. GuardOK(op, s1.name)
    BY <1>17, <2>2, <2>s1, LockNeeded DEF GuardOK, Careless, Guard, File
  <2>6. SavesShape(op, f, h.saves)
    BY <2>2, <2>s1, <2>5, OneShape
  <2>8. DOMAIN h.saves = {1} /\ Len(h.saves) = 1 /\ h.saves[1] = s1
    BY <2>2, <2>s1, OneSave
  <2>7. Effects(op, f, h.saves)
    BY <1>17, <2>2, <2>s1, <2>8, <2>f1 DEF Effects, BackedOK, KeyBacked, Backed, DomainsOK, Defaults,
       RemovesOK, SecretsOK, UserEnds, AclTyped, AclOK, Grant, FilesOK, File, Entry
  <2> QED
    BY <2>4, <2>6, <2>7
<1>18. CASE op = "update_s3_client"
  <2>1. h = UpdateS3Client(f) /\ h0 = UpdateS3Client(Empty)
    BY <1>18 DEF HandlerOf
  <2> DEFINE s1 == Flip(f, "s3", "c*")
  <2>t1. "s3" \in File /\ "c*" \in Name
    BY DEF File, Name, Grant
  <2>f1. \A y : y # "c*" => (y \in s1.to <=> y \in f["s3"])
    BY <2>t1, FlipTo
  <2>s1. s1 \in SaveRec /\ s1.name = "s3" /\ s1.from = f["s3"]
    BY <2>t1, FlipIs
  <2> HIDE DEF s1
  <2>2. h.locks = <<"s3">> /\ h0.locks = <<"s3">> /\ h.then = "end" /\ h.saves = <<s1>>
    BY <2>1 DEF Handler, UpdateS3Client, UpdateSection, s1
  <2>l. <<"s3">> \in Seq(File)
    BY DEF File
  <2>4. LocksShape(op, h)
    BY <1>18, <2>2, <2>l DEF LocksShape, ChainOp
  <2>5. GuardOK(op, s1.name)
    BY <1>18, <2>2, <2>s1, LockNeeded DEF GuardOK, Careless, Guard, File
  <2>6. SavesShape(op, f, h.saves)
    BY <2>2, <2>s1, <2>5, OneShape
  <2>8. DOMAIN h.saves = {1} /\ Len(h.saves) = 1 /\ h.saves[1] = s1
    BY <2>2, <2>s1, OneSave
  <2>7. Effects(op, f, h.saves)
    BY <1>18, <2>2, <2>s1, <2>8, <2>f1 DEF Effects, BackedOK, KeyBacked, Backed, DomainsOK, Defaults,
       RemovesOK, SecretsOK, UserEnds, AclTyped, AclOK, Grant, FilesOK, File, Entry
  <2> QED
    BY <2>4, <2>6, <2>7
<1>19. CASE op = "delete_s3_client"
  <2>1. h = DeleteS3Client(f) /\ h0 = DeleteS3Client(Empty)
    BY <1>19 DEF HandlerOf
  <2> DEFINE s1 == Del(f, "s3", {"c", "c*"})
  <2>t1. "s3" \in File
    BY DEF File, Name, Grant
  <2>f1. s1.to = f["s3"] \ {"c", "c*"}
    BY <2>t1, DelIs
  <2>s1. s1 \in SaveRec /\ s1.name = "s3" /\ s1.from = f["s3"]
    BY <2>t1, DelIs
  <2>b. h = Handler(<<"s3">>, "c" \in f["s3"] /\ "d" \notin f["datastore"], <<s1>>)
    BY <2>1 DEF DeleteS3Client
  <2>c. h0 = Handler(<<"s3">>, "c" \in Empty["s3"] /\ "d" \notin Empty["datastore"], <<Del(Empty, "s3", {"c", "c*"})>>)
    BY <2>1 DEF DeleteS3Client
  <2>d. h0.locks = <<"s3">>
    BY <2>c, HandlerLocks
  <2> HIDE DEF s1
  <2>2. h.locks = <<"s3">> /\ h0.locks = <<"s3">> /\ h.then = "end" /\ h.saves = <<s1>>
    BY <2>b, <2>d DEF Handler
  <2>l. <<"s3">> \in Seq(File)
    BY DEF File
  <2>4. LocksShape(op, h)
    BY <1>19, <2>2, <2>l DEF LocksShape, ChainOp
  <2>5. GuardOK(op, s1.name)
    BY <1>19, <2>2, <2>s1, LockNeeded DEF GuardOK, Careless, Guard, File
  <2>6. SavesShape(op, f, h.saves)
    BY <2>2, <2>s1, <2>5, OneShape
  <2>8. DOMAIN h.saves = {1} /\ Len(h.saves) = 1 /\ h.saves[1] = s1
    BY <2>2, <2>s1, OneSave
  <2>a. h.ok = ("c" \in f["s3"] /\ "d" \notin f["datastore"])
    BY <2>1 DEF DeleteS3Client, Handler
  <2>9. h.ok => "d" \notin f["datastore"]
    BY <2>a
  <2>7. h.ok => Effects(op, f, h.saves)
    BY <1>19, <2>2, <2>s1, <2>8, <2>f1, <2>9 DEF Effects, BackedOK, KeyBacked, Backed, DomainsOK,
       Defaults, RemovesOK, SecretsOK, UserEnds, AclTyped, AclOK, Grant, FilesOK, File, Entry
  <2> QED
    BY <2>4, <2>6, <2>7
<1>20. CASE op = "create_prune_job"
  <2>1. h = CreatePruneJob(f) /\ h0 = CreatePruneJob(Empty)
    BY <1>20 DEF HandlerOf
  <2> DEFINE s1 == Put(f, "prune", {"v"})
  <2>t1. "prune" \in File /\ {"v"} \in SUBSET Name
    BY DEF File, Name, Grant
  <2>s1. s1 \in SaveRec /\ s1.name = "prune" /\ s1.from = f["prune"]
    BY <2>t1, ConfPutIs
  <2> HIDE DEF s1
  <2>2. h.locks = <<"prune">> /\ h0.locks = <<"prune">> /\ h.then = "end" /\ h.saves = <<s1>>
    BY <2>1 DEF CreatePruneJob, CreateSection, Handler, s1
  <2>l. <<"prune">> \in Seq(File)
    BY DEF File
  <2>4. LocksShape(op, h)
    BY <1>20, <2>2, <2>l DEF LocksShape, ChainOp
  <2>5. GuardOK(op, s1.name)
    BY <1>20, <2>2, <2>s1, LockNeeded DEF GuardOK, Careless, Guard, File
  <2>6. SavesShape(op, f, h.saves)
    BY <2>2, <2>s1, <2>5, OneShape
  <2>7. Effects(op, f, h.saves)
    BY <1>20, <2>2, <2>s1, OneSave, PlainEffects DEF Special
  <2> QED
    BY <2>4, <2>6, <2>7
<1>21. CASE op = "update_prune_job"
  <2>1. h = UpdatePruneJob(f) /\ h0 = UpdatePruneJob(Empty)
    BY <1>21 DEF HandlerOf
  <2> DEFINE s1 == Flip(f, "prune", "v*")
  <2>t1. "prune" \in File /\ "v*" \in Name
    BY DEF File, Name, Grant
  <2>s1. s1 \in SaveRec /\ s1.name = "prune" /\ s1.from = f["prune"]
    BY <2>t1, FlipIs
  <2> HIDE DEF s1
  <2>2. h.locks = <<"prune">> /\ h0.locks = <<"prune">> /\ h.then = "end" /\ h.saves = <<s1>>
    BY <2>1 DEF Handler, UpdatePruneJob, UpdateSection, s1
  <2>l. <<"prune">> \in Seq(File)
    BY DEF File
  <2>4. LocksShape(op, h)
    BY <1>21, <2>2, <2>l DEF LocksShape, ChainOp
  <2>5. GuardOK(op, s1.name)
    BY <1>21, <2>2, <2>s1, LockNeeded DEF GuardOK, Careless, Guard, File
  <2>6. SavesShape(op, f, h.saves)
    BY <2>2, <2>s1, <2>5, OneShape
  <2>7. Effects(op, f, h.saves)
    BY <1>21, <2>2, <2>s1, OneSave, PlainEffects DEF Special
  <2> QED
    BY <2>4, <2>6, <2>7
<1>22. CASE op = "delete_prune_job"
  <2>1. h = DeletePruneJob(f) /\ h0 = DeletePruneJob(Empty)
    BY <1>22 DEF HandlerOf
  <2> DEFINE s1 == Del(f, "prune", {"v", "v*"})
  <2>t1. "prune" \in File
    BY DEF File, Name, Grant
  <2>s1. s1 \in SaveRec /\ s1.name = "prune" /\ s1.from = f["prune"]
    BY <2>t1, DelIs
  <2> HIDE DEF s1
  <2>2. h.locks = <<"prune">> /\ h0.locks = <<"prune">> /\ h.then = "end" /\ h.saves = <<s1>>
    BY <2>1 DEF DeletePruneJob, DeleteSection, Handler, s1
  <2>l. <<"prune">> \in Seq(File)
    BY DEF File
  <2>4. LocksShape(op, h)
    BY <1>22, <2>2, <2>l DEF LocksShape, ChainOp
  <2>5. GuardOK(op, s1.name)
    BY <1>22, <2>2, <2>s1, LockNeeded DEF GuardOK, Careless, Guard, File
  <2>6. SavesShape(op, f, h.saves)
    BY <2>2, <2>s1, <2>5, OneShape
  <2>7. Effects(op, f, h.saves)
    BY <1>22, <2>2, <2>s1, OneSave, PlainEffects DEF Special
  <2> QED
    BY <2>4, <2>6, <2>7
<1>23. CASE op = "create_verification_job"
  <2>1. h = CreateVerificationJob(f) /\ h0 = CreateVerificationJob(Empty)
    BY <1>23 DEF HandlerOf
  <2> DEFINE s1 == Put(f, "verification", {"w"})
  <2>t1. "verification" \in File /\ {"w"} \in SUBSET Name
    BY DEF File, Name, Grant
  <2>s1. s1 \in SaveRec /\ s1.name = "verification" /\ s1.from = f["verification"]
    BY <2>t1, ConfPutIs
  <2> HIDE DEF s1
  <2>2. h.locks = <<"verification">> /\ h0.locks = <<"verification">> /\ h.then = "end" /\ h.saves = <<s1>>
    BY <2>1 DEF CreateSection, CreateVerificationJob, Handler, s1
  <2>l. <<"verification">> \in Seq(File)
    BY DEF File
  <2>4. LocksShape(op, h)
    BY <1>23, <2>2, <2>l DEF LocksShape, ChainOp
  <2>5. GuardOK(op, s1.name)
    BY <1>23, <2>2, <2>s1, LockNeeded DEF GuardOK, Careless, Guard, File
  <2>6. SavesShape(op, f, h.saves)
    BY <2>2, <2>s1, <2>5, OneShape
  <2>7. Effects(op, f, h.saves)
    BY <1>23, <2>2, <2>s1, OneSave, PlainEffects DEF Special
  <2> QED
    BY <2>4, <2>6, <2>7
<1>24. CASE op = "update_verification_job"
  <2>1. h = UpdateVerificationJob(f) /\ h0 = UpdateVerificationJob(Empty)
    BY <1>24 DEF HandlerOf
  <2> DEFINE s1 == Flip(f, "verification", "w*")
  <2>t1. "verification" \in File /\ "w*" \in Name
    BY DEF File, Name, Grant
  <2>s1. s1 \in SaveRec /\ s1.name = "verification" /\ s1.from = f["verification"]
    BY <2>t1, FlipIs
  <2> HIDE DEF s1
  <2>2. h.locks = <<"verification">> /\ h0.locks = <<"verification">> /\ h.then = "end" /\ h.saves = <<s1>>
    BY <2>1 DEF Handler, UpdateSection, UpdateVerificationJob, s1
  <2>l. <<"verification">> \in Seq(File)
    BY DEF File
  <2>4. LocksShape(op, h)
    BY <1>24, <2>2, <2>l DEF LocksShape, ChainOp
  <2>5. GuardOK(op, s1.name)
    BY <1>24, <2>2, <2>s1, LockNeeded DEF GuardOK, Careless, Guard, File
  <2>6. SavesShape(op, f, h.saves)
    BY <2>2, <2>s1, <2>5, OneShape
  <2>7. Effects(op, f, h.saves)
    BY <1>24, <2>2, <2>s1, OneSave, PlainEffects DEF Special
  <2> QED
    BY <2>4, <2>6, <2>7
<1>25. CASE op = "delete_verification_job"
  <2>1. h = DeleteVerificationJob(f) /\ h0 = DeleteVerificationJob(Empty)
    BY <1>25 DEF HandlerOf
  <2> DEFINE s1 == Del(f, "verification", {"w", "w*"})
  <2>t1. "verification" \in File
    BY DEF File, Name, Grant
  <2>s1. s1 \in SaveRec /\ s1.name = "verification" /\ s1.from = f["verification"]
    BY <2>t1, DelIs
  <2> HIDE DEF s1
  <2>2. h.locks = <<"verification">> /\ h0.locks = <<"verification">> /\ h.then = "end" /\ h.saves = <<s1>>
    BY <2>1 DEF DeleteSection, DeleteVerificationJob, Handler, s1
  <2>l. <<"verification">> \in Seq(File)
    BY DEF File
  <2>4. LocksShape(op, h)
    BY <1>25, <2>2, <2>l DEF LocksShape, ChainOp
  <2>5. GuardOK(op, s1.name)
    BY <1>25, <2>2, <2>s1, LockNeeded DEF GuardOK, Careless, Guard, File
  <2>6. SavesShape(op, f, h.saves)
    BY <2>2, <2>s1, <2>5, OneShape
  <2>7. Effects(op, f, h.saves)
    BY <1>25, <2>2, <2>s1, OneSave, PlainEffects DEF Special
  <2> QED
    BY <2>4, <2>6, <2>7
<1>26. CASE op = "create_remote"
  <2>1. h = CreateRemote(f) /\ h0 = CreateRemote(Empty)
    BY <1>26 DEF HandlerOf
  <2> DEFINE s1 == Put(f, "remote", {"r"})
  <2>t1. "remote" \in File /\ {"r"} \in SUBSET Name
    BY DEF File, Name, Grant
  <2>f1. s1.to = f["remote"] \cup {"r"}
    BY <2>t1, ConfPutIs
  <2>s1. s1 \in SaveRec /\ s1.name = "remote" /\ s1.from = f["remote"]
    BY <2>t1, ConfPutIs
  <2> HIDE DEF s1
  <2>2. h.locks = <<"remote">> /\ h0.locks = <<"remote">> /\ h.then = "end" /\ h.saves = <<s1>>
    BY <2>1 DEF CreateRemote, CreateSection, Handler, s1
  <2>l. <<"remote">> \in Seq(File)
    BY DEF File
  <2>4. LocksShape(op, h)
    BY <1>26, <2>2, <2>l DEF LocksShape, ChainOp
  <2>5. GuardOK(op, s1.name)
    BY <1>26, <2>2, <2>s1, LockNeeded DEF GuardOK, Careless, Guard, File
  <2>6. SavesShape(op, f, h.saves)
    BY <2>2, <2>s1, <2>5, OneShape
  <2>8. DOMAIN h.saves = {1} /\ Len(h.saves) = 1 /\ h.saves[1] = s1
    BY <2>2, <2>s1, OneSave
  <2>7. Effects(op, f, h.saves)
    BY <1>26, <2>2, <2>s1, <2>8, <2>f1 DEF Effects, BackedOK, KeyBacked, Backed, DomainsOK, Defaults,
       RemovesOK, SecretsOK, UserEnds, AclTyped, AclOK, Grant, FilesOK, File, Entry
  <2> QED
    BY <2>4, <2>6, <2>7
<1>27. CASE op = "update_remote"
  <2>1. h = UpdateRemote(f) /\ h0 = UpdateRemote(Empty)
    BY <1>27 DEF HandlerOf
  <2> DEFINE s1 == Flip(f, "remote", "r*")
  <2>t1. "remote" \in File /\ "r*" \in Name
    BY DEF File, Name, Grant
  <2>f1. \A y : y # "r*" => (y \in s1.to <=> y \in f["remote"])
    BY <2>t1, FlipTo
  <2>s1. s1 \in SaveRec /\ s1.name = "remote" /\ s1.from = f["remote"]
    BY <2>t1, FlipIs
  <2> HIDE DEF s1
  <2>2. h.locks = <<"remote">> /\ h0.locks = <<"remote">> /\ h.then = "end" /\ h.saves = <<s1>>
    BY <2>1 DEF Handler, UpdateRemote, UpdateSection, s1
  <2>l. <<"remote">> \in Seq(File)
    BY DEF File
  <2>4. LocksShape(op, h)
    BY <1>27, <2>2, <2>l DEF LocksShape, ChainOp
  <2>5. GuardOK(op, s1.name)
    BY <1>27, <2>2, <2>s1, LockNeeded DEF GuardOK, Careless, Guard, File
  <2>6. SavesShape(op, f, h.saves)
    BY <2>2, <2>s1, <2>5, OneShape
  <2>8. DOMAIN h.saves = {1} /\ Len(h.saves) = 1 /\ h.saves[1] = s1
    BY <2>2, <2>s1, OneSave
  <2>7. Effects(op, f, h.saves)
    BY <1>27, <2>2, <2>s1, <2>8, <2>f1 DEF Effects, BackedOK, KeyBacked, Backed, DomainsOK, Defaults,
       RemovesOK, SecretsOK, UserEnds, AclTyped, AclOK, Grant, FilesOK, File, Entry
  <2> QED
    BY <2>4, <2>6, <2>7
<1>28. CASE op = "delete_remote"
  <2>1. h = DeleteRemote(f) /\ h0 = DeleteRemote(Empty)
    BY <1>28 DEF HandlerOf
  <2> DEFINE s1 == Del(f, "remote", {"r", "r*"})
  <2>t1. "remote" \in File
    BY DEF File, Name, Grant
  <2>f1. s1.to = f["remote"] \ {"r", "r*"}
    BY <2>t1, DelIs
  <2>s1. s1 \in SaveRec /\ s1.name = "remote" /\ s1.from = f["remote"]
    BY <2>t1, DelIs
  <2> HIDE DEF s1
  <2>2. h.locks = <<"remote">> /\ h0.locks = <<"remote">> /\ h.then = "end" /\ h.saves = <<s1>>
    BY <2>1 DEF DeleteRemote, DeleteSection, Handler, s1
  <2>l. <<"remote">> \in Seq(File)
    BY DEF File
  <2>4. LocksShape(op, h)
    BY <1>28, <2>2, <2>l DEF LocksShape, ChainOp
  <2>5. GuardOK(op, s1.name)
    BY <1>28, <2>2, <2>s1, LockNeeded DEF GuardOK, Careless, Guard, File
  <2>6. SavesShape(op, f, h.saves)
    BY <2>2, <2>s1, <2>5, OneShape
  <2>8. DOMAIN h.saves = {1} /\ Len(h.saves) = 1 /\ h.saves[1] = s1
    BY <2>2, <2>s1, OneSave
  <2>7. Effects(op, f, h.saves)
    BY <1>28, <2>2, <2>s1, <2>8, <2>f1 DEF Effects, BackedOK, KeyBacked, Backed, DomainsOK, Defaults,
       RemovesOK, SecretsOK, UserEnds, AclTyped, AclOK, Grant, FilesOK, File, Entry
  <2> QED
    BY <2>4, <2>6, <2>7
<1>29. CASE op = "create_sync_job"
  <2>1. h = CreateSyncJob(f) /\ h0 = CreateSyncJob(Empty)
    BY <1>29 DEF HandlerOf
  <2> DEFINE s1 == Put(f, "sync", {"j", UsesRemote})
  <2>t1. "sync" \in File /\ {"j", UsesRemote} \in SUBSET Name
    BY DEF File, Name, Grant
  <2>s1. s1 \in SaveRec /\ s1.name = "sync" /\ s1.from = f["sync"]
    BY <2>t1, ConfPutIs
  <2>b. h = Handler(<<"sync">>, "j" \notin f["sync"], <<s1>>)
    BY <2>1 DEF CreateSyncJob
  <2>c. h0 = Handler(<<"sync">>, "j" \notin Empty["sync"], <<Put(Empty, "sync", {"j", UsesRemote})>>)
    BY <2>1 DEF CreateSyncJob
  <2>d. h0.locks = <<"sync">>
    BY <2>c, HandlerLocks
  <2> HIDE DEF s1
  <2>2. h.locks = <<"sync">> /\ h0.locks = <<"sync">> /\ h.then = "end" /\ h.saves = <<s1>>
    BY <2>b, <2>d DEF Handler
  <2>l. <<"sync">> \in Seq(File)
    BY DEF File
  <2>4. LocksShape(op, h)
    BY <1>29, <2>2, <2>l DEF LocksShape, ChainOp
  <2>5. GuardOK(op, s1.name)
    BY <1>29, <2>2, <2>s1, LockNeeded DEF GuardOK, Careless, Guard, File
  <2>6. SavesShape(op, f, h.saves)
    BY <2>2, <2>s1, <2>5, OneShape
  <2>7. Effects(op, f, h.saves)
    BY <1>29, <2>2, <2>s1, OneSave, PlainEffects DEF Special
  <2> QED
    BY <2>4, <2>6, <2>7
<1>30. CASE op = "update_sync_job"
  <2>1. h = UpdateSyncJob(f) /\ h0 = UpdateSyncJob(Empty)
    BY <1>30 DEF HandlerOf
  <2> DEFINE s1 == Put(f, "sync", IF UsesKey \in f["sync"] THEN {UsesKey, AssociatesKey} ELSE {UsesKey})
  <2>t1. "sync" \in File /\ (IF UsesKey \in f["sync"] THEN {UsesKey, AssociatesKey} ELSE {UsesKey}) \in SUBSET Name
    BY DEF File, Name, Grant
  <2>s1. s1 \in SaveRec /\ s1.name = "sync" /\ s1.from = f["sync"]
    BY <2>t1, ConfPutIs
  <2>b. h = Handler(<<"sync">>, "j" \in f["sync"] /\ "k" \in f["keys"] /\ "k:archived" \notin f["keys"], <<s1>>)
    BY <2>1 DEF UpdateSyncJob
  <2>c. h0 = Handler(<<"sync">>, "j" \in Empty["sync"] /\ "k" \in Empty["keys"] /\ "k:archived" \notin Empty["keys"], <<Put(Empty, "sync", IF UsesKey \in Empty["sync"] THEN {UsesKey, AssociatesKey} ELSE {UsesKey})>>)
    BY <2>1 DEF UpdateSyncJob
  <2>d. h0.locks = <<"sync">>
    BY <2>c, HandlerLocks
  <2> HIDE DEF s1
  <2>2. h.locks = <<"sync">> /\ h0.locks = <<"sync">> /\ h.then = "end" /\ h.saves = <<s1>>
    BY <2>b, <2>d DEF Handler
  <2>l. <<"sync">> \in Seq(File)
    BY DEF File
  <2>4. LocksShape(op, h)
    BY <1>30, <2>2, <2>l DEF LocksShape, ChainOp
  <2>5. GuardOK(op, s1.name)
    BY <1>30, <2>2, <2>s1, LockNeeded DEF GuardOK, Careless, Guard, File
  <2>6. SavesShape(op, f, h.saves)
    BY <2>2, <2>s1, <2>5, OneShape
  <2>7. Effects(op, f, h.saves)
    BY <1>30, <2>2, <2>s1, OneSave, PlainEffects DEF Special
  <2> QED
    BY <2>4, <2>6, <2>7
<1>31. CASE op = "update_sync_job_remote"
  <2>1. h = UpdateSyncJobRemote(f) /\ h0 = UpdateSyncJobRemote(Empty)
    BY <1>31 DEF HandlerOf
  <2> DEFINE s1 == Flip(f, "sync", UsesRemote)
  <2>t1. "sync" \in File /\ UsesRemote \in Name
    BY DEF File, Name, Grant
  <2>s1. s1 \in SaveRec /\ s1.name = "sync" /\ s1.from = f["sync"]
    BY <2>t1, FlipIs
  <2> HIDE DEF s1
  <2>2. h.locks = <<"sync">> /\ h0.locks = <<"sync">> /\ h.then = "end" /\ h.saves = <<s1>>
    BY <2>1 DEF Handler, UpdateSection, UpdateSyncJobRemote, s1
  <2>l. <<"sync">> \in Seq(File)
    BY DEF File
  <2>4. LocksShape(op, h)
    BY <1>31, <2>2, <2>l DEF LocksShape, ChainOp
  <2>5. GuardOK(op, s1.name)
    BY <1>31, <2>2, <2>s1, LockNeeded DEF GuardOK, Careless, Guard, File
  <2>6. SavesShape(op, f, h.saves)
    BY <2>2, <2>s1, <2>5, OneShape
  <2>7. Effects(op, f, h.saves)
    BY <1>31, <2>2, <2>s1, OneSave, PlainEffects DEF Special
  <2> QED
    BY <2>4, <2>6, <2>7
<1>32. CASE op = "delete_sync_job"
  <2>1. h = DeleteSyncJob(f) /\ h0 = DeleteSyncJob(Empty)
    BY <1>32 DEF HandlerOf
  <2> DEFINE s1 == Del(f, "sync", {"j", UsesRemote, UsesKey, AssociatesKey})
  <2>t1. "sync" \in File
    BY DEF File, Name, Grant
  <2>s1. s1 \in SaveRec /\ s1.name = "sync" /\ s1.from = f["sync"]
    BY <2>t1, DelIs
  <2> HIDE DEF s1
  <2>2. h.locks = <<"sync">> /\ h0.locks = <<"sync">> /\ h.then = "end" /\ h.saves = <<s1>>
    BY <2>1 DEF DeleteSection, DeleteSyncJob, Handler, s1
  <2>l. <<"sync">> \in Seq(File)
    BY DEF File
  <2>4. LocksShape(op, h)
    BY <1>32, <2>2, <2>l DEF LocksShape, ChainOp
  <2>5. GuardOK(op, s1.name)
    BY <1>32, <2>2, <2>s1, LockNeeded DEF GuardOK, Careless, Guard, File
  <2>6. SavesShape(op, f, h.saves)
    BY <2>2, <2>s1, <2>5, OneShape
  <2>7. Effects(op, f, h.saves)
    BY <1>32, <2>2, <2>s1, OneSave, PlainEffects DEF Special
  <2> QED
    BY <2>4, <2>6, <2>7
<1>33. CASE op = "store_key"
  <2>1. h = StoreKey(f) /\ h0 = StoreKey(Empty)
    BY <1>33 DEF HandlerOf
  <2> DEFINE s1 == Put(f, "keyfile", {"k"})
             s2 == Put(f, "keys", {"k"})
  <2>t1. "keyfile" \in File /\ {"k"} \in SUBSET Name
    BY DEF File, Name, Grant
  <2>f1. s1.to = f["keyfile"] \cup {"k"}
    BY <2>t1, ConfPutIs
  <2>s1. s1 \in SaveRec /\ s1.name = "keyfile" /\ s1.from = f["keyfile"]
    BY <2>t1, ConfPutIs
  <2>t2. "keys" \in File /\ {"k"} \in SUBSET Name
    BY DEF File, Name, Grant
  <2>f2. s2.to = f["keys"] \cup {"k"}
    BY <2>t2, ConfPutIs
  <2>s2. s2 \in SaveRec /\ s2.name = "keys" /\ s2.from = f["keys"]
    BY <2>t2, ConfPutIs
  <2>b. h = Handler(<<"keys">>, "k" \notin f["keys"] /\ "k" \notin f["keyfile"], <<s1, s2>>)
    BY <2>1 DEF StoreKey
  <2>c. h0 = Handler(<<"keys">>, "k" \notin Empty["keys"] /\ "k" \notin Empty["keyfile"], <<Put(Empty, "keyfile", {"k"}), Put(Empty, "keys", {"k"})>>)
    BY <2>1 DEF StoreKey
  <2>d. h0.locks = <<"keys">>
    BY <2>c, HandlerLocks
  <2> HIDE DEF s1, s2
  <2>2. h.locks = <<"keys">> /\ h0.locks = <<"keys">> /\ h.then = "end" /\ h.saves = <<s1, s2>>
    BY <2>b, <2>d DEF Handler
  <2>l. <<"keys">> \in Seq(File)
    BY DEF File
  <2>4. LocksShape(op, h)
    BY <1>33, <2>2, <2>l DEF LocksShape, ChainOp
  <2>5. GuardOK(op, s1.name) /\ GuardOK(op, s2.name)
    BY <1>33, <2>2, <2>s1, <2>s2, LockNeeded DEF GuardOK, Careless, Guard, File
  <2>6. SavesShape(op, f, h.saves)
    BY <2>2, <2>s1, <2>s2, <2>5, TwoShape
  <2>8. DOMAIN h.saves = {1, 2} /\ Len(h.saves) = 2 /\ h.saves[1] = s1 /\ h.saves[2] = s2
    BY <2>2, <2>s1, <2>s2, TwoSaves
  <2>a. h.ok = ("k" \notin f["keys"] /\ "k" \notin f["keyfile"])
    BY <2>1 DEF Handler, StoreKey
  <2>9. h.ok => "k" \notin f["keys"]
    BY <2>a
  <2>7. h.ok => Effects(op, f, h.saves)
    BY <1>33, <2>2, <2>s1, <2>s2, <2>8, <2>f1, <2>f2, <2>9 DEF Effects, BackedOK, KeyBacked, Backed,
       DomainsOK, Defaults, RemovesOK, SecretsOK, UserEnds, AclTyped, AclOK, Grant, FilesOK, File,
       Entry
  <2> QED
    BY <2>4, <2>6, <2>7
<1>34. CASE op = "toggle_key_archive_state"
  <2>1. h = ToggleKeyArchiveState(f) /\ h0 = ToggleKeyArchiveState(Empty)
    BY <1>34 DEF HandlerOf
  <2> DEFINE s1 == Flip(f, "keys", "k:archived")
  <2>t1. "keys" \in File /\ "k:archived" \in Name
    BY DEF File, Name, Grant
  <2>f1. \A y : y # "k:archived" => (y \in s1.to <=> y \in f["keys"])
    BY <2>t1, FlipTo
  <2>s1. s1 \in SaveRec /\ s1.name = "keys" /\ s1.from = f["keys"]
    BY <2>t1, FlipIs
  <2>b. h = Handler(<<"keys">>, "k" \in f["keys"] /\ ("k:archived" \in f["keys"] \/ UsesKey \notin f["sync"]), <<s1>>)
    BY <2>1 DEF ToggleKeyArchiveState
  <2>c. h0 = Handler(<<"keys">>, "k" \in Empty["keys"] /\ ("k:archived" \in Empty["keys"] \/ UsesKey \notin Empty["sync"]), <<Flip(Empty, "keys", "k:archived")>>)
    BY <2>1 DEF ToggleKeyArchiveState
  <2>d. h0.locks = <<"keys">>
    BY <2>c, HandlerLocks
  <2> HIDE DEF s1
  <2>2. h.locks = <<"keys">> /\ h0.locks = <<"keys">> /\ h.then = "end" /\ h.saves = <<s1>>
    BY <2>b, <2>d DEF Handler
  <2>l. <<"keys">> \in Seq(File)
    BY DEF File
  <2>4. LocksShape(op, h)
    BY <1>34, <2>2, <2>l DEF LocksShape, ChainOp
  <2>5. GuardOK(op, s1.name)
    BY <1>34, <2>2, <2>s1, LockNeeded DEF GuardOK, Careless, Guard, File
  <2>6. SavesShape(op, f, h.saves)
    BY <2>2, <2>s1, <2>5, OneShape
  <2>8. DOMAIN h.saves = {1} /\ Len(h.saves) = 1 /\ h.saves[1] = s1
    BY <2>2, <2>s1, OneSave
  <2>7. Effects(op, f, h.saves)
    BY <1>34, <2>2, <2>s1, <2>8, <2>f1 DEF Effects, BackedOK, KeyBacked, Backed, DomainsOK, Defaults,
       RemovesOK, SecretsOK, UserEnds, AclTyped, AclOK, Grant, FilesOK, File, Entry
  <2> QED
    BY <2>4, <2>6, <2>7
<1>35. CASE op = "delete_key"
  <2>1. h = DeleteKey(f) /\ h0 = DeleteKey(Empty)
    BY <1>35 DEF HandlerOf
  <2> DEFINE s1 == Del(f, "keys", {"k", "k:archived"})
             s2 == Del(f, "keyfile", {"k"})
  <2>t1. "keys" \in File
    BY DEF File, Name, Grant
  <2>f1. s1.to = f["keys"] \ {"k", "k:archived"}
    BY <2>t1, DelIs
  <2>s1. s1 \in SaveRec /\ s1.name = "keys" /\ s1.from = f["keys"]
    BY <2>t1, DelIs
  <2>t2. "keyfile" \in File
    BY DEF File, Name, Grant
  <2>f2. s2.to = f["keyfile"] \ {"k"}
    BY <2>t2, DelIs
  <2>s2. s2 \in SaveRec /\ s2.name = "keyfile" /\ s2.from = f["keyfile"]
    BY <2>t2, DelIs
  <2>b. h = Handler(<<"keys">>, "k:archived" \in f["keys"] /\ ~KeyUsed(f["sync"]), <<s1, s2>>)
    BY <2>1 DEF DeleteKey
  <2>c. h0 = Handler(<<"keys">>, "k:archived" \in Empty["keys"] /\ ~KeyUsed(Empty["sync"]), <<Del(Empty, "keys", {"k", "k:archived"}), Del(Empty, "keyfile", {"k"})>>)
    BY <2>1 DEF DeleteKey
  <2>d. h0.locks = <<"keys">>
    BY <2>c, HandlerLocks
  <2> HIDE DEF s1, s2
  <2>2. h.locks = <<"keys">> /\ h0.locks = <<"keys">> /\ h.then = "end" /\ h.saves = <<s1, s2>>
    BY <2>b, <2>d DEF Handler
  <2>l. <<"keys">> \in Seq(File)
    BY DEF File
  <2>4. LocksShape(op, h)
    BY <1>35, <2>2, <2>l DEF LocksShape, ChainOp
  <2>5. GuardOK(op, s1.name) /\ GuardOK(op, s2.name)
    BY <1>35, <2>2, <2>s1, <2>s2, LockNeeded DEF GuardOK, Careless, Guard, File
  <2>6. SavesShape(op, f, h.saves)
    BY <2>2, <2>s1, <2>s2, <2>5, TwoShape
  <2>8. DOMAIN h.saves = {1, 2} /\ Len(h.saves) = 2 /\ h.saves[1] = s1 /\ h.saves[2] = s2
    BY <2>2, <2>s1, <2>s2, TwoSaves
  <2>a. h.ok = ("k:archived" \in f["keys"] /\ ~KeyUsed(f["sync"]))
    BY <2>1 DEF DeleteKey, Handler
  <2>9. h.ok => ~KeyUsed(f["sync"])
    BY <2>a
  <2>7. h.ok => Effects(op, f, h.saves)
    BY <1>35, <2>2, <2>s1, <2>s2, <2>8, <2>f1, <2>f2, <2>9 DEF Effects, BackedOK, KeyBacked, Backed,
       DomainsOK, Defaults, RemovesOK, SecretsOK, UserEnds, AclTyped, AclOK, Grant, FilesOK, File,
       Entry
  <2> QED
    BY <2>4, <2>6, <2>7
<1>36. CASE op = "create_drive"
  <2>1. h = CreateDrive(f) /\ h0 = CreateDrive(Empty)
    BY <1>36 DEF HandlerOf
  <2> DEFINE s1 == Put(f, "tape", {"drive"})
  <2>t1. "tape" \in File /\ {"drive"} \in SUBSET Name
    BY DEF File, Name, Grant
  <2>f1. s1.to = f["tape"] \cup {"drive"}
    BY <2>t1, ConfPutIs
  <2>s1. s1 \in SaveRec /\ s1.name = "tape" /\ s1.from = f["tape"]
    BY <2>t1, ConfPutIs
  <2> HIDE DEF s1
  <2>2. h.locks = <<"tape">> /\ h0.locks = <<"tape">> /\ h.then = "end" /\ h.saves = <<s1>>
    BY <2>1 DEF CreateDrive, CreateSection, Handler, s1
  <2>l. <<"tape">> \in Seq(File)
    BY DEF File
  <2>4. LocksShape(op, h)
    BY <1>36, <2>2, <2>l DEF LocksShape, ChainOp
  <2>5. GuardOK(op, s1.name)
    BY <1>36, <2>2, <2>s1, LockNeeded DEF GuardOK, Careless, Guard, File
  <2>6. SavesShape(op, f, h.saves)
    BY <2>2, <2>s1, <2>5, OneShape
  <2>8. DOMAIN h.saves = {1} /\ Len(h.saves) = 1 /\ h.saves[1] = s1
    BY <2>2, <2>s1, OneSave
  <2>7. Effects(op, f, h.saves)
    BY <1>36, <2>2, <2>s1, <2>8, <2>f1 DEF Effects, BackedOK, KeyBacked, Backed, DomainsOK, Defaults,
       RemovesOK, SecretsOK, UserEnds, AclTyped, AclOK, Grant, FilesOK, File, Entry
  <2> QED
    BY <2>4, <2>6, <2>7
<1>37. CASE op = "update_drive"
  <2>1. h = UpdateDrive(f) /\ h0 = UpdateDrive(Empty)
    BY <1>37 DEF HandlerOf
  <2> DEFINE s1 == Flip(f, "tape", "drive:changer")
  <2>t1. "tape" \in File /\ "drive:changer" \in Name
    BY DEF File, Name, Grant
  <2>f1. \A y : y # "drive:changer" => (y \in s1.to <=> y \in f["tape"])
    BY <2>t1, FlipTo
  <2>s1. s1 \in SaveRec /\ s1.name = "tape" /\ s1.from = f["tape"]
    BY <2>t1, FlipIs
  <2>b. h = Handler(<<"tape">>, "drive" \in f["tape"] /\ "changer" \in f["tape"], <<s1>>)
    BY <2>1 DEF UpdateDrive
  <2>c. h0 = Handler(<<"tape">>, "drive" \in Empty["tape"] /\ "changer" \in Empty["tape"], <<Flip(Empty, "tape", "drive:changer")>>)
    BY <2>1 DEF UpdateDrive
  <2>d. h0.locks = <<"tape">>
    BY <2>c, HandlerLocks
  <2> HIDE DEF s1
  <2>2. h.locks = <<"tape">> /\ h0.locks = <<"tape">> /\ h.then = "end" /\ h.saves = <<s1>>
    BY <2>b, <2>d DEF Handler
  <2>l. <<"tape">> \in Seq(File)
    BY DEF File
  <2>4. LocksShape(op, h)
    BY <1>37, <2>2, <2>l DEF LocksShape, ChainOp
  <2>5. GuardOK(op, s1.name)
    BY <1>37, <2>2, <2>s1, LockNeeded DEF GuardOK, Careless, Guard, File
  <2>6. SavesShape(op, f, h.saves)
    BY <2>2, <2>s1, <2>5, OneShape
  <2>8. DOMAIN h.saves = {1} /\ Len(h.saves) = 1 /\ h.saves[1] = s1
    BY <2>2, <2>s1, OneSave
  <2>7. Effects(op, f, h.saves)
    BY <1>37, <2>2, <2>s1, <2>8, <2>f1 DEF Effects, BackedOK, KeyBacked, Backed, DomainsOK, Defaults,
       RemovesOK, SecretsOK, UserEnds, AclTyped, AclOK, Grant, FilesOK, File, Entry
  <2> QED
    BY <2>4, <2>6, <2>7
<1>38. CASE op = "delete_drive"
  <2>1. h = DeleteDrive(f) /\ h0 = DeleteDrive(Empty)
    BY <1>38 DEF HandlerOf
  <2> DEFINE s1 == Del(f, "tape", {"drive", "drive:changer"})
  <2>t1. "tape" \in File
    BY DEF File, Name, Grant
  <2>f1. s1.to = f["tape"] \ {"drive", "drive:changer"}
    BY <2>t1, DelIs
  <2>s1. s1 \in SaveRec /\ s1.name = "tape" /\ s1.from = f["tape"]
    BY <2>t1, DelIs
  <2> HIDE DEF s1
  <2>2. h.locks = <<"tape">> /\ h0.locks = <<"tape">> /\ h.then = "end" /\ h.saves = <<s1>>
    BY <2>1 DEF DeleteDrive, DeleteSection, Handler, s1
  <2>l. <<"tape">> \in Seq(File)
    BY DEF File
  <2>4. LocksShape(op, h)
    BY <1>38, <2>2, <2>l DEF LocksShape, ChainOp
  <2>5. GuardOK(op, s1.name)
    BY <1>38, <2>2, <2>s1, LockNeeded DEF GuardOK, Careless, Guard, File
  <2>6. SavesShape(op, f, h.saves)
    BY <2>2, <2>s1, <2>5, OneShape
  <2>8. DOMAIN h.saves = {1} /\ Len(h.saves) = 1 /\ h.saves[1] = s1
    BY <2>2, <2>s1, OneSave
  <2>7. Effects(op, f, h.saves)
    BY <1>38, <2>2, <2>s1, <2>8, <2>f1 DEF Effects, BackedOK, KeyBacked, Backed, DomainsOK, Defaults,
       RemovesOK, SecretsOK, UserEnds, AclTyped, AclOK, Grant, FilesOK, File, Entry
  <2> QED
    BY <2>4, <2>6, <2>7
<1>39. CASE op = "create_changer"
  <2>1. h = CreateChanger(f) /\ h0 = CreateChanger(Empty)
    BY <1>39 DEF HandlerOf
  <2> DEFINE s1 == Put(f, "tape", {"changer"})
  <2>t1. "tape" \in File /\ {"changer"} \in SUBSET Name
    BY DEF File, Name, Grant
  <2>f1. s1.to = f["tape"] \cup {"changer"}
    BY <2>t1, ConfPutIs
  <2>s1. s1 \in SaveRec /\ s1.name = "tape" /\ s1.from = f["tape"]
    BY <2>t1, ConfPutIs
  <2> HIDE DEF s1
  <2>2. h.locks = <<"tape">> /\ h0.locks = <<"tape">> /\ h.then = "end" /\ h.saves = <<s1>>
    BY <2>1 DEF CreateChanger, CreateSection, Handler, s1
  <2>l. <<"tape">> \in Seq(File)
    BY DEF File
  <2>4. LocksShape(op, h)
    BY <1>39, <2>2, <2>l DEF LocksShape, ChainOp
  <2>5. GuardOK(op, s1.name)
    BY <1>39, <2>2, <2>s1, LockNeeded DEF GuardOK, Careless, Guard, File
  <2>6. SavesShape(op, f, h.saves)
    BY <2>2, <2>s1, <2>5, OneShape
  <2>8. DOMAIN h.saves = {1} /\ Len(h.saves) = 1 /\ h.saves[1] = s1
    BY <2>2, <2>s1, OneSave
  <2>7. Effects(op, f, h.saves)
    BY <1>39, <2>2, <2>s1, <2>8, <2>f1 DEF Effects, BackedOK, KeyBacked, Backed, DomainsOK, Defaults,
       RemovesOK, SecretsOK, UserEnds, AclTyped, AclOK, Grant, FilesOK, File, Entry
  <2> QED
    BY <2>4, <2>6, <2>7
<1>40. CASE op = "update_changer"
  <2>1. h = UpdateChanger(f) /\ h0 = UpdateChanger(Empty)
    BY <1>40 DEF HandlerOf
  <2> DEFINE s1 == Flip(f, "tape", "changer*")
  <2>t1. "tape" \in File /\ "changer*" \in Name
    BY DEF File, Name, Grant
  <2>f1. \A y : y # "changer*" => (y \in s1.to <=> y \in f["tape"])
    BY <2>t1, FlipTo
  <2>s1. s1 \in SaveRec /\ s1.name = "tape" /\ s1.from = f["tape"]
    BY <2>t1, FlipIs
  <2> HIDE DEF s1
  <2>2. h.locks = <<"tape">> /\ h0.locks = <<"tape">> /\ h.then = "end" /\ h.saves = <<s1>>
    BY <2>1 DEF Handler, UpdateChanger, UpdateSection, s1
  <2>l. <<"tape">> \in Seq(File)
    BY DEF File
  <2>4. LocksShape(op, h)
    BY <1>40, <2>2, <2>l DEF LocksShape, ChainOp
  <2>5. GuardOK(op, s1.name)
    BY <1>40, <2>2, <2>s1, LockNeeded DEF GuardOK, Careless, Guard, File
  <2>6. SavesShape(op, f, h.saves)
    BY <2>2, <2>s1, <2>5, OneShape
  <2>8. DOMAIN h.saves = {1} /\ Len(h.saves) = 1 /\ h.saves[1] = s1
    BY <2>2, <2>s1, OneSave
  <2>7. Effects(op, f, h.saves)
    BY <1>40, <2>2, <2>s1, <2>8, <2>f1 DEF Effects, BackedOK, KeyBacked, Backed, DomainsOK, Defaults,
       RemovesOK, SecretsOK, UserEnds, AclTyped, AclOK, Grant, FilesOK, File, Entry
  <2> QED
    BY <2>4, <2>6, <2>7
<1>41. CASE op = "delete_changer"
  <2>1. h = DeleteChanger(f) /\ h0 = DeleteChanger(Empty)
    BY <1>41 DEF HandlerOf
  <2> DEFINE s1 == Del(f, "tape", {"changer", "changer*"})
  <2>t1. "tape" \in File
    BY DEF File, Name, Grant
  <2>f1. s1.to = f["tape"] \ {"changer", "changer*"}
    BY <2>t1, DelIs
  <2>s1. s1 \in SaveRec /\ s1.name = "tape" /\ s1.from = f["tape"]
    BY <2>t1, DelIs
  <2>b. h = Handler(<<"tape">>, "changer" \in f["tape"] /\ "drive:changer" \notin f["tape"], <<s1>>)
    BY <2>1 DEF DeleteChanger
  <2>c. h0 = Handler(<<"tape">>, "changer" \in Empty["tape"] /\ "drive:changer" \notin Empty["tape"], <<Del(Empty, "tape", {"changer", "changer*"})>>)
    BY <2>1 DEF DeleteChanger
  <2>d. h0.locks = <<"tape">>
    BY <2>c, HandlerLocks
  <2> HIDE DEF s1
  <2>2. h.locks = <<"tape">> /\ h0.locks = <<"tape">> /\ h.then = "end" /\ h.saves = <<s1>>
    BY <2>b, <2>d DEF Handler
  <2>l. <<"tape">> \in Seq(File)
    BY DEF File
  <2>4. LocksShape(op, h)
    BY <1>41, <2>2, <2>l DEF LocksShape, ChainOp
  <2>5. GuardOK(op, s1.name)
    BY <1>41, <2>2, <2>s1, LockNeeded DEF GuardOK, Careless, Guard, File
  <2>6. SavesShape(op, f, h.saves)
    BY <2>2, <2>s1, <2>5, OneShape
  <2>8. DOMAIN h.saves = {1} /\ Len(h.saves) = 1 /\ h.saves[1] = s1
    BY <2>2, <2>s1, OneSave
  <2>a. h.ok = ("changer" \in f["tape"] /\ "drive:changer" \notin f["tape"])
    BY <2>1 DEF DeleteChanger, Handler
  <2>9. h.ok => "drive:changer" \notin f["tape"]
    BY <2>a
  <2>7. h.ok => Effects(op, f, h.saves)
    BY <1>41, <2>2, <2>s1, <2>8, <2>f1, <2>9 DEF Effects, BackedOK, KeyBacked, Backed, DomainsOK,
       Defaults, RemovesOK, SecretsOK, UserEnds, AclTyped, AclOK, Grant, FilesOK, File, Entry
  <2> QED
    BY <2>4, <2>6, <2>7
<1>42. CASE op = "create_pool"
  <2>1. h = CreatePool(f) /\ h0 = CreatePool(Empty)
    BY <1>42 DEF HandlerOf
  <2> DEFINE s1 == Put(f, "pool", {"pool"})
  <2>t1. "pool" \in File /\ {"pool"} \in SUBSET Name
    BY DEF File, Name, Grant
  <2>s1. s1 \in SaveRec /\ s1.name = "pool" /\ s1.from = f["pool"]
    BY <2>t1, ConfPutIs
  <2> HIDE DEF s1
  <2>2. h.locks = <<"pool">> /\ h0.locks = <<"pool">> /\ h.then = "end" /\ h.saves = <<s1>>
    BY <2>1 DEF CreatePool, CreateSection, Handler, s1
  <2>l. <<"pool">> \in Seq(File)
    BY DEF File
  <2>4. LocksShape(op, h)
    BY <1>42, <2>2, <2>l DEF LocksShape, ChainOp
  <2>5. GuardOK(op, s1.name)
    BY <1>42, <2>2, <2>s1, LockNeeded DEF GuardOK, Careless, Guard, File
  <2>6. SavesShape(op, f, h.saves)
    BY <2>2, <2>s1, <2>5, OneShape
  <2>7. Effects(op, f, h.saves)
    BY <1>42, <2>2, <2>s1, OneSave, PlainEffects DEF Special
  <2> QED
    BY <2>4, <2>6, <2>7
<1>43. CASE op = "update_pool"
  <2>1. h = UpdatePool(f) /\ h0 = UpdatePool(Empty)
    BY <1>43 DEF HandlerOf
  <2> DEFINE s1 == Flip(f, "pool", "pool*")
  <2>t1. "pool" \in File /\ "pool*" \in Name
    BY DEF File, Name, Grant
  <2>s1. s1 \in SaveRec /\ s1.name = "pool" /\ s1.from = f["pool"]
    BY <2>t1, FlipIs
  <2> HIDE DEF s1
  <2>2. h.locks = <<"pool">> /\ h0.locks = <<"pool">> /\ h.then = "end" /\ h.saves = <<s1>>
    BY <2>1 DEF Handler, UpdatePool, UpdateSection, s1
  <2>l. <<"pool">> \in Seq(File)
    BY DEF File
  <2>4. LocksShape(op, h)
    BY <1>43, <2>2, <2>l DEF LocksShape, ChainOp
  <2>5. GuardOK(op, s1.name)
    BY <1>43, <2>2, <2>s1, LockNeeded DEF GuardOK, Careless, Guard, File
  <2>6. SavesShape(op, f, h.saves)
    BY <2>2, <2>s1, <2>5, OneShape
  <2>7. Effects(op, f, h.saves)
    BY <1>43, <2>2, <2>s1, OneSave, PlainEffects DEF Special
  <2> QED
    BY <2>4, <2>6, <2>7
<1>44. CASE op = "delete_pool"
  <2>1. h = DeletePool(f) /\ h0 = DeletePool(Empty)
    BY <1>44 DEF HandlerOf
  <2> DEFINE s1 == Del(f, "pool", {"pool", "pool*"})
  <2>t1. "pool" \in File
    BY DEF File, Name, Grant
  <2>s1. s1 \in SaveRec /\ s1.name = "pool" /\ s1.from = f["pool"]
    BY <2>t1, DelIs
  <2> HIDE DEF s1
  <2>2. h.locks = <<"pool">> /\ h0.locks = <<"pool">> /\ h.then = "end" /\ h.saves = <<s1>>
    BY <2>1 DEF DeletePool, DeleteSection, Handler, s1
  <2>l. <<"pool">> \in Seq(File)
    BY DEF File
  <2>4. LocksShape(op, h)
    BY <1>44, <2>2, <2>l DEF LocksShape, ChainOp
  <2>5. GuardOK(op, s1.name)
    BY <1>44, <2>2, <2>s1, LockNeeded DEF GuardOK, Careless, Guard, File
  <2>6. SavesShape(op, f, h.saves)
    BY <2>2, <2>s1, <2>5, OneShape
  <2>7. Effects(op, f, h.saves)
    BY <1>44, <2>2, <2>s1, OneSave, PlainEffects DEF Special
  <2> QED
    BY <2>4, <2>6, <2>7
<1>45. CASE op = "create_tape_backup_job"
  <2>1. h = CreateTapeBackupJob(f) /\ h0 = CreateTapeBackupJob(Empty)
    BY <1>45 DEF HandlerOf
  <2> DEFINE s1 == Put(f, "tapejob", {"t"})
  <2>t1. "tapejob" \in File /\ {"t"} \in SUBSET Name
    BY DEF File, Name, Grant
  <2>s1. s1 \in SaveRec /\ s1.name = "tapejob" /\ s1.from = f["tapejob"]
    BY <2>t1, ConfPutIs
  <2> HIDE DEF s1
  <2>2. h.locks = <<"tapejob">> /\ h0.locks = <<"tapejob">> /\ h.then = "end" /\ h.saves = <<s1>>
    BY <2>1 DEF CreateSection, CreateTapeBackupJob, Handler, s1
  <2>l. <<"tapejob">> \in Seq(File)
    BY DEF File
  <2>4. LocksShape(op, h)
    BY <1>45, <2>2, <2>l DEF LocksShape, ChainOp
  <2>5. GuardOK(op, s1.name)
    BY <1>45, <2>2, <2>s1, LockNeeded DEF GuardOK, Careless, Guard, File
  <2>6. SavesShape(op, f, h.saves)
    BY <2>2, <2>s1, <2>5, OneShape
  <2>7. Effects(op, f, h.saves)
    BY <1>45, <2>2, <2>s1, OneSave, PlainEffects DEF Special
  <2> QED
    BY <2>4, <2>6, <2>7
<1>46. CASE op = "update_tape_backup_job"
  <2>1. h = UpdateTapeBackupJob(f) /\ h0 = UpdateTapeBackupJob(Empty)
    BY <1>46 DEF HandlerOf
  <2> DEFINE s1 == Flip(f, "tapejob", "t*")
  <2>t1. "tapejob" \in File /\ "t*" \in Name
    BY DEF File, Name, Grant
  <2>s1. s1 \in SaveRec /\ s1.name = "tapejob" /\ s1.from = f["tapejob"]
    BY <2>t1, FlipIs
  <2> HIDE DEF s1
  <2>2. h.locks = <<"tapejob">> /\ h0.locks = <<"tapejob">> /\ h.then = "end" /\ h.saves = <<s1>>
    BY <2>1 DEF Handler, UpdateSection, UpdateTapeBackupJob, s1
  <2>l. <<"tapejob">> \in Seq(File)
    BY DEF File
  <2>4. LocksShape(op, h)
    BY <1>46, <2>2, <2>l DEF LocksShape, ChainOp
  <2>5. GuardOK(op, s1.name)
    BY <1>46, <2>2, <2>s1, LockNeeded DEF GuardOK, Careless, Guard, File
  <2>6. SavesShape(op, f, h.saves)
    BY <2>2, <2>s1, <2>5, OneShape
  <2>7. Effects(op, f, h.saves)
    BY <1>46, <2>2, <2>s1, OneSave, PlainEffects DEF Special
  <2> QED
    BY <2>4, <2>6, <2>7
<1>47. CASE op = "delete_tape_backup_job"
  <2>1. h = DeleteTapeBackupJob(f) /\ h0 = DeleteTapeBackupJob(Empty)
    BY <1>47 DEF HandlerOf
  <2> DEFINE s1 == Del(f, "tapejob", {"t", "t*"})
  <2>t1. "tapejob" \in File
    BY DEF File, Name, Grant
  <2>s1. s1 \in SaveRec /\ s1.name = "tapejob" /\ s1.from = f["tapejob"]
    BY <2>t1, DelIs
  <2> HIDE DEF s1
  <2>2. h.locks = <<"tapejob">> /\ h0.locks = <<"tapejob">> /\ h.then = "end" /\ h.saves = <<s1>>
    BY <2>1 DEF DeleteSection, DeleteTapeBackupJob, Handler, s1
  <2>l. <<"tapejob">> \in Seq(File)
    BY DEF File
  <2>4. LocksShape(op, h)
    BY <1>47, <2>2, <2>l DEF LocksShape, ChainOp
  <2>5. GuardOK(op, s1.name)
    BY <1>47, <2>2, <2>s1, LockNeeded DEF GuardOK, Careless, Guard, File
  <2>6. SavesShape(op, f, h.saves)
    BY <2>2, <2>s1, <2>5, OneShape
  <2>7. Effects(op, f, h.saves)
    BY <1>47, <2>2, <2>s1, OneSave, PlainEffects DEF Special
  <2> QED
    BY <2>4, <2>6, <2>7
<1>48. CASE op = "insert_tape_key"
  <2>1. h = InsertTapeKey(f) /\ h0 = InsertTapeKey(Empty)
    BY <1>48 DEF HandlerOf
  <2> DEFINE s1 == Put(f, "tapekeys", {"x"})
             s2 == Put(f, "tapekeyconf", {"x"})
  <2>t1. "tapekeys" \in File /\ {"x"} \in SUBSET Name
    BY DEF File, Name, Grant
  <2>f1. s1.to = f["tapekeys"] \cup {"x"}
    BY <2>t1, ConfPutIs
  <2>s1. s1 \in SaveRec /\ s1.name = "tapekeys" /\ s1.from = f["tapekeys"]
    BY <2>t1, ConfPutIs
  <2>t2. "tapekeyconf" \in File /\ {"x"} \in SUBSET Name
    BY DEF File, Name, Grant
  <2>f2. s2.to = f["tapekeyconf"] \cup {"x"}
    BY <2>t2, ConfPutIs
  <2>s2. s2 \in SaveRec /\ s2.name = "tapekeyconf" /\ s2.from = f["tapekeyconf"]
    BY <2>t2, ConfPutIs
  <2>b. h = Handler(<<"tapekeys">>, "x" \notin f["tapekeyconf"], <<s1, s2>>)
    BY <2>1 DEF InsertTapeKey
  <2>c. h0 = Handler(<<"tapekeys">>, "x" \notin Empty["tapekeyconf"], <<Put(Empty, "tapekeys", {"x"}), Put(Empty, "tapekeyconf", {"x"})>>)
    BY <2>1 DEF InsertTapeKey
  <2>d. h0.locks = <<"tapekeys">>
    BY <2>c, HandlerLocks
  <2> HIDE DEF s1, s2
  <2>2. h.locks = <<"tapekeys">> /\ h0.locks = <<"tapekeys">> /\ h.then = "end" /\ h.saves = <<s1, s2>>
    BY <2>b, <2>d DEF Handler
  <2>l. <<"tapekeys">> \in Seq(File)
    BY DEF File
  <2>4. LocksShape(op, h)
    BY <1>48, <2>2, <2>l DEF LocksShape, ChainOp
  <2>5. GuardOK(op, s1.name) /\ GuardOK(op, s2.name)
    BY <1>48, <2>2, <2>s1, <2>s2, LockNeeded DEF GuardOK, Careless, Guard, File
  <2>6. SavesShape(op, f, h.saves)
    BY <2>2, <2>s1, <2>s2, <2>5, TwoShape
  <2>8. DOMAIN h.saves = {1, 2} /\ Len(h.saves) = 2 /\ h.saves[1] = s1 /\ h.saves[2] = s2
    BY <2>2, <2>s1, <2>s2, TwoSaves
  <2>7. Effects(op, f, h.saves)
    BY <1>48, <2>2, <2>s1, <2>s2, <2>8, <2>f1, <2>f2 DEF Effects, BackedOK, KeyBacked, Backed, DomainsOK,
       Defaults, RemovesOK, SecretsOK, UserEnds, AclTyped, AclOK, Grant, FilesOK, File, Entry
  <2> QED
    BY <2>4, <2>6, <2>7
<1>49. CASE op = "change_passphrase"
  <2>1. h = ChangePassphrase(f) /\ h0 = ChangePassphrase(Empty)
    BY <1>49 DEF HandlerOf
  <2> DEFINE s1 == Flip(f, "tapekeyconf", "x*")
  <2>t1. "tapekeyconf" \in File /\ "x*" \in Name
    BY DEF File, Name, Grant
  <2>f1. \A y : y # "x*" => (y \in s1.to <=> y \in f["tapekeyconf"])
    BY <2>t1, FlipTo
  <2>s1. s1 \in SaveRec /\ s1.name = "tapekeyconf" /\ s1.from = f["tapekeyconf"]
    BY <2>t1, FlipIs
  <2>b. h = Handler(<<"tapekeys">>, "x" \in f["tapekeyconf"], <<s1>>)
    BY <2>1 DEF ChangePassphrase
  <2>c. h0 = Handler(<<"tapekeys">>, "x" \in Empty["tapekeyconf"], <<Flip(Empty, "tapekeyconf", "x*")>>)
    BY <2>1 DEF ChangePassphrase
  <2>d. h0.locks = <<"tapekeys">>
    BY <2>c, HandlerLocks
  <2> HIDE DEF s1
  <2>2. h.locks = <<"tapekeys">> /\ h0.locks = <<"tapekeys">> /\ h.then = "end" /\ h.saves = <<s1>>
    BY <2>b, <2>d DEF Handler
  <2>l. <<"tapekeys">> \in Seq(File)
    BY DEF File
  <2>4. LocksShape(op, h)
    BY <1>49, <2>2, <2>l DEF LocksShape, ChainOp
  <2>5. GuardOK(op, s1.name)
    BY <1>49, <2>2, <2>s1, LockNeeded DEF GuardOK, Careless, Guard, File
  <2>6. SavesShape(op, f, h.saves)
    BY <2>2, <2>s1, <2>5, OneShape
  <2>8. DOMAIN h.saves = {1} /\ Len(h.saves) = 1 /\ h.saves[1] = s1
    BY <2>2, <2>s1, OneSave
  <2>7. Effects(op, f, h.saves)
    BY <1>49, <2>2, <2>s1, <2>8, <2>f1 DEF Effects, BackedOK, KeyBacked, Backed, DomainsOK, Defaults,
       RemovesOK, SecretsOK, UserEnds, AclTyped, AclOK, Grant, FilesOK, File, Entry
  <2> QED
    BY <2>4, <2>6, <2>7
<1>50. CASE op = "delete_tape_key"
  <2>1. h = DeleteTapeKey(f) /\ h0 = DeleteTapeKey(Empty)
    BY <1>50 DEF HandlerOf
  <2> DEFINE s1 == Del(f, "tapekeyconf", {"x", "x*"})
             s2 == Del(f, "tapekeys", {"x"})
  <2>t1. "tapekeyconf" \in File
    BY DEF File, Name, Grant
  <2>f1. s1.to = f["tapekeyconf"] \ {"x", "x*"}
    BY <2>t1, DelIs
  <2>s1. s1 \in SaveRec /\ s1.name = "tapekeyconf" /\ s1.from = f["tapekeyconf"]
    BY <2>t1, DelIs
  <2>t2. "tapekeys" \in File
    BY DEF File, Name, Grant
  <2>f2. s2.to = f["tapekeys"] \ {"x"}
    BY <2>t2, DelIs
  <2>s2. s2 \in SaveRec /\ s2.name = "tapekeys" /\ s2.from = f["tapekeys"]
    BY <2>t2, DelIs
  <2>b. h = Handler(<<"tapekeys">>, "x" \in f["tapekeyconf"], <<s1, s2>>)
    BY <2>1 DEF DeleteTapeKey
  <2>c. h0 = Handler(<<"tapekeys">>, "x" \in Empty["tapekeyconf"], <<Del(Empty, "tapekeyconf", {"x", "x*"}), Del(Empty, "tapekeys", {"x"})>>)
    BY <2>1 DEF DeleteTapeKey
  <2>d. h0.locks = <<"tapekeys">>
    BY <2>c, HandlerLocks
  <2> HIDE DEF s1, s2
  <2>2. h.locks = <<"tapekeys">> /\ h0.locks = <<"tapekeys">> /\ h.then = "end" /\ h.saves = <<s1, s2>>
    BY <2>b, <2>d DEF Handler
  <2>l. <<"tapekeys">> \in Seq(File)
    BY DEF File
  <2>4. LocksShape(op, h)
    BY <1>50, <2>2, <2>l DEF LocksShape, ChainOp
  <2>5. GuardOK(op, s1.name) /\ GuardOK(op, s2.name)
    BY <1>50, <2>2, <2>s1, <2>s2, LockNeeded DEF GuardOK, Careless, Guard, File
  <2>6. SavesShape(op, f, h.saves)
    BY <2>2, <2>s1, <2>s2, <2>5, TwoShape
  <2>8. DOMAIN h.saves = {1, 2} /\ Len(h.saves) = 2 /\ h.saves[1] = s1 /\ h.saves[2] = s2
    BY <2>2, <2>s1, <2>s2, TwoSaves
  <2>7. Effects(op, f, h.saves)
    BY <1>50, <2>2, <2>s1, <2>s2, <2>8, <2>f1, <2>f2 DEF Effects, BackedOK, KeyBacked, Backed, DomainsOK,
       Defaults, RemovesOK, SecretsOK, UserEnds, AclTyped, AclOK, Grant, FilesOK, File, Entry
  <2> QED
    BY <2>4, <2>6, <2>7
<1>51. CASE op = "create_ldap_realm"
  <2>1. h = CreateLdapRealm(f) /\ h0 = CreateLdapRealm(Empty)
    BY <1>51 DEF HandlerOf
  <2> DEFINE s1 == Put(f, "bind", {"ldap"})
             s2 == SetRealm(f, "ldap", TRUE)
  <2>t1. "bind" \in File /\ {"ldap"} \in SUBSET Name
    BY DEF File, Name, Grant
  <2>s1. s1 \in SaveRec /\ s1.name = "bind" /\ s1.from = f["bind"]
    BY <2>t1, ConfPutIs
  <2>t2. "domains" \in File
    BY DEF File, Name, Grant
  <2>f2. s2.to \subseteq RealmEntry /\ (Defaults(f["domains"]) => Defaults(s2.to))
    BY <2>t2, SetRealmIs
  <2>s2. s2 \in SaveRec /\ s2.name = "domains" /\ s2.from = f["domains"]
    BY <2>t2, SetRealmIs
  <2>b. h = Handler(<<"domains">>, ~HasRealm(f, "ldap"), <<s1, s2>>)
    BY <2>1 DEF CreateLdapRealm
  <2>c. h0 = Handler(<<"domains">>, ~HasRealm(Empty, "ldap"), <<Put(Empty, "bind", {"ldap"}), SetRealm(Empty, "ldap", TRUE)>>)
    BY <2>1 DEF CreateLdapRealm
  <2>d. h0.locks = <<"domains">>
    BY <2>c, HandlerLocks
  <2> HIDE DEF s1, s2
  <2>2. h.locks = <<"domains">> /\ h0.locks = <<"domains">> /\ h.then = "end" /\ h.saves = <<s1, s2>>
    BY <2>b, <2>d DEF Handler
  <2>l. <<"domains">> \in Seq(File)
    BY DEF File
  <2>4. LocksShape(op, h)
    BY <1>51, <2>2, <2>l DEF LocksShape, ChainOp
  <2>5. GuardOK(op, s1.name) /\ GuardOK(op, s2.name)
    BY <1>51, <2>2, <2>s1, <2>s2, LockNeeded DEF GuardOK, Careless, Guard, File
  <2>6. SavesShape(op, f, h.saves)
    BY <2>2, <2>s1, <2>s2, <2>5, TwoShape
  <2>8. DOMAIN h.saves = {1, 2} /\ Len(h.saves) = 2 /\ h.saves[1] = s1 /\ h.saves[2] = s2
    BY <2>2, <2>s1, <2>s2, TwoSaves
  <2>7. Effects(op, f, h.saves)
    BY <1>51, <2>2, <2>s1, <2>s2, <2>8, <2>f2 DEF Effects, BackedOK, KeyBacked, Backed, DomainsOK, Defaults,
       RemovesOK, SecretsOK, UserEnds, AclTyped, AclOK, Grant, FilesOK, File, Entry
  <2> QED
    BY <2>4, <2>6, <2>7
<1>52. CASE op = "update_ldap_realm"
  <2>1. h = UpdateLdapRealm(f) /\ h0 = UpdateLdapRealm(Empty)
    BY <1>52 DEF HandlerOf
  <2> DEFINE s1 == Flip(f, "bind", "ldap")
             s2 == SetRealm(f, "ldap", TRUE)
  <2>t1. "bind" \in File /\ "ldap" \in Name
    BY DEF File, Name, Grant
  <2>s1. s1 \in SaveRec /\ s1.name = "bind" /\ s1.from = f["bind"]
    BY <2>t1, FlipIs
  <2>t2. "domains" \in File
    BY DEF File, Name, Grant
  <2>f2. s2.to \subseteq RealmEntry /\ (Defaults(f["domains"]) => Defaults(s2.to))
    BY <2>t2, SetRealmIs
  <2>s2. s2 \in SaveRec /\ s2.name = "domains" /\ s2.from = f["domains"]
    BY <2>t2, SetRealmIs
  <2>b. h = Handler(<<"domains">>, HasRealm(f, "ldap"), <<s1, s2>>)
    BY <2>1 DEF UpdateLdapRealm
  <2>c. h0 = Handler(<<"domains">>, HasRealm(Empty, "ldap"), <<Flip(Empty, "bind", "ldap"), SetRealm(Empty, "ldap", TRUE)>>)
    BY <2>1 DEF UpdateLdapRealm
  <2>d. h0.locks = <<"domains">>
    BY <2>c, HandlerLocks
  <2> HIDE DEF s1, s2
  <2>2. h.locks = <<"domains">> /\ h0.locks = <<"domains">> /\ h.then = "end" /\ h.saves = <<s1, s2>>
    BY <2>b, <2>d DEF Handler
  <2>l. <<"domains">> \in Seq(File)
    BY DEF File
  <2>4. LocksShape(op, h)
    BY <1>52, <2>2, <2>l DEF LocksShape, ChainOp
  <2>5. GuardOK(op, s1.name) /\ GuardOK(op, s2.name)
    BY <1>52, <2>2, <2>s1, <2>s2, LockNeeded DEF GuardOK, Careless, Guard, File
  <2>6. SavesShape(op, f, h.saves)
    BY <2>2, <2>s1, <2>s2, <2>5, TwoShape
  <2>8. DOMAIN h.saves = {1, 2} /\ Len(h.saves) = 2 /\ h.saves[1] = s1 /\ h.saves[2] = s2
    BY <2>2, <2>s1, <2>s2, TwoSaves
  <2>7. Effects(op, f, h.saves)
    BY <1>52, <2>2, <2>s1, <2>s2, <2>8, <2>f2 DEF Effects, BackedOK, KeyBacked, Backed, DomainsOK, Defaults,
       RemovesOK, SecretsOK, UserEnds, AclTyped, AclOK, Grant, FilesOK, File, Entry
  <2> QED
    BY <2>4, <2>6, <2>7
<1>53. CASE op = "delete_ldap_realm"
  <2>1. h = DeleteLdapRealm(f) /\ h0 = DeleteLdapRealm(Empty)
    BY <1>53 DEF HandlerOf
  <2> DEFINE s1 == DelRealm(f, "ldap")
             s2 == Del(f, "bind", {"ldap"})
  <2>t1. "domains" \in File
    BY DEF File, Name, Grant
  <2>f1. s1.to \subseteq f["domains"]
    BY <2>t1, DelRealmIs
  <2>s1. s1 \in SaveRec /\ s1.name = "domains" /\ s1.from = f["domains"]
    BY <2>t1, DelRealmIs
  <2>t2. "bind" \in File
    BY DEF File, Name, Grant
  <2>s2. s2 \in SaveRec /\ s2.name = "bind" /\ s2.from = f["bind"]
    BY <2>t2, DelIs
  <2>b. h = Handler(<<"domains">>, HasRealm(f, "ldap"), <<s1, s2>>)
    BY <2>1 DEF DeleteLdapRealm
  <2>c. h0 = Handler(<<"domains">>, HasRealm(Empty, "ldap"), <<DelRealm(Empty, "ldap"), Del(Empty, "bind", {"ldap"})>>)
    BY <2>1 DEF DeleteLdapRealm
  <2>d. h0.locks = <<"domains">>
    BY <2>c, HandlerLocks
  <2> HIDE DEF s1, s2
  <2>2. h.locks = <<"domains">> /\ h0.locks = <<"domains">> /\ h.then = "end" /\ h.saves = <<s1, s2>>
    BY <2>b, <2>d DEF Handler
  <2>l. <<"domains">> \in Seq(File)
    BY DEF File
  <2>4. LocksShape(op, h)
    BY <1>53, <2>2, <2>l DEF LocksShape, ChainOp
  <2>5. GuardOK(op, s1.name) /\ GuardOK(op, s2.name)
    BY <1>53, <2>2, <2>s1, <2>s2, LockNeeded DEF GuardOK, Careless, Guard, File
  <2>6. SavesShape(op, f, h.saves)
    BY <2>2, <2>s1, <2>s2, <2>5, TwoShape
  <2>8. DOMAIN h.saves = {1, 2} /\ Len(h.saves) = 2 /\ h.saves[1] = s1 /\ h.saves[2] = s2
    BY <2>2, <2>s1, <2>s2, TwoSaves
  <2>7. Effects(op, f, h.saves)
    BY <1>53, <2>2, <2>s1, <2>s2, <2>8, <2>f1 DEF Effects, BackedOK, KeyBacked, Backed, DomainsOK, Defaults,
       RemovesOK, SecretsOK, UserEnds, AclTyped, AclOK, Grant, FilesOK, File, Entry
  <2> QED
    BY <2>4, <2>6, <2>7
<1>54. CASE op = "create_ad_realm"
  <2>1. h = CreateAdRealm(f) /\ h0 = CreateAdRealm(Empty)
    BY <1>54 DEF HandlerOf
  <2> DEFINE s1 == Put(f, "bind", {"ad"})
             s2 == SetRealm(f, "ad", FALSE)
  <2>t1. "bind" \in File /\ {"ad"} \in SUBSET Name
    BY DEF File, Name, Grant
  <2>s1. s1 \in SaveRec /\ s1.name = "bind" /\ s1.from = f["bind"]
    BY <2>t1, ConfPutIs
  <2>t2. "domains" \in File
    BY DEF File, Name, Grant
  <2>f2. s2.to \subseteq RealmEntry /\ (Defaults(f["domains"]) => Defaults(s2.to))
    BY <2>t2, SetRealmIs
  <2>s2. s2 \in SaveRec /\ s2.name = "domains" /\ s2.from = f["domains"]
    BY <2>t2, SetRealmIs
  <2>b. h = Handler(<<"domains">>, ~HasRealm(f, "ad"), <<s1, s2>>)
    BY <2>1 DEF CreateAdRealm
  <2>c. h0 = Handler(<<"domains">>, ~HasRealm(Empty, "ad"), <<Put(Empty, "bind", {"ad"}), SetRealm(Empty, "ad", FALSE)>>)
    BY <2>1 DEF CreateAdRealm
  <2>d. h0.locks = <<"domains">>
    BY <2>c, HandlerLocks
  <2> HIDE DEF s1, s2
  <2>2. h.locks = <<"domains">> /\ h0.locks = <<"domains">> /\ h.then = "end" /\ h.saves = <<s1, s2>>
    BY <2>b, <2>d DEF Handler
  <2>l. <<"domains">> \in Seq(File)
    BY DEF File
  <2>4. LocksShape(op, h)
    BY <1>54, <2>2, <2>l DEF LocksShape, ChainOp
  <2>5. GuardOK(op, s1.name) /\ GuardOK(op, s2.name)
    BY <1>54, <2>2, <2>s1, <2>s2, LockNeeded DEF GuardOK, Careless, Guard, File
  <2>6. SavesShape(op, f, h.saves)
    BY <2>2, <2>s1, <2>s2, <2>5, TwoShape
  <2>8. DOMAIN h.saves = {1, 2} /\ Len(h.saves) = 2 /\ h.saves[1] = s1 /\ h.saves[2] = s2
    BY <2>2, <2>s1, <2>s2, TwoSaves
  <2>7. Effects(op, f, h.saves)
    BY <1>54, <2>2, <2>s1, <2>s2, <2>8, <2>f2 DEF Effects, BackedOK, KeyBacked, Backed, DomainsOK, Defaults,
       RemovesOK, SecretsOK, UserEnds, AclTyped, AclOK, Grant, FilesOK, File, Entry
  <2> QED
    BY <2>4, <2>6, <2>7
<1>55. CASE op = "update_ad_realm"
  <2>1. h = UpdateAdRealm(f) /\ h0 = UpdateAdRealm(Empty)
    BY <1>55 DEF HandlerOf
  <2> DEFINE s1 == Flip(f, "bind", "ad")
             s2 == SetRealm(f, "ad", TRUE)
  <2>t1. "bind" \in File /\ "ad" \in Name
    BY DEF File, Name, Grant
  <2>s1. s1 \in SaveRec /\ s1.name = "bind" /\ s1.from = f["bind"]
    BY <2>t1, FlipIs
  <2>t2. "domains" \in File
    BY DEF File, Name, Grant
  <2>f2. s2.to \subseteq RealmEntry /\ (Defaults(f["domains"]) => Defaults(s2.to))
    BY <2>t2, SetRealmIs
  <2>s2. s2 \in SaveRec /\ s2.name = "domains" /\ s2.from = f["domains"]
    BY <2>t2, SetRealmIs
  <2>b. h = Handler(<<"domains">>, HasRealm(f, "ad"), <<s1, s2>>)
    BY <2>1 DEF UpdateAdRealm
  <2>c. h0 = Handler(<<"domains">>, HasRealm(Empty, "ad"), <<Flip(Empty, "bind", "ad"), SetRealm(Empty, "ad", TRUE)>>)
    BY <2>1 DEF UpdateAdRealm
  <2>d. h0.locks = <<"domains">>
    BY <2>c, HandlerLocks
  <2> HIDE DEF s1, s2
  <2>2. h.locks = <<"domains">> /\ h0.locks = <<"domains">> /\ h.then = "end" /\ h.saves = <<s1, s2>>
    BY <2>b, <2>d DEF Handler
  <2>l. <<"domains">> \in Seq(File)
    BY DEF File
  <2>4. LocksShape(op, h)
    BY <1>55, <2>2, <2>l DEF LocksShape, ChainOp
  <2>5. GuardOK(op, s1.name) /\ GuardOK(op, s2.name)
    BY <1>55, <2>2, <2>s1, <2>s2, LockNeeded DEF GuardOK, Careless, Guard, File
  <2>6. SavesShape(op, f, h.saves)
    BY <2>2, <2>s1, <2>s2, <2>5, TwoShape
  <2>8. DOMAIN h.saves = {1, 2} /\ Len(h.saves) = 2 /\ h.saves[1] = s1 /\ h.saves[2] = s2
    BY <2>2, <2>s1, <2>s2, TwoSaves
  <2>7. Effects(op, f, h.saves)
    BY <1>55, <2>2, <2>s1, <2>s2, <2>8, <2>f2 DEF Effects, BackedOK, KeyBacked, Backed, DomainsOK, Defaults,
       RemovesOK, SecretsOK, UserEnds, AclTyped, AclOK, Grant, FilesOK, File, Entry
  <2> QED
    BY <2>4, <2>6, <2>7
<1>56. CASE op = "create_openid_realm"
  <2>1. h = CreateOpenidRealm(f) /\ h0 = CreateOpenidRealm(Empty)
    BY <1>56 DEF HandlerOf
  <2> DEFINE s1 == SetRealm(f, "openid", FALSE)
  <2>t1. "domains" \in File
    BY DEF File, Name, Grant
  <2>f1. s1.to \subseteq RealmEntry /\ (Defaults(f["domains"]) => Defaults(s1.to))
    BY <2>t1, SetRealmIs
  <2>s1. s1 \in SaveRec /\ s1.name = "domains" /\ s1.from = f["domains"]
    BY <2>t1, SetRealmIs
  <2>b. h = Handler(<<"domains">>, ~HasRealm(f, "openid"), <<s1>>)
    BY <2>1 DEF CreateOpenidRealm
  <2>c. h0 = Handler(<<"domains">>, ~HasRealm(Empty, "openid"), <<SetRealm(Empty, "openid", FALSE)>>)
    BY <2>1 DEF CreateOpenidRealm
  <2>d. h0.locks = <<"domains">>
    BY <2>c, HandlerLocks
  <2> HIDE DEF s1
  <2>2. h.locks = <<"domains">> /\ h0.locks = <<"domains">> /\ h.then = "end" /\ h.saves = <<s1>>
    BY <2>b, <2>d DEF Handler
  <2>l. <<"domains">> \in Seq(File)
    BY DEF File
  <2>4. LocksShape(op, h)
    BY <1>56, <2>2, <2>l DEF LocksShape, ChainOp
  <2>5. GuardOK(op, s1.name)
    BY <1>56, <2>2, <2>s1, LockNeeded DEF GuardOK, Careless, Guard, File
  <2>6. SavesShape(op, f, h.saves)
    BY <2>2, <2>s1, <2>5, OneShape
  <2>8. DOMAIN h.saves = {1} /\ Len(h.saves) = 1 /\ h.saves[1] = s1
    BY <2>2, <2>s1, OneSave
  <2>7. Effects(op, f, h.saves)
    BY <1>56, <2>2, <2>s1, <2>8, <2>f1 DEF Effects, BackedOK, KeyBacked, Backed, DomainsOK, Defaults,
       RemovesOK, SecretsOK, UserEnds, AclTyped, AclOK, Grant, FilesOK, File, Entry
  <2> QED
    BY <2>4, <2>6, <2>7
<1>57. CASE op = "update_openid_realm"
  <2>1. h = UpdateOpenidRealm(f) /\ h0 = UpdateOpenidRealm(Empty)
    BY <1>57 DEF HandlerOf
  <2> DEFINE s1 == SetRealm(f, "openid", TRUE)
  <2>t1. "domains" \in File
    BY DEF File, Name, Grant
  <2>f1. s1.to \subseteq RealmEntry /\ (Defaults(f["domains"]) => Defaults(s1.to))
    BY <2>t1, SetRealmIs
  <2>s1. s1 \in SaveRec /\ s1.name = "domains" /\ s1.from = f["domains"]
    BY <2>t1, SetRealmIs
  <2>b. h = Handler(<<"domains">>, HasRealm(f, "openid"), <<s1>>)
    BY <2>1 DEF UpdateOpenidRealm
  <2>c. h0 = Handler(<<"domains">>, HasRealm(Empty, "openid"), <<SetRealm(Empty, "openid", TRUE)>>)
    BY <2>1 DEF UpdateOpenidRealm
  <2>d. h0.locks = <<"domains">>
    BY <2>c, HandlerLocks
  <2> HIDE DEF s1
  <2>2. h.locks = <<"domains">> /\ h0.locks = <<"domains">> /\ h.then = "end" /\ h.saves = <<s1>>
    BY <2>b, <2>d DEF Handler
  <2>l. <<"domains">> \in Seq(File)
    BY DEF File
  <2>4. LocksShape(op, h)
    BY <1>57, <2>2, <2>l DEF LocksShape, ChainOp
  <2>5. GuardOK(op, s1.name)
    BY <1>57, <2>2, <2>s1, LockNeeded DEF GuardOK, Careless, Guard, File
  <2>6. SavesShape(op, f, h.saves)
    BY <2>2, <2>s1, <2>5, OneShape
  <2>8. DOMAIN h.saves = {1} /\ Len(h.saves) = 1 /\ h.saves[1] = s1
    BY <2>2, <2>s1, OneSave
  <2>7. Effects(op, f, h.saves)
    BY <1>57, <2>2, <2>s1, <2>8, <2>f1 DEF Effects, BackedOK, KeyBacked, Backed, DomainsOK, Defaults,
       RemovesOK, SecretsOK, UserEnds, AclTyped, AclOK, Grant, FilesOK, File, Entry
  <2> QED
    BY <2>4, <2>6, <2>7
<1>58. CASE op = "delete_openid_realm"
  <2>1. h = DeleteOpenidRealm(f) /\ h0 = DeleteOpenidRealm(Empty)
    BY <1>58 DEF HandlerOf
  <2> DEFINE s1 == DelRealm(f, "openid")
  <2>t1. "domains" \in File
    BY DEF File, Name, Grant
  <2>f1. s1.to \subseteq f["domains"]
    BY <2>t1, DelRealmIs
  <2>s1. s1 \in SaveRec /\ s1.name = "domains" /\ s1.from = f["domains"]
    BY <2>t1, DelRealmIs
  <2>b. h = Handler(<<"domains">>, HasRealm(f, "openid"), <<s1>>)
    BY <2>1 DEF DeleteOpenidRealm
  <2>c. h0 = Handler(<<"domains">>, HasRealm(Empty, "openid"), <<DelRealm(Empty, "openid")>>)
    BY <2>1 DEF DeleteOpenidRealm
  <2>d. h0.locks = <<"domains">>
    BY <2>c, HandlerLocks
  <2> HIDE DEF s1
  <2>2. h.locks = <<"domains">> /\ h0.locks = <<"domains">> /\ h.then = "end" /\ h.saves = <<s1>>
    BY <2>b, <2>d DEF Handler
  <2>l. <<"domains">> \in Seq(File)
    BY DEF File
  <2>4. LocksShape(op, h)
    BY <1>58, <2>2, <2>l DEF LocksShape, ChainOp
  <2>5. GuardOK(op, s1.name)
    BY <1>58, <2>2, <2>s1, LockNeeded DEF GuardOK, Careless, Guard, File
  <2>6. SavesShape(op, f, h.saves)
    BY <2>2, <2>s1, <2>5, OneShape
  <2>8. DOMAIN h.saves = {1} /\ Len(h.saves) = 1 /\ h.saves[1] = s1
    BY <2>2, <2>s1, OneSave
  <2>7. Effects(op, f, h.saves)
    BY <1>58, <2>2, <2>s1, <2>8, <2>f1 DEF Effects, BackedOK, KeyBacked, Backed, DomainsOK, Defaults,
       RemovesOK, SecretsOK, UserEnds, AclTyped, AclOK, Grant, FilesOK, File, Entry
  <2> QED
    BY <2>4, <2>6, <2>7
<1>59. CASE op = "update_pam_realm"
  <2>1. h = UpdatePamRealm(f) /\ h0 = UpdatePamRealm(Empty)
    BY <1>59 DEF HandlerOf
  <2> DEFINE s1 == SetRealm(f, "pam", TRUE)
  <2>t1. "domains" \in File
    BY DEF File, Name, Grant
  <2>f1. s1.to \subseteq RealmEntry /\ (Defaults(f["domains"]) => Defaults(s1.to))
    BY <2>t1, SetRealmIs
  <2>s1. s1 \in SaveRec /\ s1.name = "domains" /\ s1.from = f["domains"]
    BY <2>t1, SetRealmIs
  <2>b. h = Handler(<<"domains">>, TRUE, <<s1>>)
    BY <2>1 DEF UpdatePamRealm
  <2>c. h0 = Handler(<<"domains">>, TRUE, <<SetRealm(Empty, "pam", TRUE)>>)
    BY <2>1 DEF UpdatePamRealm
  <2>d. h0.locks = <<"domains">>
    BY <2>c, HandlerLocks
  <2> HIDE DEF s1
  <2>2. h.locks = <<"domains">> /\ h0.locks = <<"domains">> /\ h.then = "end" /\ h.saves = <<s1>>
    BY <2>b, <2>d DEF Handler
  <2>l. <<"domains">> \in Seq(File)
    BY DEF File
  <2>4. LocksShape(op, h)
    BY <1>59, <2>2, <2>l DEF LocksShape, ChainOp
  <2>5. GuardOK(op, s1.name)
    BY <1>59, <2>2, <2>s1, LockNeeded DEF GuardOK, Careless, Guard, File
  <2>6. SavesShape(op, f, h.saves)
    BY <2>2, <2>s1, <2>5, OneShape
  <2>8. DOMAIN h.saves = {1} /\ Len(h.saves) = 1 /\ h.saves[1] = s1
    BY <2>2, <2>s1, OneSave
  <2>7. Effects(op, f, h.saves)
    BY <1>59, <2>2, <2>s1, <2>8, <2>f1 DEF Effects, BackedOK, KeyBacked, Backed, DomainsOK, Defaults,
       RemovesOK, SecretsOK, UserEnds, AclTyped, AclOK, Grant, FilesOK, File, Entry
  <2> QED
    BY <2>4, <2>6, <2>7
<1>60. CASE op = "update_pbs_realm"
  <2>1. h = UpdatePbsRealm(f) /\ h0 = UpdatePbsRealm(Empty)
    BY <1>60 DEF HandlerOf
  <2> DEFINE s1 == SetRealm(f, "pbs", TRUE)
  <2>t1. "domains" \in File
    BY DEF File, Name, Grant
  <2>f1. s1.to \subseteq RealmEntry /\ (Defaults(f["domains"]) => Defaults(s1.to))
    BY <2>t1, SetRealmIs
  <2>s1. s1 \in SaveRec /\ s1.name = "domains" /\ s1.from = f["domains"]
    BY <2>t1, SetRealmIs
  <2>b. h = Handler(<<"domains">>, TRUE, <<s1>>)
    BY <2>1 DEF UpdatePbsRealm
  <2>c. h0 = Handler(<<"domains">>, TRUE, <<SetRealm(Empty, "pbs", TRUE)>>)
    BY <2>1 DEF UpdatePbsRealm
  <2>d. h0.locks = <<"domains">>
    BY <2>c, HandlerLocks
  <2> HIDE DEF s1
  <2>2. h.locks = <<"domains">> /\ h0.locks = <<"domains">> /\ h.then = "end" /\ h.saves = <<s1>>
    BY <2>b, <2>d DEF Handler
  <2>l. <<"domains">> \in Seq(File)
    BY DEF File
  <2>4. LocksShape(op, h)
    BY <1>60, <2>2, <2>l DEF LocksShape, ChainOp
  <2>5. GuardOK(op, s1.name)
    BY <1>60, <2>2, <2>s1, LockNeeded DEF GuardOK, Careless, Guard, File
  <2>6. SavesShape(op, f, h.saves)
    BY <2>2, <2>s1, <2>5, OneShape
  <2>8. DOMAIN h.saves = {1} /\ Len(h.saves) = 1 /\ h.saves[1] = s1
    BY <2>2, <2>s1, OneSave
  <2>7. Effects(op, f, h.saves)
    BY <1>60, <2>2, <2>s1, <2>8, <2>f1 DEF Effects, BackedOK, KeyBacked, Backed, DomainsOK, Defaults,
       RemovesOK, SecretsOK, UserEnds, AclTyped, AclOK, Grant, FilesOK, File, Entry
  <2> QED
    BY <2>4, <2>6, <2>7
<1>61. CASE op = "create_traffic_control"
  <2>1. h = CreateTrafficControl(f) /\ h0 = CreateTrafficControl(Empty)
    BY <1>61 DEF HandlerOf
  <2> DEFINE s1 == Put(f, "traffic", {"rule"})
  <2>t1. "traffic" \in File /\ {"rule"} \in SUBSET Name
    BY DEF File, Name, Grant
  <2>s1. s1 \in SaveRec /\ s1.name = "traffic" /\ s1.from = f["traffic"]
    BY <2>t1, ConfPutIs
  <2> HIDE DEF s1
  <2>2. h.locks = <<"traffic">> /\ h0.locks = <<"traffic">> /\ h.then = "end" /\ h.saves = <<s1>>
    BY <2>1 DEF CreateSection, CreateTrafficControl, Handler, s1
  <2>l. <<"traffic">> \in Seq(File)
    BY DEF File
  <2>4. LocksShape(op, h)
    BY <1>61, <2>2, <2>l DEF LocksShape, ChainOp
  <2>5. GuardOK(op, s1.name)
    BY <1>61, <2>2, <2>s1, LockNeeded DEF GuardOK, Careless, Guard, File
  <2>6. SavesShape(op, f, h.saves)
    BY <2>2, <2>s1, <2>5, OneShape
  <2>7. Effects(op, f, h.saves)
    BY <1>61, <2>2, <2>s1, OneSave, PlainEffects DEF Special
  <2> QED
    BY <2>4, <2>6, <2>7
<1>62. CASE op = "update_traffic_control"
  <2>1. h = UpdateTrafficControl(f) /\ h0 = UpdateTrafficControl(Empty)
    BY <1>62 DEF HandlerOf
  <2> DEFINE s1 == Flip(f, "traffic", "rule*")
  <2>t1. "traffic" \in File /\ "rule*" \in Name
    BY DEF File, Name, Grant
  <2>s1. s1 \in SaveRec /\ s1.name = "traffic" /\ s1.from = f["traffic"]
    BY <2>t1, FlipIs
  <2> HIDE DEF s1
  <2>2. h.locks = <<"traffic">> /\ h0.locks = <<"traffic">> /\ h.then = "end" /\ h.saves = <<s1>>
    BY <2>1 DEF Handler, UpdateSection, UpdateTrafficControl, s1
  <2>l. <<"traffic">> \in Seq(File)
    BY DEF File
  <2>4. LocksShape(op, h)
    BY <1>62, <2>2, <2>l DEF LocksShape, ChainOp
  <2>5. GuardOK(op, s1.name)
    BY <1>62, <2>2, <2>s1, LockNeeded DEF GuardOK, Careless, Guard, File
  <2>6. SavesShape(op, f, h.saves)
    BY <2>2, <2>s1, <2>5, OneShape
  <2>7. Effects(op, f, h.saves)
    BY <1>62, <2>2, <2>s1, OneSave, PlainEffects DEF Special
  <2> QED
    BY <2>4, <2>6, <2>7
<1>63. CASE op = "delete_traffic_control"
  <2>1. h = DeleteTrafficControl(f) /\ h0 = DeleteTrafficControl(Empty)
    BY <1>63 DEF HandlerOf
  <2> DEFINE s1 == Del(f, "traffic", {"rule", "rule*"})
  <2>t1. "traffic" \in File
    BY DEF File, Name, Grant
  <2>s1. s1 \in SaveRec /\ s1.name = "traffic" /\ s1.from = f["traffic"]
    BY <2>t1, DelIs
  <2> HIDE DEF s1
  <2>2. h.locks = <<"traffic">> /\ h0.locks = <<"traffic">> /\ h.then = "end" /\ h.saves = <<s1>>
    BY <2>1 DEF DeleteSection, DeleteTrafficControl, Handler, s1
  <2>l. <<"traffic">> \in Seq(File)
    BY DEF File
  <2>4. LocksShape(op, h)
    BY <1>63, <2>2, <2>l DEF LocksShape, ChainOp
  <2>5. GuardOK(op, s1.name)
    BY <1>63, <2>2, <2>s1, LockNeeded DEF GuardOK, Careless, Guard, File
  <2>6. SavesShape(op, f, h.saves)
    BY <2>2, <2>s1, <2>5, OneShape
  <2>7. Effects(op, f, h.saves)
    BY <1>63, <2>2, <2>s1, OneSave, PlainEffects DEF Special
  <2> QED
    BY <2>4, <2>6, <2>7
<1>64. CASE op = "create_influxdb_http"
  <2>1. h = CreateInfluxdbHttp(f) /\ h0 = CreateInfluxdbHttp(Empty)
    BY <1>64 DEF HandlerOf
  <2> DEFINE s1 == Put(f, "metrics", {"http"})
  <2>t1. "metrics" \in File /\ {"http"} \in SUBSET Name
    BY DEF File, Name, Grant
  <2>s1. s1 \in SaveRec /\ s1.name = "metrics" /\ s1.from = f["metrics"]
    BY <2>t1, ConfPutIs
  <2> HIDE DEF s1
  <2>2. h.locks = <<"metrics">> /\ h0.locks = <<"metrics">> /\ h.then = "end" /\ h.saves = <<s1>>
    BY <2>1 DEF CreateInfluxdbHttp, CreateSection, Handler, s1
  <2>l. <<"metrics">> \in Seq(File)
    BY DEF File
  <2>4. LocksShape(op, h)
    BY <1>64, <2>2, <2>l DEF LocksShape, ChainOp
  <2>5. GuardOK(op, s1.name)
    BY <1>64, <2>2, <2>s1, LockNeeded DEF GuardOK, Careless, Guard, File
  <2>6. SavesShape(op, f, h.saves)
    BY <2>2, <2>s1, <2>5, OneShape
  <2>7. Effects(op, f, h.saves)
    BY <1>64, <2>2, <2>s1, OneSave, PlainEffects DEF Special
  <2> QED
    BY <2>4, <2>6, <2>7
<1>65. CASE op = "update_influxdb_http"
  <2>1. h = UpdateInfluxdbHttp(f) /\ h0 = UpdateInfluxdbHttp(Empty)
    BY <1>65 DEF HandlerOf
  <2> DEFINE s1 == Flip(f, "metrics", "http*")
  <2>t1. "metrics" \in File /\ "http*" \in Name
    BY DEF File, Name, Grant
  <2>s1. s1 \in SaveRec /\ s1.name = "metrics" /\ s1.from = f["metrics"]
    BY <2>t1, FlipIs
  <2> HIDE DEF s1
  <2>2. h.locks = <<"metrics">> /\ h0.locks = <<"metrics">> /\ h.then = "end" /\ h.saves = <<s1>>
    BY <2>1 DEF Handler, UpdateInfluxdbHttp, UpdateSection, s1
  <2>l. <<"metrics">> \in Seq(File)
    BY DEF File
  <2>4. LocksShape(op, h)
    BY <1>65, <2>2, <2>l DEF LocksShape, ChainOp
  <2>5. GuardOK(op, s1.name)
    BY <1>65, <2>2, <2>s1, LockNeeded DEF GuardOK, Careless, Guard, File
  <2>6. SavesShape(op, f, h.saves)
    BY <2>2, <2>s1, <2>5, OneShape
  <2>7. Effects(op, f, h.saves)
    BY <1>65, <2>2, <2>s1, OneSave, PlainEffects DEF Special
  <2> QED
    BY <2>4, <2>6, <2>7
<1>66. CASE op = "delete_influxdb_http"
  <2>1. h = DeleteInfluxdbHttp(f) /\ h0 = DeleteInfluxdbHttp(Empty)
    BY <1>66 DEF HandlerOf
  <2> DEFINE s1 == Del(f, "metrics", {"http", "http*"})
  <2>t1. "metrics" \in File
    BY DEF File, Name, Grant
  <2>s1. s1 \in SaveRec /\ s1.name = "metrics" /\ s1.from = f["metrics"]
    BY <2>t1, DelIs
  <2> HIDE DEF s1
  <2>2. h.locks = <<"metrics">> /\ h0.locks = <<"metrics">> /\ h.then = "end" /\ h.saves = <<s1>>
    BY <2>1 DEF DeleteInfluxdbHttp, DeleteSection, Handler, s1
  <2>l. <<"metrics">> \in Seq(File)
    BY DEF File
  <2>4. LocksShape(op, h)
    BY <1>66, <2>2, <2>l DEF LocksShape, ChainOp
  <2>5. GuardOK(op, s1.name)
    BY <1>66, <2>2, <2>s1, LockNeeded DEF GuardOK, Careless, Guard, File
  <2>6. SavesShape(op, f, h.saves)
    BY <2>2, <2>s1, <2>5, OneShape
  <2>7. Effects(op, f, h.saves)
    BY <1>66, <2>2, <2>s1, OneSave, PlainEffects DEF Special
  <2> QED
    BY <2>4, <2>6, <2>7
<1>67. CASE op = "create_influxdb_udp"
  <2>1. h = CreateInfluxdbUdp(f) /\ h0 = CreateInfluxdbUdp(Empty)
    BY <1>67 DEF HandlerOf
  <2> DEFINE s1 == Put(f, "metrics", {"udp"})
  <2>t1. "metrics" \in File /\ {"udp"} \in SUBSET Name
    BY DEF File, Name, Grant
  <2>s1. s1 \in SaveRec /\ s1.name = "metrics" /\ s1.from = f["metrics"]
    BY <2>t1, ConfPutIs
  <2> HIDE DEF s1
  <2>2. h.locks = <<"metrics">> /\ h0.locks = <<"metrics">> /\ h.then = "end" /\ h.saves = <<s1>>
    BY <2>1 DEF CreateInfluxdbUdp, CreateSection, Handler, s1
  <2>l. <<"metrics">> \in Seq(File)
    BY DEF File
  <2>4. LocksShape(op, h)
    BY <1>67, <2>2, <2>l DEF LocksShape, ChainOp
  <2>5. GuardOK(op, s1.name)
    BY <1>67, <2>2, <2>s1, LockNeeded DEF GuardOK, Careless, Guard, File
  <2>6. SavesShape(op, f, h.saves)
    BY <2>2, <2>s1, <2>5, OneShape
  <2>7. Effects(op, f, h.saves)
    BY <1>67, <2>2, <2>s1, OneSave, PlainEffects DEF Special
  <2> QED
    BY <2>4, <2>6, <2>7
<1>68. CASE op = "update_influxdb_udp"
  <2>1. h = UpdateInfluxdbUdp(f) /\ h0 = UpdateInfluxdbUdp(Empty)
    BY <1>68 DEF HandlerOf
  <2> DEFINE s1 == Flip(f, "metrics", "udp*")
  <2>t1. "metrics" \in File /\ "udp*" \in Name
    BY DEF File, Name, Grant
  <2>s1. s1 \in SaveRec /\ s1.name = "metrics" /\ s1.from = f["metrics"]
    BY <2>t1, FlipIs
  <2> HIDE DEF s1
  <2>2. h.locks = <<"metrics">> /\ h0.locks = <<"metrics">> /\ h.then = "end" /\ h.saves = <<s1>>
    BY <2>1 DEF Handler, UpdateInfluxdbUdp, UpdateSection, s1
  <2>l. <<"metrics">> \in Seq(File)
    BY DEF File
  <2>4. LocksShape(op, h)
    BY <1>68, <2>2, <2>l DEF LocksShape, ChainOp
  <2>5. GuardOK(op, s1.name)
    BY <1>68, <2>2, <2>s1, LockNeeded DEF GuardOK, Careless, Guard, File
  <2>6. SavesShape(op, f, h.saves)
    BY <2>2, <2>s1, <2>5, OneShape
  <2>7. Effects(op, f, h.saves)
    BY <1>68, <2>2, <2>s1, OneSave, PlainEffects DEF Special
  <2> QED
    BY <2>4, <2>6, <2>7
<1>69. CASE op = "delete_influxdb_udp"
  <2>1. h = DeleteInfluxdbUdp(f) /\ h0 = DeleteInfluxdbUdp(Empty)
    BY <1>69 DEF HandlerOf
  <2> DEFINE s1 == Del(f, "metrics", {"udp", "udp*"})
  <2>t1. "metrics" \in File
    BY DEF File, Name, Grant
  <2>s1. s1 \in SaveRec /\ s1.name = "metrics" /\ s1.from = f["metrics"]
    BY <2>t1, DelIs
  <2> HIDE DEF s1
  <2>2. h.locks = <<"metrics">> /\ h0.locks = <<"metrics">> /\ h.then = "end" /\ h.saves = <<s1>>
    BY <2>1 DEF DeleteInfluxdbUdp, DeleteSection, Handler, s1
  <2>l. <<"metrics">> \in Seq(File)
    BY DEF File
  <2>4. LocksShape(op, h)
    BY <1>69, <2>2, <2>l DEF LocksShape, ChainOp
  <2>5. GuardOK(op, s1.name)
    BY <1>69, <2>2, <2>s1, LockNeeded DEF GuardOK, Careless, Guard, File
  <2>6. SavesShape(op, f, h.saves)
    BY <2>2, <2>s1, <2>5, OneShape
  <2>7. Effects(op, f, h.saves)
    BY <1>69, <2>2, <2>s1, OneSave, PlainEffects DEF Special
  <2> QED
    BY <2>4, <2>6, <2>7
<1>70. CASE op = "delete_datastore_only"
  <2>1. h = DeleteDatastoreOnly(f) /\ h0 = DeleteDatastoreOnly(Empty)
    BY <1>70 DEF HandlerOf
  <2>2. h.locks = <<"datastore">> /\ h0.locks = <<"datastore">> /\ h.then = "destroy" /\ h.saves = << >>
    BY <2>1 DEF DeleteDatastore, DeleteDatastoreOnly, Handler
  <2>s1. << >> \in Seq(SaveRec) /\ DOMAIN << >> = {}
    OBVIOUS
  <2>l. <<"datastore">> \in Seq(File)
    BY DEF File
  <2>4. LocksShape(op, h)
    BY <1>70, <2>2, <2>l DEF LocksShape, ChainOp, LaterTask
  <2>6. SavesShape(op, f, h.saves)
    BY <2>2, <2>s1 DEF SavesShape, Chained
  <2>7. Effects(op, f, h.saves)
    BY <1>70, <2>2, <2>s1, PlainEffects DEF Special
  <2> QED
    BY <2>4, <2>6, <2>7
<1>71. CASE op = "delete_store_verification"
  <2>1. h = DeleteStoreVerification(f) /\ h0 = DeleteStoreVerification(Empty)
    BY <1>71 DEF HandlerOf
  <2> DEFINE s1 == Del(f, "verification", {"w", "w*"})
  <2>t1. "verification" \in File
    BY DEF File, Name, Grant
  <2>s1. s1 \in SaveRec /\ s1.name = "verification" /\ s1.from = f["verification"]
    BY <2>t1, DelIs
  <2> HIDE DEF s1
  <2>2. h.locks = <<"verification">> /\ h0.locks = <<"verification">> /\ h.then = "delete_store_sync" /\ h.saves = <<s1>>
    BY <2>1 DEF DeleteStoreVerification, Handler, s1
  <2>l. <<"verification">> \in Seq(File)
    BY DEF File
  <2>4. LocksShape(op, h)
    BY <1>71, <2>2, <2>l DEF LocksShape, ChainOp
  <2>5. GuardOK(op, s1.name)
    BY <1>71, <2>2, <2>s1, LockNeeded DEF GuardOK, Careless, Guard, File
  <2>6. SavesShape(op, f, h.saves)
    BY <2>2, <2>s1, <2>5, OneShape
  <2>7. Effects(op, f, h.saves)
    BY <1>71, <2>2, <2>s1, OneSave, PlainEffects DEF Special
  <2> QED
    BY <2>4, <2>6, <2>7
<1>72. CASE op = "delete_store_sync"
  <2>1. h = DeleteStoreSync(f) /\ h0 = DeleteStoreSync(Empty)
    BY <1>72 DEF HandlerOf
  <2> DEFINE s1 == Del(f, "sync", {"j", UsesRemote, UsesKey, AssociatesKey})
  <2>t1. "sync" \in File
    BY DEF File, Name, Grant
  <2>s1. s1 \in SaveRec /\ s1.name = "sync" /\ s1.from = f["sync"]
    BY <2>t1, DelIs
  <2> HIDE DEF s1
  <2>2. h.locks = <<"sync">> /\ h0.locks = <<"sync">> /\ h.then = "delete_store_prune" /\ h.saves = <<s1>>
    BY <2>1 DEF DeleteStoreSync, Handler, s1
  <2>l. <<"sync">> \in Seq(File)
    BY DEF File
  <2>4. LocksShape(op, h)
    BY <1>72, <2>2, <2>l DEF LocksShape, ChainOp
  <2>5. GuardOK(op, s1.name)
    BY <1>72, <2>2, <2>s1, LockNeeded DEF GuardOK, Careless, Guard, File
  <2>6. SavesShape(op, f, h.saves)
    BY <2>2, <2>s1, <2>5, OneShape
  <2>7. Effects(op, f, h.saves)
    BY <1>72, <2>2, <2>s1, OneSave, PlainEffects DEF Special
  <2> QED
    BY <2>4, <2>6, <2>7
<1>73. CASE op = "delete_store_prune"
  <2>1. h = DeleteStorePrune(f) /\ h0 = DeleteStorePrune(Empty)
    BY <1>73 DEF HandlerOf
  <2> DEFINE s1 == Del(f, "prune", {"v", "v*"})
  <2>t1. "prune" \in File
    BY DEF File, Name, Grant
  <2>s1. s1 \in SaveRec /\ s1.name = "prune" /\ s1.from = f["prune"]
    BY <2>t1, DelIs
  <2> HIDE DEF s1
  <2>2. h.locks = <<"prune">> /\ h0.locks = <<"prune">> /\ h.then = "delete_store_acl" /\ h.saves = <<s1>>
    BY <2>1 DEF DeleteStorePrune, Handler, s1
  <2>l. <<"prune">> \in Seq(File)
    BY DEF File
  <2>4. LocksShape(op, h)
    BY <1>73, <2>2, <2>l DEF LocksShape, ChainOp
  <2>5. GuardOK(op, s1.name)
    BY <1>73, <2>2, <2>s1, LockNeeded DEF GuardOK, Careless, Guard, File
  <2>6. SavesShape(op, f, h.saves)
    BY <2>2, <2>s1, <2>5, OneShape
  <2>7. Effects(op, f, h.saves)
    BY <1>73, <2>2, <2>s1, OneSave, PlainEffects DEF Special
  <2> QED
    BY <2>4, <2>6, <2>7
<1>74. CASE op = "delete_store_acl"
  <2>1. h = DeleteStoreAcl(f) /\ h0 = DeleteStoreAcl(Empty)
    BY <1>74 DEF HandlerOf
  <2> DEFINE s1 == Del(f, "acl", {"u!t@d"})
  <2>t1. "acl" \in File
    BY DEF File, Name, Grant
  <2>f1. s1.to = f["acl"] \ {"u!t@d"}
    BY <2>t1, DelIs
  <2>s1. s1 \in SaveRec /\ s1.name = "acl" /\ s1.from = f["acl"]
    BY <2>t1, DelIs
  <2> HIDE DEF s1
  <2>2. h.locks = << >> /\ h0.locks = << >> /\ h.then = "delete_store_tape" /\ h.saves = <<s1>>
    BY <2>1 DEF DeleteStoreAcl, Handler, s1
  <2>l. << >> \in Seq(File)
    BY DEF File
  <2>4. LocksShape(op, h)
    BY <1>74, <2>2, <2>l DEF LocksShape, ChainOp
  <2>5. GuardOK(op, s1.name)
    BY <1>74, <2>s1 DEF GuardOK, Careless
  <2>6. SavesShape(op, f, h.saves)
    BY <2>2, <2>s1, <2>5, OneShape
  <2>8. DOMAIN h.saves = {1} /\ Len(h.saves) = 1 /\ h.saves[1] = s1
    BY <2>2, <2>s1, OneSave
  <2>7. Effects(op, f, h.saves)
    BY <1>74, <2>2, <2>s1, <2>8, <2>f1 DEF Effects, BackedOK, KeyBacked, Backed, DomainsOK, Defaults,
       RemovesOK, SecretsOK, UserEnds, AclTyped, AclOK, Grant, FilesOK, File, Entry
  <2> QED
    BY <2>4, <2>6, <2>7
<1>75. CASE op = "delete_store_tape"
  <2>1. h = DeleteStoreTape(f) /\ h0 = DeleteStoreTape(Empty)
    BY <1>75 DEF HandlerOf
  <2> DEFINE s1 == Del(f, "tapejob", {"t", "t*"})
  <2>t1. "tapejob" \in File
    BY DEF File, Name, Grant
  <2>s1. s1 \in SaveRec /\ s1.name = "tapejob" /\ s1.from = f["tapejob"]
    BY <2>t1, DelIs
  <2> HIDE DEF s1
  <2>2. h.locks = <<"tapejob">> /\ h0.locks = <<"tapejob">> /\ h.then = "destroy" /\ h.saves = <<s1>>
    BY <2>1 DEF DeleteStoreTape, Handler, s1
  <2>l. <<"tapejob">> \in Seq(File)
    BY DEF File
  <2>4. LocksShape(op, h)
    BY <1>75, <2>2, <2>l DEF LocksShape, ChainOp, LaterTask
  <2>5. GuardOK(op, s1.name)
    BY <1>75, <2>2, <2>s1, LockNeeded DEF GuardOK, Careless, Guard, File
  <2>6. SavesShape(op, f, h.saves)
    BY <2>2, <2>s1, <2>5, OneShape
  <2>7. Effects(op, f, h.saves)
    BY <1>75, <2>2, <2>s1, OneSave, PlainEffects DEF Special
  <2> QED
    BY <2>4, <2>6, <2>7
<1>76. CASE op = "destroy"
  <2>1. h = Destroy(f) /\ h0 = Destroy(Empty)
    BY <1>76 DEF HandlerOf
  <2> DEFINE s1 == Del(f, "datastore", {"d", "d*"})
  <2>t1. "datastore" \in File
    BY DEF File, Name, Grant
  <2>s1. s1 \in SaveRec /\ s1.name = "datastore" /\ s1.from = f["datastore"]
    BY <2>t1, DelIs
  <2> HIDE DEF s1
  <2>2. h.locks = <<"datastore">> /\ h0.locks = <<"datastore">> /\ h.then = "end" /\ h.saves = <<s1>>
    BY <2>1 DEF DeleteSection, Destroy, Handler, s1
  <2>l. <<"datastore">> \in Seq(File)
    BY DEF File
  <2>4. LocksShape(op, h)
    BY <1>76, <2>2, <2>l DEF LocksShape, ChainOp
  <2>5. GuardOK(op, s1.name)
    BY <1>76, <2>2, <2>s1, LockNeeded DEF GuardOK, Careless, Guard, File
  <2>6. SavesShape(op, f, h.saves)
    BY <2>2, <2>s1, <2>5, OneShape
  <2>7. Effects(op, f, h.saves)
    BY <1>76, <2>2, <2>s1, OneSave, PlainEffects DEF Special
  <2> QED
    BY <2>4, <2>6, <2>7
<1>77. CASE op = "create_datastore_pruned"
  <2>1. h = CreateDatastorePruned(f) /\ h0 = CreateDatastorePruned(Empty)
    BY <1>77 DEF HandlerOf
  <2> DEFINE s1 == Put(f, "datastore", {"d"})
  <2>t1. "datastore" \in File /\ {"d"} \in SUBSET Name
    BY DEF File, Name, Grant
  <2>s1. s1 \in SaveRec /\ s1.name = "datastore" /\ s1.from = f["datastore"]
    BY <2>t1, ConfPutIs
  <2>d. h0.locks = <<"datastore">>
    BY <2>1 DEF CreateDatastorePruned, CreateDatastore, Handler
  <2> HIDE DEF s1
  <2>2. h.locks = <<"datastore">> /\ h0.locks = <<"datastore">> /\ h.then = "create_store_prune" /\ h.saves = <<s1>>
    BY <2>1, <2>d DEF CreateDatastorePruned, CreateDatastore, Handler, s1
  <2>l. <<"datastore">> \in Seq(File)
    BY DEF File
  <2>4. LocksShape(op, h)
    BY <1>77, <2>2, <2>l DEF LocksShape, ChainOp, LaterTask
  <2>5. GuardOK(op, s1.name)
    BY <1>77, <2>2, <2>s1, LockNeeded DEF GuardOK, Careless, Guard, File
  <2>6. SavesShape(op, f, h.saves)
    BY <2>2, <2>s1, <2>5, OneShape
  <2>7. Effects(op, f, h.saves)
    BY <1>77, <2>2, <2>s1, OneSave, PlainEffects DEF Special
  <2> QED
    BY <2>4, <2>6, <2>7
<1>78. CASE op = "create_store_prune"
  <2>1. h = CreatePruneJob(f) /\ h0 = CreatePruneJob(Empty)
    BY <1>78 DEF HandlerOf
  <2> DEFINE s1 == Put(f, "prune", {"v"})
  <2>t1. "prune" \in File /\ {"v"} \in SUBSET Name
    BY DEF File, Name, Grant
  <2>s1. s1 \in SaveRec /\ s1.name = "prune" /\ s1.from = f["prune"]
    BY <2>t1, ConfPutIs
  <2> HIDE DEF s1
  <2>2. h.locks = <<"prune">> /\ h0.locks = <<"prune">> /\ h.then = "end" /\ h.saves = <<s1>>
    BY <2>1 DEF CreatePruneJob, CreateSection, Handler, s1
  <2>l. <<"prune">> \in Seq(File)
    BY DEF File
  <2>4. LocksShape(op, h)
    BY <1>78, <2>2, <2>l DEF LocksShape, ChainOp
  <2>5. GuardOK(op, s1.name)
    BY <1>78, <2>2, <2>s1, LockNeeded DEF GuardOK, Careless, Guard, File
  <2>6. SavesShape(op, f, h.saves)
    BY <2>2, <2>s1, <2>5, OneShape
  <2>7. Effects(op, f, h.saves)
    BY <1>78, <2>2, <2>s1, OneSave, PlainEffects DEF Special
  <2> QED
    BY <2>4, <2>6, <2>7
<1>79. CASE op = "update_sync_job_other_key"
  <2>1. h = UpdateSyncJobOtherKey(f) /\ h0 = UpdateSyncJobOtherKey(Empty)
    BY <1>79 DEF HandlerOf
  <2> DEFINE s1 == Save("sync", f["sync"], (f["sync"] \ {UsesKey}) \cup {AssociatesKey})
  <2>t1. "sync" \in File /\ f["sync"] \in SUBSET Entry /\ (f["sync"] \ {UsesKey}) \cup {AssociatesKey} \in SUBSET Entry
    BY DEF File, FilesOK, Entry, Name
  <2>s1. s1 \in SaveRec /\ s1.name = "sync" /\ s1.from = f["sync"]
    BY <2>t1, SaveIs
  <2>b. h = Handler(<<"sync">>, UsesKey \in f["sync"], <<s1>>)
    BY <2>1 DEF UpdateSyncJobOtherKey
  <2>c. h0 = Handler(<<"sync">>, UsesKey \in Empty["sync"], <<Save("sync", Empty["sync"], (Empty["sync"] \ {UsesKey}) \cup {AssociatesKey})>>)
    BY <2>1 DEF UpdateSyncJobOtherKey
  <2>d. h0.locks = <<"sync">>
    BY <2>c, HandlerLocks
  <2> HIDE DEF s1
  <2>2. h.locks = <<"sync">> /\ h0.locks = <<"sync">> /\ h.then = "end" /\ h.saves = <<s1>>
    BY <2>b, <2>d DEF Handler
  <2>l. <<"sync">> \in Seq(File)
    BY DEF File
  <2>4. LocksShape(op, h)
    BY <1>79, <2>2, <2>l DEF LocksShape, ChainOp
  <2>5. GuardOK(op, s1.name)
    BY <1>79, <2>2, <2>s1, LockNeeded DEF GuardOK, Careless, Guard, File
  <2>6. SavesShape(op, f, h.saves)
    BY <2>2, <2>s1, <2>5, OneShape
  <2>7. Effects(op, f, h.saves)
    BY <1>79, <2>2, <2>s1, OneSave, PlainEffects DEF Special
  <2> QED
    BY <2>4, <2>6, <2>7
<1>80. CASE op = "update_sync_job_associated"
  <2>1. h = UpdateSyncJobAssociated(f) /\ h0 = UpdateSyncJobAssociated(Empty)
    BY <1>80 DEF HandlerOf
  <2> DEFINE s1 == Flip(f, "sync", AssociatesKey)
  <2>t1. "sync" \in File /\ AssociatesKey \in Name
    BY DEF File, Name, Grant
  <2>s1. s1 \in SaveRec /\ s1.name = "sync" /\ s1.from = f["sync"]
    BY <2>t1, FlipIs
  <2>b. h = Handler(<<"sync">>, "j" \in f["sync"] /\ "k" \in f["keys"], <<s1>>)
    BY <2>1 DEF UpdateSyncJobAssociated
  <2>c. h0 = Handler(<<"sync">>, "j" \in Empty["sync"] /\ "k" \in Empty["keys"], <<Flip(Empty, "sync", AssociatesKey)>>)
    BY <2>1 DEF UpdateSyncJobAssociated
  <2>d. h0.locks = <<"sync">>
    BY <2>c, HandlerLocks
  <2> HIDE DEF s1
  <2>2. h.locks = <<"sync">> /\ h0.locks = <<"sync">> /\ h.then = "end" /\ h.saves = <<s1>>
    BY <2>b, <2>d DEF Handler
  <2>l. <<"sync">> \in Seq(File)
    BY DEF File
  <2>4. LocksShape(op, h)
    BY <1>80, <2>2, <2>l DEF LocksShape, ChainOp
  <2>5. GuardOK(op, s1.name)
    BY <1>80, <2>2, <2>s1, LockNeeded DEF GuardOK, Careless, Guard, File
  <2>6. SavesShape(op, f, h.saves)
    BY <2>2, <2>s1, <2>5, OneShape
  <2>7. Effects(op, f, h.saves)
    BY <1>80, <2>2, <2>s1, OneSave, PlainEffects DEF Special
  <2> QED
    BY <2>4, <2>6, <2>7
<1> QED
  BY OpCases, <1>1, <1>2, <1>3, <1>4, <1>5, <1>6, <1>7, <1>8, <1>9, <1>10, <1>11, <1>12, <1>13,
     <1>14, <1>15, <1>16, <1>17, <1>18, <1>19, <1>20, <1>21, <1>22, <1>23, <1>24, <1>25, <1>26,
     <1>27, <1>28, <1>29, <1>30, <1>31, <1>32, <1>33, <1>34, <1>35, <1>36, <1>37, <1>38, <1>39,
     <1>40, <1>41, <1>42, <1>43, <1>44, <1>45, <1>46, <1>47, <1>48, <1>49, <1>50, <1>51, <1>52,
     <1>53, <1>54, <1>55, <1>56, <1>57, <1>58, <1>59, <1>60, <1>61, <1>62, <1>63, <1>64, <1>65,
     <1>66, <1>67, <1>68, <1>69, <1>70, <1>71, <1>72, <1>73, <1>74, <1>75, <1>76, <1>77, <1>78,
     <1>79, <1>80

-----------------------------------------------------------------------------
(* The inductive invariant of the calls: f are the files, lk the locks, cl   *)
(* the calls, h the calls that are hit, st the stale files, pa the partial   *)
(* ones, ov whether a use was overtaken.                                     *)

(* A call holds the locks it says, waits only before it loads, and has or   *)
(* waits for all the locks of its handler.                                  *)
Wanted(c) == {n \in File : \E i \in DOMAIN c.want : c.want[i] = n}
CallOK(c, p, lk) ==
    /\ c.held = {n \in File : lk[n] = p}
    /\ c.op = "none" => c = NoRequest
    /\ c.op # "none" => c.step # "idle"
    /\ c.step # "lock" => c.want = << >>
    /\ c.saves # << >> <=> c.step \in {"save", "saving"}
    /\ c.op \in ChainOp => "datastore" \in c.held
    /\ c.op = "delete_store_acl" => "acl" \notin c.held /\ c.want = << >>
    /\ c.op \notin {"none", "update_webauthn_config"} => Needs(c.op) \subseteq c.held \cup Wanted(c)

(* What a call is to save fits the file, unless someone saves without lock. *)
SaveOK(c, p, f, h) ==
    /\ Chained(c.saves)
    /\ \A i \in DOMAIN c.saves :
         LET n == c.saves[i].name IN
         /\ c.op \notin Careless => Guard(n) \in c.held
         /\ c.op = "delete_store_acl" => n = "acl"
         /\ c.op = "update_webauthn_config" => n = "tfa"
         /\ FirstOf(c.saves, i) /\ (n \notin {"acl", "tfa"} \/ (p \notin h /\ c.op \notin Careless)) =>
              c.saves[i].from = f[n]

(* Keys and realms, and store_key before its second file. *)
KeyOK(c, f) ==
    /\ KeyBacked(c.saves, f) /\ DomainsOK(c.saves)
    /\ c.op = "store_key" /\ c.saves # << >> =>
         /\ "k" \notin f["keys"]
         /\ IF c.step = "save" THEN Len(c.saves) = 2 /\ c.saves[1].name = "keyfile" /\ c.saves[2].name = "keys"
            ELSE Len(c.saves) = 1 /\ c.saves[1].name = "keys"

(* What is removed is not used, unless the use was overtaken. *)
UseOK(c, f, ov) ==
    /\ RemovesOK(c.op, c.saves)
    /\ c.op = "delete_remote" => UsesRemote \notin f["sync"] \/ ov
    /\ c.op = "delete_key" /\ c.saves # << >> => ~KeyUsed(f["sync"]) \/ ov
    /\ c.op = "delete_s3_client" /\ c.saves # << >> => "d" \notin f["datastore"] \/ ov

(* Between two files of a call. *)
Between(c, n) == c.step = "saving" /\ \E i \in DOMAIN c.saves : c.saves[i].name = n

SecretInv(f, cl, pa) ==
    "user" \notin pa =>
        /\ SecretsOK(f) \/ \E p \in Client : Between(cl[p], "user")
        /\ \A p \in Client : UserEnds(cl[p].saves, f)

GrantInv(f, lk, cl, st, pa) ==
    "acl" \notin st \cup pa =>
        /\ \/ "u!t" \in f["user"] \/ f["acl"] = {}
           \/ \E p \in Client : lk["acl"] = p /\ Between(cl[p], "acl")
        /\ \A p \in Client : AclOK(cl[p].op, f, cl[p].saves)

ConfTyped(f, lk, cl, h, st, pa, ov) ==
    /\ FilesOK(f) /\ lk \in [File -> Client \cup {ConfNone}] /\ cl \in [Client -> ReqRec]
    /\ h \subseteq Client /\ st \subseteq File /\ pa \subseteq File /\ ov \in BOOLEAN

ConfAt(f, lk, cl, h, st, pa, ov) ==
    /\ ConfTyped(f, lk, cl, h, st, pa, ov)
    /\ BackedOK(f) /\ Defaults(f["domains"])
    /\ \A p \in Client : /\ CallOK(cl[p], p, lk) /\ SaveOK(cl[p], p, f, h)
                         /\ KeyOK(cl[p], f) /\ UseOK(cl[p], f, ov) /\ AclTyped(cl[p].op, cl[p].saves)
    /\ SecretInv(f, cl, pa)
    /\ GrantInv(f, lk, cl, st, pa)

ConfInd == area \in Areas /\ ConfAt(file, lockOf, client, hit, stale, partial, overtaken)

-----------------------------------------------------------------------------
(* One step of a call. *)

(* The list without its first save. *)
LEMMA TailIs ==
  ASSUME NEW sv \in Seq(SaveRec), sv # << >>
  PROVE  /\ Len(sv) \in Nat /\ Len(sv) >= 1 /\ DOMAIN sv = 1 .. Len(sv) /\ 1 \in DOMAIN sv /\ Head(sv) = sv[1]
         /\ Tail(sv) \in Seq(SaveRec) /\ Len(Tail(sv)) = Len(sv) - 1 /\ DOMAIN Tail(sv) = 1 .. Len(sv) - 1
         /\ \A i \in 1 .. Len(sv) - 1 : i + 1 \in DOMAIN sv /\ Tail(sv)[i] = sv[i + 1]
  OBVIOUS

LEMMA EmptyLen ==
  ASSUME NEW sv \in Seq(SaveRec)
  PROVE  sv = << >> <=> Len(sv) = 0
  OBVIOUS

LEMMA NamesAre ==
  ASSUME NEW sv \in Seq(SaveRec), NEW i \in DOMAIN sv
  PROVE  sv[i] \in SaveRec /\ sv[i].name \in File /\ sv[i].from \in SUBSET Entry /\ sv[i].to \in SUBSET Entry
<1>1. sv[i] \in SaveRec
  OBVIOUS
<1> QED
  BY <1>1 DEF SaveRec

LEMMA NoSaves ==
  ASSUME NEW c, NEW p, NEW f, NEW h, NEW ov, c.saves = << >>,
         c.op = "delete_remote" => UsesRemote \notin f["sync"] \/ ov
  PROVE  /\ SaveOK(c, p, f, h) /\ KeyOK(c, f) /\ UseOK(c, f, ov) /\ AclTyped(c.op, c.saves)
         /\ UserEnds(c.saves, f) /\ AclOK(c.op, f, c.saves)
         /\ \A n : ~Between(c, n)
<1>1. DOMAIN c.saves = {}
  OBVIOUS
<1> QED
  BY <1>1 DEF SaveOK, Chained, KeyOK, KeyBacked, Backed, DomainsOK, UseOK, RemovesOK, AclTyped, UserEnds, AclOK, Between

(* Nothing is saved, and the call goes on with nothing to save. *)
Quiet(f, lk, cl, pa, ov, p, lk2, cl2, pa2) ==
    /\ p \in Client /\ cl2 \in [Client -> ReqRec] /\ lk2 \in [File -> Client \cup {ConfNone}] /\ pa2 \in SUBSET File
    /\ \A q \in Client \ {p} : cl2[q] = cl[q]
    /\ \A q \in Client \ {p} : \A n \in File : lk2[n] = q <=> lk[n] = q
    /\ cl2[p].saves = << >> /\ CallOK(cl2[p], p, lk2)
    /\ cl2[p].op = "delete_remote" => UsesRemote \notin f["sync"] \/ ov
    /\ pa \subseteq pa2 /\ \A n \in {"user", "acl"} : Between(cl[p], n) => n \in pa2

LEMMA QuietStep ==
  ASSUME NEW f, NEW lk, NEW cl, NEW h, NEW st, NEW pa, NEW ov, ConfAt(f, lk, cl, h, st, pa, ov),
         NEW p, NEW cl2, NEW lk2, NEW pa2, Quiet(f, lk, cl, pa, ov, p, lk2, cl2, pa2)
  PROVE  ConfAt(f, lk2, cl2, h, st, pa2, ov)
<1>q. /\ p \in Client /\ cl2 \in [Client -> ReqRec] /\ lk2 \in [File -> Client \cup {ConfNone}] /\ pa2 \in SUBSET File
      /\ \A q \in Client \ {p} : cl2[q] = cl[q]
      /\ \A q \in Client \ {p} : \A n \in File : lk2[n] = q <=> lk[n] = q
      /\ cl2[p].saves = << >> /\ CallOK(cl2[p], p, lk2)
      /\ cl2[p].op = "delete_remote" => UsesRemote \notin f["sync"] \/ ov
      /\ pa \subseteq pa2 /\ \A n \in {"user", "acl"} : Between(cl[p], n) => n \in pa2
  BY DEF Quiet
<1>1. ConfTyped(f, lk2, cl2, h, st, pa2, ov) /\ BackedOK(f) /\ Defaults(f["domains"])
  BY <1>q DEF ConfAt, ConfTyped
<1>p. /\ SaveOK(cl2[p], p, f, h) /\ KeyOK(cl2[p], f) /\ UseOK(cl2[p], f, ov) /\ AclTyped(cl2[p].op, cl2[p].saves)
      /\ UserEnds(cl2[p].saves, f) /\ AclOK(cl2[p].op, f, cl2[p].saves)
  BY <1>q, NoSaves
<1>2. ASSUME NEW q \in Client
      PROVE  /\ CallOK(cl2[q], q, lk2) /\ SaveOK(cl2[q], q, f, h)
             /\ KeyOK(cl2[q], f) /\ UseOK(cl2[q], f, ov) /\ AclTyped(cl2[q].op, cl2[q].saves)
  <2>1. CASE q = p
    BY <2>1, <1>p, <1>q
  <2>2. CASE q # p
    <3>1. CallOK(cl[q], q, lk) /\ SaveOK(cl[q], q, f, h) /\ KeyOK(cl[q], f) /\ UseOK(cl[q], f, ov) /\ AclTyped(cl[q].op, cl[q].saves)
      BY DEF ConfAt
    <3>2. cl2[q] = cl[q] /\ {n \in File : lk2[n] = q} = {n \in File : lk[n] = q}
      BY <2>2, <1>q
    <3> QED
      BY <3>1, <3>2 DEF CallOK
  <2> QED
    BY <2>1, <2>2
<1>3. SecretInv(f, cl2, pa2)
  <2> SUFFICES ASSUME "user" \notin pa2 PROVE (SecretsOK(f) \/ \E q \in Client : Between(cl2[q], "user")) /\ \A q \in Client : UserEnds(cl2[q].saves, f)
    BY DEF SecretInv
  <2>1. (SecretsOK(f) \/ \E q \in Client : Between(cl[q], "user")) /\ \A q \in Client : UserEnds(cl[q].saves, f)
    BY <1>q DEF ConfAt, SecretInv
  <2>2. \A q \in Client : UserEnds(cl2[q].saves, f)
    BY <1>p, <1>q, <2>1
  <2>3. ASSUME NEW q \in Client, Between(cl[q], "user") PROVE Between(cl2[q], "user")
    <3>1. q # p
      BY <1>q, <2>3
    <3> QED
      BY <1>q, <3>1, <2>3
  <2> QED
    BY <2>1, <2>2, <2>3
<1>4. GrantInv(f, lk2, cl2, st, pa2)
  <2> SUFFICES ASSUME "acl" \notin st \cup pa2
               PROVE  /\ \/ "u!t" \in f["user"] \/ f["acl"] = {}
                         \/ \E q \in Client : lk2["acl"] = q /\ Between(cl2[q], "acl")
                      /\ \A q \in Client : AclOK(cl2[q].op, f, cl2[q].saves)
    BY DEF GrantInv
  <2>1. /\ \/ "u!t" \in f["user"] \/ f["acl"] = {}
           \/ \E q \in Client : lk["acl"] = q /\ Between(cl[q], "acl")
        /\ \A q \in Client : AclOK(cl[q].op, f, cl[q].saves)
    BY <1>q DEF ConfAt, GrantInv
  <2>2. \A q \in Client : AclOK(cl2[q].op, f, cl2[q].saves)
    BY <1>p, <1>q, <2>1
  <2>3. ASSUME NEW q \in Client, lk["acl"] = q, Between(cl[q], "acl") PROVE lk2["acl"] = q /\ Between(cl2[q], "acl")
    <3>1. q # p /\ "acl" \in File
      BY <1>q, <2>3 DEF File
    <3> QED
      BY <1>q, <3>1, <2>3
  <2> QED
    BY <2>1, <2>2, <2>3
<1> QED
  BY <1>1, <1>2, <1>3, <1>4 DEF ConfAt

(* A call that has ended is forgotten. *)
LEMMA ForgetStep ==
  ASSUME NEW f, NEW lk, NEW cl, NEW h, NEW st, NEW pa, NEW ov, ConfAt(f, lk, cl, h, st, pa, ov),
         NEW p \in Client, cl[p].saves = << >>
  PROVE  ConfAt(f, lk, cl, h \ {p}, st, pa, ov)
<1>1. ConfTyped(f, lk, cl, h \ {p}, st, pa, ov)
  BY DEF ConfAt, ConfTyped
<1>2. ASSUME NEW q \in Client PROVE SaveOK(cl[q], q, f, h \ {p})
  <2>1. SaveOK(cl[q], q, f, h)
    BY DEF ConfAt
  <2>2. CASE q = p
    <3>1. DOMAIN cl[p].saves = {}
      OBVIOUS
    <3> QED
      BY <2>2, <3>1 DEF SaveOK, Chained
  <2>3. CASE q # p
    BY <2>1, <2>3 DEF SaveOK
  <2> QED
    BY <2>2, <2>3
<1> QED
  BY <1>1, <1>2 DEF ConfAt

(* The key file of store_key is removed again. *)
LEMMA KeyfileStep ==
  ASSUME NEW f, NEW lk, NEW cl, NEW h, NEW st, NEW pa, NEW ov, ConfAt(f, lk, cl, h, st, pa, ov),
         NEW p \in Client, lk["keys"] = p, cl[p].saves = << >>, "k" \notin f["keys"],
         NEW f2, f2 = [f EXCEPT !["keyfile"] = {}]
  PROVE  ConfAt(f2, lk, cl, h, st, pa, ov)
<1>f. /\ f2 \in [File -> SUBSET Entry] /\ \A n \in File \ {"keyfile"} : f2[n] = f[n]
      /\ {"sync", "datastore", "keys", "tapekeys", "tapekeyconf", "domains", "user", "shadow", "acl", "keyfile"} \subseteq File
  BY DEF ConfAt, ConfTyped, FilesOK, File
<1>g. /\ f2["sync"] = f["sync"] /\ f2["datastore"] = f["datastore"] /\ f2["keys"] = f["keys"] /\ f2["tapekeys"] = f["tapekeys"]
      /\ f2["tapekeyconf"] = f["tapekeyconf"] /\ f2["domains"] = f["domains"] /\ f2["user"] = f["user"] /\ f2["shadow"] = f["shadow"]
      /\ f2["acl"] = f["acl"]
  BY <1>f
<1>1. ConfTyped(f2, lk, cl, h, st, pa, ov) /\ BackedOK(f2) /\ Defaults(f2["domains"])
  BY <1>f, <1>g DEF ConfAt, ConfTyped, FilesOK, BackedOK
<1>2. ASSUME NEW q \in Client
      PROVE  SaveOK(cl[q], q, f2, h) /\ KeyOK(cl[q], f2) /\ UseOK(cl[q], f2, ov)
  <2>1. CallOK(cl[q], q, lk) /\ SaveOK(cl[q], q, f, h) /\ KeyOK(cl[q], f) /\ UseOK(cl[q], f, ov) /\ cl[q].saves \in Seq(SaveRec)
    BY DEF ConfAt, ConfTyped, ReqRec
  <2>2. \A i \in DOMAIN cl[q].saves : cl[q].saves[i].name \notin {"keys", "keyfile"} /\ cl[q].saves[i].name \in File
    <3> SUFFICES ASSUME NEW i \in DOMAIN cl[q].saves, cl[q].saves[i].name \in {"keys", "keyfile"} PROVE FALSE
      BY <2>1, NamesAre
    <3>1. cl[q].op \notin Careless
      BY <2>1 DEF SaveOK, Careless
    <3>2. Guard(cl[q].saves[i].name) = "keys"
      BY DEF Guard
    <3>3. "keys" \in cl[q].held
      BY <2>1, <3>1, <3>2 DEF SaveOK
    <3>4. lk["keys"] = q
      BY <2>1, <3>3 DEF CallOK
    <3>5. DOMAIN cl[p].saves = {}
      OBVIOUS
    <3> QED
      BY <3>4, <3>5
  <2>3. SaveOK(cl[q], q, f2, h)
    BY <2>1, <2>2, <1>f DEF SaveOK
  <2>4. KeyBacked(cl[q].saves, f2)
    BY <2>1, <2>2, <1>g DEF KeyOK, KeyBacked, Backed
  <2>5. KeyOK(cl[q], f2)
    BY <2>1, <2>4, <1>g DEF KeyOK
  <2>6. UseOK(cl[q], f2, ov)
    BY <2>1, <1>g DEF UseOK
  <2> QED
    BY <2>3, <2>5, <2>6
<1>3. SecretInv(f2, cl, pa)
  BY <1>g DEF ConfAt, SecretInv, SecretsOK, UserEnds
<1>4. GrantInv(f2, lk, cl, st, pa)
  BY <1>g DEF ConfAt, GrantInv, AclOK
<1> QED
  BY <1>1, <1>2, <1>3, <1>4 DEF ConfAt

(* A call holds the lock of what it is to save, unless it is careless. *)
LEMMA HoldsGuard ==
  ASSUME NEW f, NEW lk, NEW c, NEW h, NEW q, CallOK(c, q, lk), SaveOK(c, q, f, h),
         NEW i \in DOMAIN c.saves
  PROVE  /\ c.op \notin Careless => lk[Guard(c.saves[i].name)] = q
         /\ c.saves[i].name \notin {"acl", "tfa"} => c.op \notin Careless
         /\ c.saves[i].name = "acl" /\ c.op # "delete_store_acl" => c.op \notin Careless
  BY DEF CallOK, SaveOK, Careless

LEMMA Guards ==
  /\ Guard("user") = "user" /\ Guard("shadow") = "user" /\ Guard("keys") = "keys" /\ Guard("keyfile") = "keys"
  /\ Guard("tapekeys") = "tapekeys" /\ Guard("tapekeyconf") = "tapekeys" /\ Guard("acl") = "acl" /\ Guard("domains") = "domains"
  BY DEF Guard

(* A call has loaded its files. *)
Loads(f, cl, p, sv, cl2) ==
    /\ p \in Client /\ cl2 \in [Client -> ReqRec] /\ sv \in Seq(SaveRec) /\ sv # << >>
    /\ \A q \in Client \ {p} : cl2[q] = cl[q]
    /\ cl[p].step = "lock" /\ cl[p].want = << >> /\ cl[p].op # "none"
    /\ cl2[p].op = cl[p].op /\ cl2[p].step = "save" /\ cl2[p].want = << >> /\ cl2[p].held = cl[p].held /\ cl2[p].saves = sv
    /\ SavesShape(cl[p].op, f, sv) /\ Effects(cl[p].op, f, sv)

LEMMA LoadStep ==
  ASSUME NEW f, NEW lk, NEW cl, NEW h, NEW st, NEW pa, NEW ov, ConfAt(f, lk, cl, h, st, pa, ov),
         NEW p, NEW sv, NEW cl2, Loads(f, cl, p, sv, cl2)
  PROVE  ConfAt(f, lk, cl2, h, st, pa, ov)
<1> SUFFICES ASSUME p \in Client, cl2 \in [Client -> ReqRec], sv \in Seq(SaveRec), sv # << >>,
                    \A q \in Client \ {p} : cl2[q] = cl[q],
                    cl[p].step = "lock", cl[p].want = << >>, cl[p].op # "none",
                    cl2[p].op = cl[p].op, cl2[p].step = "save", cl2[p].want = << >>, cl2[p].held = cl[p].held, cl2[p].saves = sv,
                    SavesShape(cl[p].op, f, sv), Effects(cl[p].op, f, sv)
             PROVE  ConfAt(f, lk, cl2, h, st, pa, ov)
  BY DEF Loads
<1> DEFINE op == cl[p].op
<1>1. ConfTyped(f, lk, cl2, h, st, pa, ov) /\ BackedOK(f) /\ Defaults(f["domains"])
  BY DEF ConfAt, ConfTyped
<1>2. /\ CallOK(cl[p], p, lk) /\ SaveOK(cl[p], p, f, h) /\ KeyOK(cl[p], f)
      /\ UseOK(cl[p], f, ov) /\ AclTyped(cl[p].op, cl[p].saves)
  BY DEF ConfAt
<1>3. CallOK(cl2[p], p, lk)
  <2>1. Wanted(cl2[p]) = Wanted(cl[p])
    BY DEF Wanted
  <2> QED
    BY <1>2, <2>1 DEF CallOK, NoRequest
<1>4. \A i \in DOMAIN sv : op \notin Careless => Guard(sv[i].name) \in cl[p].held
  <2> SUFFICES ASSUME NEW i \in DOMAIN sv, op \notin Careless PROVE Guard(sv[i].name) \in cl[p].held
    OBVIOUS
  <2>1. Guard(sv[i].name) \in Needs(op)
    BY DEF SavesShape, GuardOK
  <2>2. Needs(op) \subseteq cl[p].held \cup Wanted(cl[p])
    BY <1>2 DEF CallOK, Careless
  <2>3. Wanted(cl[p]) = {}
    <3>1. DOMAIN cl[p].want = {}
      OBVIOUS
    <3> QED
      BY <3>1 DEF Wanted
  <2> QED
    BY <2>1, <2>2, <2>3
<1>5. SaveOK(cl2[p], p, f, h)
  BY <1>4 DEF SaveOK, SavesShape, GuardOK
<1>6. KeyOK(cl2[p], f)
  BY <1>1 DEF KeyOK, Effects
<1>7. UseOK(cl2[p], f, ov)
  BY <1>2 DEF UseOK, Effects
<1>8. AclTyped(cl2[p].op, cl2[p].saves)
  BY DEF Effects
<1>9. ASSUME NEW q \in Client
      PROVE  /\ CallOK(cl2[q], q, lk) /\ SaveOK(cl2[q], q, f, h)
             /\ KeyOK(cl2[q], f) /\ UseOK(cl2[q], f, ov) /\ AclTyped(cl2[q].op, cl2[q].saves)
  <2>1. CASE q = p
    BY <2>1, <1>3, <1>5, <1>6, <1>7, <1>8
  <2>2. CASE q # p
    <3>1. cl2[q] = cl[q]
      BY <2>2
    <3> QED
      BY <3>1 DEF ConfAt
  <2> QED
    BY <2>1, <2>2
<1>c. \A n : ~Between(cl[p], n)
  BY DEF Between
<1>10. SecretInv(f, cl2, pa)
  <2> SUFFICES ASSUME "user" \notin pa PROVE (SecretsOK(f) \/ \E q \in Client : Between(cl2[q], "user")) /\ \A q \in Client : UserEnds(cl2[q].saves, f)
    BY DEF SecretInv
  <2>1. (SecretsOK(f) \/ \E q \in Client : Between(cl[q], "user")) /\ \A q \in Client : UserEnds(cl[q].saves, f)
    BY DEF ConfAt, SecretInv
  <2>2. UserEnds(sv, f)
    <3>1. CASE SecretsOK(f)
      BY <3>1 DEF Effects
    <3>2. CASE \A i \in DOMAIN sv : sv[i].name \notin {"user", "shadow"}
      BY <3>2 DEF UserEnds
    <3>3. ASSUME NEW q \in Client, Between(cl[q], "user"), NEW i \in DOMAIN sv, sv[i].name \in {"user", "shadow"} PROVE FALSE
      <4>1. PICK j \in DOMAIN cl[q].saves : cl[q].saves[j].name = "user"
        BY <3>3 DEF Between
      <4>2. CallOK(cl[q], q, lk) /\ SaveOK(cl[q], q, f, h)
        BY DEF ConfAt
      <4>3. lk["user"] = q
        BY <4>1, <4>2, HoldsGuard, Guards
      <4>4. CallOK(cl2[p], p, lk) /\ SaveOK(cl2[p], p, f, h) /\ i \in DOMAIN cl2[p].saves /\ cl2[p].saves[i].name \in {"user", "shadow"}
        BY <1>3, <1>5, <3>3
      <4>5. lk["user"] = p
        BY <4>4, HoldsGuard, Guards
      <4> QED
        BY <4>3, <4>5, <3>3, <1>c
    <3> QED
      BY <2>1, <3>1, <3>2, <3>3
  <2>3. \A q \in Client : UserEnds(cl2[q].saves, f)
    BY <2>1, <2>2
  <2>4. ASSUME NEW q \in Client, Between(cl[q], "user") PROVE Between(cl2[q], "user")
    BY <2>4, <1>c
  <2> QED
    BY <2>1, <2>3, <2>4
<1>11. GrantInv(f, lk, cl2, st, pa)
  <2> SUFFICES ASSUME "acl" \notin st \cup pa
               PROVE  /\ \/ "u!t" \in f["user"] \/ f["acl"] = {}
                         \/ \E q \in Client : lk["acl"] = q /\ Between(cl2[q], "acl")
                      /\ \A q \in Client : AclOK(cl2[q].op, f, cl2[q].saves)
    BY DEF GrantInv
  <2>1. /\ \/ "u!t" \in f["user"] \/ f["acl"] = {}
           \/ \E q \in Client : lk["acl"] = q /\ Between(cl[q], "acl")
        /\ \A q \in Client : AclOK(cl[q].op, f, cl[q].saves)
    BY DEF ConfAt, GrantInv
  <2>2. AclOK(op, f, sv)
    <3>1. CASE "u!t" \in f["user"] \/ f["acl"] = {}
      BY <3>1 DEF Effects
    <3>2. ASSUME NEW q \in Client, lk["acl"] = q, Between(cl[q], "acl"), NEW i \in DOMAIN sv, sv[i].name = "acl", op # "delete_store_acl"
          PROVE  FALSE
      <4>1. CallOK(cl2[p], p, lk) /\ SaveOK(cl2[p], p, f, h) /\ i \in DOMAIN cl2[p].saves /\ cl2[p].saves[i].name = "acl"
            /\ cl2[p].op # "delete_store_acl"
        BY <1>3, <1>5, <3>2
      <4>2. lk["acl"] = p
        BY <4>1, HoldsGuard, Guards
      <4> QED
        BY <4>2, <3>2, <1>c
    <3> QED
      BY <2>1, <3>1, <3>2 DEF AclOK
  <2>3. \A q \in Client : AclOK(cl2[q].op, f, cl2[q].saves)
    BY <2>1, <2>2
  <2>4. ASSUME NEW q \in Client, Between(cl[q], "acl") PROVE Between(cl2[q], "acl")
    BY <2>4, <1>c
  <2> QED
    BY <2>1, <2>3, <2>4
<1> QED
  BY <1>1, <1>9, <1>10, <1>11 DEF ConfAt

(* A call saves the first file on its list, and has the rest to save. *)
Saves(f, lk, cl, h, st, ov, p, s, f2, cl2, h2, st2, ov2) ==
    /\ p \in Client /\ cl[p].saves # << >> /\ s = cl[p].saves[1]
    /\ f2 = [f EXCEPT ![s.name] = s.to]
    /\ cl2 \in [Client -> ReqRec] /\ \A q \in Client \ {p} : cl2[q] = cl[q]
    /\ cl2[p].op = cl[p].op /\ cl2[p].want = << >> /\ cl2[p].held = cl[p].held /\ cl2[p].saves = Tail(cl[p].saves)
    /\ cl2[p].step = IF Tail(cl[p].saves) = << >> THEN "lock" ELSE "saving"
    /\ h \subseteq h2 /\ h2 \subseteq Client
    /\ lk[Guard(s.name)] # p =>
         \A q \in Client \ {p} : (\E i \in DOMAIN cl[q].saves : cl[q].saves[i].name = s.name) => q \in h2
    /\ st \subseteq st2 /\ st2 \subseteq File /\ (s.from # f[s.name] => s.name \in st2)
    /\ ov2 \in BOOLEAN /\ (ov => ov2)
    /\ \A q \in Client :
         /\ cl[q].op = "delete_remote" /\ s.name = "sync" /\ UsesRemote \in s.to \ f["sync"] => ov2
         /\ cl[q].op = "delete_key" /\ s.name = "sync" /\ KeyUsed(s.to) /\ ~KeyUsed(f["sync"]) => ov2
         /\ cl[q].op = "delete_s3_client" /\ s.name = "datastore" /\ "d" \in s.to \ f["datastore"] => ov2

(* What the file and the list are before and after. *)
LEMMA SaveFacts ==
  ASSUME NEW f, NEW lk, NEW cl, NEW h, NEW st, NEW pa, NEW ov, ConfAt(f, lk, cl, h, st, pa, ov),
         NEW p, NEW s, NEW f2, NEW cl2, NEW h2, NEW st2, NEW ov2, Saves(f, lk, cl, h, st, ov, p, s, f2, cl2, h2, st2, ov2)
  PROVE  /\ p \in Client /\ cl[p].saves \in Seq(SaveRec) /\ s = cl[p].saves[1] /\ 1 \in DOMAIN cl[p].saves
         /\ s \in SaveRec /\ s.name \in File /\ s.to \in SUBSET Entry
         /\ f \in [File -> SUBSET Entry] /\ f2 \in [File -> SUBSET Entry]
         /\ f2[s.name] = s.to /\ \A n \in File \ {s.name} : f2[n] = f[n]
         /\ CallOK(cl[p], p, lk) /\ SaveOK(cl[p], p, f, h) /\ KeyOK(cl[p], f) /\ UseOK(cl[p], f, ov)
         /\ AclTyped(cl[p].op, cl[p].saves)
         /\ cl[p].op \notin Careless => lk[Guard(s.name)] = p
         /\ s.name \notin {"acl", "tfa"} => cl[p].op \notin Careless
         /\ s.name \notin {"acl", "tfa"} => s.from = f[s.name]
<1>1. p \in Client /\ cl \in [Client -> ReqRec] /\ f \in [File -> SUBSET Entry] /\ cl[p].saves # << >> /\ s = cl[p].saves[1]
      /\ f2 = [f EXCEPT ![s.name] = s.to]
  BY DEF ConfAt, ConfTyped, FilesOK, Saves
<1>2. cl[p].saves \in Seq(SaveRec)
  BY <1>1 DEF ReqRec
<1>3. 1 \in DOMAIN cl[p].saves
  BY <1>1, <1>2, TailIs
<1>4. s \in SaveRec /\ s.name \in File /\ s.to \in SUBSET Entry
  BY <1>1, <1>2, <1>3, NamesAre
<1>5. f2 \in [File -> SUBSET Entry] /\ f2[s.name] = s.to /\ \A n \in File \ {s.name} : f2[n] = f[n]
  BY <1>1, <1>4
<1>6. /\ CallOK(cl[p], p, lk) /\ SaveOK(cl[p], p, f, h) /\ KeyOK(cl[p], f) /\ UseOK(cl[p], f, ov)
      /\ AclTyped(cl[p].op, cl[p].saves)
  BY <1>1 DEF ConfAt
<1>7. /\ cl[p].op \notin Careless => lk[Guard(s.name)] = p
      /\ s.name \notin {"acl", "tfa"} => cl[p].op \notin Careless
  BY <1>1, <1>3, <1>6, HoldsGuard
<1>8. FirstOf(cl[p].saves, 1)
  BY DEF FirstOf
<1>9. s.name \notin {"acl", "tfa"} => s.from = f[s.name]
  BY <1>1, <1>3, <1>6, <1>8 DEF SaveOK
<1> QED
  BY <1>1, <1>2, <1>3, <1>4, <1>5, <1>6, <1>7, <1>9

(* Two calls that are not careless do not save under one lock. *)
LEMMA OtherGuards ==
  ASSUME NEW f, NEW lk, NEW cl, NEW h, NEW st, NEW pa, NEW ov, ConfAt(f, lk, cl, h, st, pa, ov),
         NEW p, NEW s, NEW f2, NEW cl2, NEW h2, NEW st2, NEW ov2, Saves(f, lk, cl, h, st, ov, p, s, f2, cl2, h2, st2, ov2),
         NEW q \in Client, q # p, NEW i \in DOMAIN cl[q].saves
  PROVE  /\ cl[q].op \notin Careless /\ cl[p].op \notin Careless => Guard(cl[q].saves[i].name) # Guard(s.name)
         /\ cl[q].saves[i].name \in {"user", "shadow"} => s.name \notin {"user", "shadow"}
         /\ cl[q].saves[i].name \in {"keys", "keyfile"} => s.name \notin {"keys", "keyfile"}
         /\ cl[q].saves[i].name \in {"tapekeys", "tapekeyconf"} => s.name \notin {"tapekeys", "tapekeyconf"}
<1>1. CallOK(cl[q], q, lk) /\ SaveOK(cl[q], q, f, h)
  BY DEF ConfAt
<1>2. /\ cl[q].op \notin Careless => lk[Guard(cl[q].saves[i].name)] = q
      /\ cl[q].saves[i].name \notin {"acl", "tfa"} => cl[q].op \notin Careless
  BY <1>1, HoldsGuard
<1>3. /\ cl[p].op \notin Careless => lk[Guard(s.name)] = p
      /\ s.name \notin {"acl", "tfa"} => cl[p].op \notin Careless
  BY SaveFacts
<1>4. cl[q].op \notin Careless /\ cl[p].op \notin Careless => Guard(cl[q].saves[i].name) # Guard(s.name)
  BY <1>2, <1>3
<1> QED
  BY <1>2, <1>3, <1>4, Guards

LEMMA SaveTyped ==
  ASSUME NEW f, NEW lk, NEW cl, NEW h, NEW st, NEW pa, NEW ov, ConfAt(f, lk, cl, h, st, pa, ov),
         NEW p, NEW s, NEW f2, NEW cl2, NEW h2, NEW st2, NEW ov2, Saves(f, lk, cl, h, st, ov, p, s, f2, cl2, h2, st2, ov2)
  PROVE  ConfTyped(f2, lk, cl2, h2, st2, pa, ov2) /\ BackedOK(f2) /\ Defaults(f2["domains"])
<1>1. /\ p \in Client /\ cl[p].saves \in Seq(SaveRec) /\ s = cl[p].saves[1] /\ 1 \in DOMAIN cl[p].saves
      /\ f2 \in [File -> SUBSET Entry] /\ s.name \in File
      /\ f2[s.name] = s.to /\ \A n \in File \ {s.name} : f2[n] = f[n]
      /\ KeyOK(cl[p], f) /\ AclTyped(cl[p].op, cl[p].saves)
  BY SaveFacts
<1>2. {"acl", "domains", "keys", "keyfile", "tapekeys", "tapekeyconf"} \subseteq File
  BY DEF File
<1>3. DomainsOK(cl[p].saves) /\ KeyBacked(cl[p].saves, f)
  BY <1>1 DEF KeyOK
<1>4. f["domains"] \subseteq RealmEntry /\ f["acl"] \subseteq Grant /\ Defaults(f["domains"]) /\ BackedOK(f)
  BY DEF ConfAt, ConfTyped, FilesOK
<1>5. f2["domains"] \subseteq RealmEntry /\ Defaults(f2["domains"])
  <2>1. CASE s.name = "domains"
    BY <2>1, <1>1, <1>3 DEF DomainsOK
  <2>2. CASE s.name # "domains"
    <3>1. f2["domains"] = f["domains"]
      BY <2>2, <1>1, <1>2
    <3> QED
      BY <3>1, <1>4
  <2> QED
    BY <2>1, <2>2
<1>6. f2["acl"] \subseteq Grant
  <2>1. CASE s.name = "acl"
    BY <2>1, <1>1 DEF AclTyped
  <2>2. CASE s.name # "acl"
    BY <2>2, <1>1, <1>2, <1>4
  <2> QED
    BY <2>1, <2>2
<1>7. ASSUME NEW c \in File, NEW b \in File, c # b, NEW x, Backed(cl[p].saves, f, c, b, x), x \in f[c] => x \in f[b]
      PROVE  x \in f2[c] => x \in f2[b]
  <2>1. /\ s.name = c /\ x \in s.to => x \in f[b]
        /\ s.name = b /\ x \notin s.to => x \notin f[c]
    BY <1>1, <1>7 DEF Backed
  <2>2. CASE s.name = c
    BY <2>1, <2>2, <1>1, <1>7
  <2>3. CASE s.name = b
    BY <2>1, <2>3, <1>1, <1>7
  <2>4. CASE s.name \notin {c, b}
    BY <2>4, <1>1, <1>7
  <2> QED
    BY <2>2, <2>3, <2>4
<1>8. BackedOK(f2)
  <2>1. Backed(cl[p].saves, f, "keys", "keyfile", "k") /\ Backed(cl[p].saves, f, "tapekeyconf", "tapekeys", "x")
    BY <1>3 DEF KeyBacked
  <2>2. ("k" \in f["keys"] => "k" \in f["keyfile"]) /\ ("x" \in f["tapekeyconf"] => "x" \in f["tapekeys"])
    BY <1>4 DEF BackedOK
  <2>3. "keys" \in File /\ "keyfile" \in File /\ "tapekeyconf" \in File /\ "tapekeys" \in File
    BY <1>2
  <2>4. "k" \in f2["keys"] => "k" \in f2["keyfile"]
    BY <2>1, <2>2, <2>3, <1>7
  <2>5. "x" \in f2["tapekeyconf"] => "x" \in f2["tapekeys"]
    BY <2>1, <2>2, <2>3, <1>7
  <2> QED
    BY <2>4, <2>5 DEF BackedOK
<1>9. ConfTyped(f2, lk, cl2, h2, st2, pa, ov2)
  BY <1>1, <1>5, <1>6 DEF ConfAt, ConfTyped, FilesOK, Saves
<1> QED
  BY <1>5, <1>8, <1>9

-----------------------------------------------------------------------------
(* What holds of a list of saves holds of its rest, once the first is saved. *)

LEMMA TailChained ==
  ASSUME NEW sv \in Seq(SaveRec), sv # << >>, Chained(sv)
  PROVE  Chained(Tail(sv))
<1> DEFINE T == Tail(sv)
<1>1. Len(sv) \in Nat /\ DOMAIN T = 1 .. Len(sv) - 1 /\ \A i \in 1 .. Len(sv) - 1 : i + 1 \in DOMAIN sv /\ T[i] = sv[i + 1]
  BY TailIs
<1>t. DOMAIN sv = 1 .. Len(sv)
  BY TailIs
<1> HIDE DEF T
<1> SUFFICES ASSUME NEW i \in DOMAIN T, NEW k \in DOMAIN T, k < i, T[k].name = T[i].name, \A j \in k + 1 .. i - 1 : T[j].name # T[i].name
             PROVE  T[i].from = T[k].to
  BY DEF Chained, T
<1>2. T[i] = sv[i + 1] /\ T[k] = sv[k + 1] /\ i + 1 \in DOMAIN sv /\ k + 1 \in DOMAIN sv /\ i \in Nat /\ k \in Nat
  BY <1>1
<1>3. ASSUME NEW j \in k + 2 .. i PROVE sv[j].name # sv[i + 1].name
  <2>1. j - 1 \in k + 1 .. i - 1 /\ j - 1 \in 1 .. Len(sv) - 1 /\ (j - 1) + 1 = j
    BY <1>1, <1>2
  <2>2. T[j - 1] = sv[j]
    BY <1>1, <2>1
  <2> QED
    BY <1>2, <2>1, <2>2
<1>4. \A j \in (k + 1) + 1 .. (i + 1) - 1 : sv[j].name # sv[i + 1].name
  BY <1>2, <1>3
<1>5. k + 1 < i + 1
  BY <1>2
<1> QED
  BY <1>2, <1>4, <1>5 DEF Chained

LEMMA TailFirst ==
  ASSUME NEW sv \in Seq(SaveRec), sv # << >>, NEW i \in DOMAIN Tail(sv), FirstOf(Tail(sv), i)
  PROVE  /\ Tail(sv)[i] = sv[i + 1] /\ i + 1 \in DOMAIN sv
         /\ sv[1].name # sv[i + 1].name => FirstOf(sv, i + 1)
         /\ Chained(sv) /\ sv[1].name = sv[i + 1].name => sv[i + 1].from = sv[1].to
<1> DEFINE T == Tail(sv)
<1>1. /\ Len(sv) \in Nat /\ DOMAIN T = 1 .. Len(sv) - 1 /\ \A k \in 1 .. Len(sv) - 1 : k + 1 \in DOMAIN sv /\ T[k] = sv[k + 1]
      /\ DOMAIN sv = 1 .. Len(sv) /\ 1 \in DOMAIN sv
  BY TailIs
<1>f. \A k \in 1 .. i - 1 : T[k].name # T[i].name
  BY DEF FirstOf
<1>i. i \in DOMAIN T
  OBVIOUS
<1> HIDE DEF T
<1>2. T[i] = sv[i + 1] /\ i + 1 \in DOMAIN sv /\ i \in Nat /\ i >= 1
  BY <1>1, <1>i
<1>3. ASSUME NEW j \in 2 .. i PROVE sv[j].name # sv[i + 1].name
  <2>1. j - 1 \in 1 .. i - 1 /\ j - 1 \in 1 .. Len(sv) - 1 /\ (j - 1) + 1 = j
    BY <1>1, <1>2, <1>i
  <2>2. T[j - 1] = sv[j]
    BY <1>1, <2>1
  <2> QED
    BY <1>2, <1>f, <2>1, <2>2
<1>4. sv[1].name # sv[i + 1].name => FirstOf(sv, i + 1)
  <2> SUFFICES ASSUME sv[1].name # sv[i + 1].name, NEW k \in 1 .. (i + 1) - 1 PROVE sv[k].name # sv[i + 1].name
    BY DEF FirstOf
  <2>1. k = 1 \/ k \in 2 .. i
    BY <1>2
  <2> QED
    BY <2>1, <1>3
<1>5. Chained(sv) /\ sv[1].name = sv[i + 1].name => sv[i + 1].from = sv[1].to
  <2>1. \A j \in 1 + 1 .. (i + 1) - 1 : sv[j].name # sv[i + 1].name
    BY <1>2, <1>3
  <2>2. 1 < i + 1
    BY <1>2
  <2> QED
    BY <1>1, <1>2, <2>1, <2>2 DEF Chained
<1> QED
  BY <1>2, <1>4, <1>5 DEF T

LEMMA TailBacked ==
  ASSUME NEW sv \in Seq(SaveRec), sv # << >>, NEW f, NEW f2, NEW c \in File, NEW b \in File, c # b, NEW x, Backed(sv, f, c, b, x),
         f2[sv[1].name] = sv[1].to, \A n \in File \ {sv[1].name} : f2[n] = f[n]
  PROVE  Backed(Tail(sv), f2, c, b, x)
<1> DEFINE T == Tail(sv)
<1>1. /\ Len(sv) \in Nat /\ DOMAIN T = 1 .. Len(sv) - 1 /\ \A k \in 1 .. Len(sv) - 1 : k + 1 \in DOMAIN sv /\ T[k] = sv[k + 1]
      /\ DOMAIN sv = 1 .. Len(sv) /\ 1 \in DOMAIN sv
  BY TailIs
<1> HIDE DEF T
<1>2. ASSUME NEW i \in DOMAIN T, NEW j \in 1 .. (i + 1) - 1, j # 1 PROVE j - 1 \in 1 .. i - 1 /\ T[j - 1] = sv[j]
  <2>1. j - 1 \in 1 .. i - 1 /\ j - 1 \in 1 .. Len(sv) - 1 /\ (j - 1) + 1 = j
    BY <1>1, <1>2
  <2> QED
    BY <1>1, <2>1
<1>3. ASSUME NEW i \in DOMAIN T, T[i].name = c, x \in T[i].to
      PROVE  /\ x \in f2[b] \/ \E j \in 1 .. i - 1 : T[j].name = b /\ x \in T[j].to
             /\ \A j \in DOMAIN T : T[j].name = b => x \in T[j].to
  <2>1. T[i] = sv[i + 1] /\ i + 1 \in DOMAIN sv
    BY <1>1
  <2>2. /\ x \in f[b] \/ \E j \in 1 .. (i + 1) - 1 : sv[j].name = b /\ x \in sv[j].to
        /\ \A j \in DOMAIN sv : sv[j].name = b => x \in sv[j].to
    BY <1>3, <2>1 DEF Backed
  <2>3. \A j \in DOMAIN T : T[j].name = b => x \in T[j].to
    BY <1>1, <2>2
  <2>4. CASE sv[1].name = b
    <3>1. x \in sv[1].to
      BY <2>2, <2>4, <1>1
    <3> QED
      BY <2>3, <2>4, <3>1
  <2>5. CASE sv[1].name # b /\ x \in f[b]
    BY <2>3, <2>5
  <2>6. ASSUME sv[1].name # b, NEW j \in 1 .. (i + 1) - 1, sv[j].name = b, x \in sv[j].to
        PROVE  \E k \in 1 .. i - 1 : T[k].name = b /\ x \in T[k].to
    BY <1>2, <2>6
  <2> QED
    BY <2>2, <2>3, <2>4, <2>5, <2>6
<1>4. ASSUME NEW i \in DOMAIN T, T[i].name = b, x \notin T[i].to
      PROVE  x \notin f2[c] \/ \E j \in 1 .. i - 1 : T[j].name = c /\ x \notin T[j].to
  <2>1. T[i] = sv[i + 1] /\ i + 1 \in DOMAIN sv
    BY <1>1
  <2>2. x \notin f[c] \/ \E j \in 1 .. (i + 1) - 1 : sv[j].name = c /\ x \notin sv[j].to
    BY <1>4, <2>1 DEF Backed
  <2>3. CASE sv[1].name = c
    <3>1. x \notin sv[1].to
      BY <1>1, <1>4, <2>1, <2>3 DEF Backed
    <3> QED
      BY <3>1, <2>3
  <2>4. CASE sv[1].name # c /\ x \notin f[c]
    BY <2>4
  <2>5. ASSUME sv[1].name # c, NEW j \in 1 .. (i + 1) - 1, sv[j].name = c, x \notin sv[j].to
        PROVE  \E k \in 1 .. i - 1 : T[k].name = c /\ x \notin T[k].to
    BY <1>2, <2>5
  <2> QED
    BY <2>2, <2>3, <2>4, <2>5
<1> QED
  BY <1>3, <1>4 DEF Backed, T

LEMMA TailUserEnds ==
  ASSUME NEW sv \in Seq(SaveRec), sv # << >>, NEW f, NEW f2, UserEnds(sv, f),
         f2[sv[1].name] = sv[1].to, sv[1].name # "shadow" => f2["shadow"] = f["shadow"]
  PROVE  UserEnds(Tail(sv), f2)
<1> DEFINE T == Tail(sv)
<1>1. /\ Len(sv) \in Nat /\ DOMAIN T = 1 .. Len(sv) - 1 /\ \A k \in 1 .. Len(sv) - 1 : k + 1 \in DOMAIN sv /\ T[k] = sv[k + 1]
      /\ DOMAIN sv = 1 .. Len(sv) /\ 1 \in DOMAIN sv /\ Len(T) = Len(sv) - 1
  BY TailIs
<1> HIDE DEF T
<1>2. ASSUME NEW i \in DOMAIN T, NEW j \in 1 .. (i + 1) - 1, j # 1 PROVE j - 1 \in 1 .. i - 1 /\ T[j - 1] = sv[j]
  <2>1. j - 1 \in 1 .. i - 1 /\ j - 1 \in 1 .. Len(sv) - 1 /\ (j - 1) + 1 = j
    BY <1>1, <1>2
  <2> QED
    BY <1>1, <2>1
<1>3. ASSUME NEW i \in DOMAIN T, T[i].name = "user", "u!t" \notin T[i].to, \A k \in i + 1 .. Len(T) : T[k].name # "user"
      PROVE  /\ \A j \in DOMAIN T : T[j].name = "shadow" => "u!t" \notin T[j].to
             /\ "u!t" \notin f2["shadow"] \/ \E j \in 1 .. i - 1 : T[j].name = "shadow"
  <2>1. T[i] = sv[i + 1] /\ i + 1 \in DOMAIN sv
    BY <1>1
  <2>2. ASSUME NEW k \in (i + 1) + 1 .. Len(sv) PROVE sv[k].name # "user"
    <3>1. k - 1 \in i + 1 .. Len(T) /\ k - 1 \in 1 .. Len(sv) - 1 /\ (k - 1) + 1 = k
      BY <1>1, <2>2
    <3>2. T[k - 1] = sv[k]
      BY <1>1, <3>1
    <3> QED
      BY <1>3, <3>1, <3>2
  <2>3. /\ \A j \in DOMAIN sv : sv[j].name = "shadow" => "u!t" \notin sv[j].to
        /\ "u!t" \notin f["shadow"] \/ \E j \in 1 .. (i + 1) - 1 : sv[j].name = "shadow"
    BY <1>3, <2>1, <2>2 DEF UserEnds
  <2>4. \A j \in DOMAIN T : T[j].name = "shadow" => "u!t" \notin T[j].to
    BY <1>1, <2>3
  <2>5. CASE sv[1].name = "shadow"
    BY <2>3, <2>4, <2>5, <1>1
  <2>6. CASE sv[1].name # "shadow" /\ "u!t" \notin f["shadow"]
    BY <2>4, <2>6
  <2>7. ASSUME sv[1].name # "shadow", NEW j \in 1 .. (i + 1) - 1, sv[j].name = "shadow"
        PROVE  \E k \in 1 .. i - 1 : T[k].name = "shadow"
    BY <1>2, <2>7
  <2> QED
    BY <2>3, <2>4, <2>5, <2>6, <2>7
<1>4. ASSUME NEW j \in DOMAIN T, T[j].name = "shadow" PROVE \E i \in j + 1 .. Len(T) : T[i].name = "user"
  <2>1. T[j] = sv[j + 1] /\ j + 1 \in DOMAIN sv
    BY <1>1
  <2>2. PICK i \in (j + 1) + 1 .. Len(sv) : sv[i].name = "user"
    BY <1>4, <2>1 DEF UserEnds
  <2>3. i - 1 \in j + 1 .. Len(T) /\ i - 1 \in 1 .. Len(sv) - 1 /\ (i - 1) + 1 = i
    BY <1>1
  <2>4. T[i - 1] = sv[i]
    BY <1>1, <2>3
  <2> QED
    BY <2>2, <2>3, <2>4
<1> QED
  BY <1>3, <1>4 DEF UserEnds, T

LEMMA TailRemoves ==
  ASSUME NEW sv \in Seq(SaveRec), sv # << >>, NEW op, RemovesOK(op, sv)
  PROVE  RemovesOK(op, Tail(sv))
<1> DEFINE T == Tail(sv)
<1>1. /\ Len(sv) \in Nat /\ DOMAIN T = 1 .. Len(sv) - 1 /\ \A k \in 1 .. Len(sv) - 1 : k + 1 \in DOMAIN sv /\ T[k] = sv[k + 1]
      /\ DOMAIN sv = 1 .. Len(sv)
  BY TailIs
<1> HIDE DEF T
<1> SUFFICES ASSUME NEW i \in DOMAIN T
             PROVE  /\ T[i].name = "remote" /\ "r" \in T[i].from \ T[i].to => op = "delete_remote"
                    /\ T[i].name = "keys" /\ "k" \in T[i].from \ T[i].to => op = "delete_key"
                    /\ T[i].name = "s3" /\ "c" \in T[i].from \ T[i].to => op = "delete_s3_client"
                    /\ T[i].name = "tape" /\ "changer" \in T[i].from \ T[i].to => "drive:changer" \notin T[i].from
                    /\ T[i].name = "user" /\ "u!t" \in T[i].from \ T[i].to =>
                         op \in {"delete_user", "delete_token"} /\ \E j \in DOMAIN T : j > i /\ T[j].name = "acl"
  BY DEF RemovesOK, T
<1>2. T[i] = sv[i + 1] /\ i + 1 \in DOMAIN sv
  BY <1>1
<1>3. /\ sv[i + 1].name = "remote" /\ "r" \in sv[i + 1].from \ sv[i + 1].to => op = "delete_remote"
      /\ sv[i + 1].name = "keys" /\ "k" \in sv[i + 1].from \ sv[i + 1].to => op = "delete_key"
      /\ sv[i + 1].name = "s3" /\ "c" \in sv[i + 1].from \ sv[i + 1].to => op = "delete_s3_client"
      /\ sv[i + 1].name = "tape" /\ "changer" \in sv[i + 1].from \ sv[i + 1].to => "drive:changer" \notin sv[i + 1].from
      /\ sv[i + 1].name = "user" /\ "u!t" \in sv[i + 1].from \ sv[i + 1].to =>
           op \in {"delete_user", "delete_token"} /\ \E j \in DOMAIN sv : j > i + 1 /\ sv[j].name = "acl"
  BY <1>2 DEF RemovesOK
<1>4. ASSUME NEW j \in DOMAIN sv, j > i + 1, sv[j].name = "acl" PROVE \E k \in DOMAIN T : k > i /\ T[k].name = "acl"
  <2>1. j - 1 \in DOMAIN T /\ j - 1 > i /\ j - 1 \in 1 .. Len(sv) - 1 /\ (j - 1) + 1 = j
    BY <1>1, <1>4
  <2>2. T[j - 1] = sv[j]
    BY <1>1, <2>1
  <2> QED
    BY <2>1, <2>2, <1>4
<1> QED
  BY <1>2, <1>3, <1>4

LEMMA TailRest ==
  ASSUME NEW sv \in Seq(SaveRec), sv # << >>, NEW op
  PROVE  /\ DomainsOK(sv) => DomainsOK(Tail(sv))
         /\ AclTyped(op, sv) => AclTyped(op, Tail(sv))
         /\ \A n : (\E i \in DOMAIN sv : sv[i].name = n) => sv[1].name = n \/ \E i \in DOMAIN Tail(sv) : Tail(sv)[i].name = n
<1> DEFINE T == Tail(sv)
<1>1. /\ Len(sv) \in Nat /\ DOMAIN T = 1 .. Len(sv) - 1 /\ \A k \in 1 .. Len(sv) - 1 : k + 1 \in DOMAIN sv /\ T[k] = sv[k + 1]
      /\ DOMAIN sv = 1 .. Len(sv)
  BY TailIs
<1> HIDE DEF T
<1>2. DomainsOK(sv) => DomainsOK(T)
  BY <1>1 DEF DomainsOK
<1>3. AclTyped(op, sv) => AclTyped(op, T)
  BY <1>1 DEF AclTyped
<1>4. ASSUME NEW n, NEW i \in DOMAIN sv, sv[i].name = n, sv[1].name # n PROVE \E k \in DOMAIN T : T[k].name = n
  <2>1. i - 1 \in 1 .. Len(sv) - 1 /\ (i - 1) + 1 = i
    BY <1>1, <1>4
  <2>2. T[i - 1] = sv[i]
    BY <1>1, <2>1
  <2> QED
    BY <1>1, <1>4, <2>1, <2>2
<1>5. \A n : (\E i \in DOMAIN sv : sv[i].name = n) => sv[1].name = n \/ \E i \in DOMAIN T : T[i].name = n
  BY <1>4
<1> QED
  BY <1>2, <1>3, <1>5 DEF T

-----------------------------------------------------------------------------
(* A save, part by part. *)

(* The call that saves. *)
LEMMA SaveOwn ==
  ASSUME NEW f, NEW lk, NEW cl, NEW h, NEW st, NEW pa, NEW ov, ConfAt(f, lk, cl, h, st, pa, ov),
         NEW p, NEW s, NEW f2, NEW cl2, NEW h2, NEW st2, NEW ov2, Saves(f, lk, cl, h, st, ov, p, s, f2, cl2, h2, st2, ov2)
  PROVE  /\ CallOK(cl2[p], p, lk) /\ SaveOK(cl2[p], p, f2, h2)
         /\ KeyOK(cl2[p], f2) /\ UseOK(cl2[p], f2, ov2) /\ AclTyped(cl2[p].op, cl2[p].saves)
<1> DEFINE sv == cl[p].saves
           T == Tail(sv)
<1>1. /\ p \in Client /\ sv \in Seq(SaveRec) /\ s = sv[1] /\ 1 \in DOMAIN sv /\ s.name \in File
      /\ f2[s.name] = s.to /\ \A n \in File \ {s.name} : f2[n] = f[n]
      /\ CallOK(cl[p], p, lk) /\ SaveOK(cl[p], p, f, h) /\ KeyOK(cl[p], f) /\ UseOK(cl[p], f, ov) /\ AclTyped(cl[p].op, sv)
  BY SaveFacts
<1>2. /\ sv # << >> /\ cl2[p].op = cl[p].op /\ cl2[p].want = << >> /\ cl2[p].held = cl[p].held /\ cl2[p].saves = T
      /\ cl2[p].step = IF T = << >> THEN "lock" ELSE "saving"
      /\ h \subseteq h2 /\ (ov => ov2)
      /\ cl[p].op = "delete_remote" /\ s.name = "sync" /\ UsesRemote \in s.to \ f["sync"] => ov2
      /\ cl[p].op = "delete_key" /\ s.name = "sync" /\ KeyUsed(s.to) /\ ~KeyUsed(f["sync"]) => ov2
      /\ cl[p].op = "delete_s3_client" /\ s.name = "datastore" /\ "d" \in s.to \ f["datastore"] => ov2
  BY <1>1 DEF Saves
<1>3. /\ Len(sv) \in Nat /\ Len(sv) >= 1 /\ DOMAIN T = 1 .. Len(sv) - 1 /\ Len(T) = Len(sv) - 1 /\ T \in Seq(SaveRec)
      /\ \A k \in 1 .. Len(sv) - 1 : k + 1 \in DOMAIN sv /\ T[k] = sv[k + 1]
  BY <1>1, <1>2, TailIs
<1>4. /\ Chained(sv) => Chained(T)
      /\ \A i \in DOMAIN T : FirstOf(T, i) =>
           /\ T[i] = sv[i + 1] /\ i + 1 \in DOMAIN sv
           /\ sv[1].name # sv[i + 1].name => FirstOf(sv, i + 1)
           /\ Chained(sv) /\ sv[1].name = sv[i + 1].name => sv[i + 1].from = sv[1].to
  BY <1>1, <1>2, TailChained, TailFirst
<1>5. /\ DomainsOK(sv) => DomainsOK(T)
      /\ AclTyped(cl[p].op, sv) => AclTyped(cl[p].op, T)
      /\ RemovesOK(cl[p].op, sv) => RemovesOK(cl[p].op, T)
  BY <1>1, <1>2, TailRest, TailRemoves
<1>f. {"acl", "domains", "keys", "keyfile", "tapekeys", "tapekeyconf", "sync", "datastore"} \subseteq File
  BY DEF File
<1>6. KeyBacked(T, f2)
  <2>1. Backed(sv, f, "keys", "keyfile", "k") /\ Backed(sv, f, "tapekeyconf", "tapekeys", "x")
    BY <1>1 DEF KeyOK, KeyBacked
  <2>2. "keys" \in File /\ "keyfile" \in File /\ "tapekeyconf" \in File /\ "tapekeys" \in File
    BY <1>f
  <2>3. f2[sv[1].name] = sv[1].to /\ \A n \in File \ {sv[1].name} : f2[n] = f[n]
    BY <1>1
  <2> HIDE DEF sv, T
  <2>4. Backed(T, f2, "keys", "keyfile", "k")
    BY <1>1, <1>2, <2>1, <2>2, <2>3, TailBacked DEF T
  <2>5. Backed(T, f2, "tapekeyconf", "tapekeys", "x")
    BY <1>1, <1>2, <2>1, <2>2, <2>3, TailBacked DEF T
  <2> QED
    BY <2>4, <2>5 DEF KeyBacked
<1>7. CallOK(cl2[p], p, lk)
  <2>0. CallOK(cl[p], p, lk) /\ cl[p].saves # << >>
    BY <1>1, <1>2
  <2>s. cl[p].step \in {"save", "saving"} /\ (cl[p].op = "none" => cl[p] = NoRequest)
    BY <2>0 DEF CallOK
  <2>1. CallOK(cl[p], p, lk) /\ cl[p].step # "lock" /\ cl[p].op # "none"
    BY <2>0, <2>s DEF NoRequest
  <2>2. cl[p].want = << >>
    BY <2>1 DEF CallOK
  <2>3. Wanted(cl2[p]) = Wanted(cl[p])
    BY <1>2, <2>2 DEF Wanted
  <2>4. cl2[p].step \in {"lock", "saving"} /\ (cl2[p].saves # << >> <=> cl2[p].step = "saving")
    BY <1>2
  <2> HIDE DEF sv, T
  <2> QED
    BY <1>2, <2>1, <2>2, <2>3, <2>4 DEF CallOK
<1>8. SaveOK(cl2[p], p, f2, h2)
  <2>0. SaveOK(cl[p], p, f, h)
    BY <1>1
  <2>1. Chained(sv)
    BY <2>0 DEF SaveOK
  <2> SUFFICES ASSUME NEW i \in DOMAIN T
               PROVE  LET n == T[i].name IN
                      /\ cl[p].op \notin Careless => Guard(n) \in cl[p].held
                      /\ cl[p].op = "delete_store_acl" => n = "acl"
                      /\ cl[p].op = "update_webauthn_config" => n = "tfa"
                      /\ FirstOf(T, i) /\ (n \notin {"acl", "tfa"} \/ (p \notin h2 /\ cl[p].op \notin Careless)) => T[i].from = f2[n]
    BY <1>2, <1>4, <2>1 DEF SaveOK
  <2>2. T[i] = sv[i + 1] /\ i + 1 \in DOMAIN sv /\ sv[i + 1].name \in File
    BY <1>1, <1>3, NamesAre
  <2>3. LET n == sv[i + 1].name IN
        /\ cl[p].op \notin Careless => Guard(n) \in cl[p].held
        /\ cl[p].op = "delete_store_acl" => n = "acl"
        /\ cl[p].op = "update_webauthn_config" => n = "tfa"
        /\ FirstOf(sv, i + 1) /\ (n \notin {"acl", "tfa"} \/ (p \notin h /\ cl[p].op \notin Careless)) => sv[i + 1].from = f[n]
    BY <1>1, <2>2 DEF SaveOK
  <2>4. FirstOf(T, i) => /\ sv[1].name # sv[i + 1].name => FirstOf(sv, i + 1)
                         /\ sv[1].name = sv[i + 1].name => sv[i + 1].from = sv[1].to
    BY <1>4, <2>1
  <2> HIDE DEF sv, T
  <2> QED
    BY <1>1, <1>2, <2>2, <2>3, <2>4
<1>9. KeyOK(cl2[p], f2)
  <2>1. DomainsOK(T)
    BY <1>1, <1>5 DEF KeyOK
  <2>2. ASSUME cl[p].op = "store_key", T # << >>
        PROVE  "k" \notin f2["keys"] /\ Len(T) = 1 /\ T[1].name = "keys"
    <3>1. /\ "k" \notin f["keys"]
          /\ IF cl[p].step = "save" THEN Len(sv) = 2 /\ sv[1].name = "keyfile" /\ sv[2].name = "keys"
             ELSE Len(sv) = 1 /\ sv[1].name = "keys"
      BY <1>1, <1>2, <2>2 DEF KeyOK
    <3>2. Len(T) # 0
      <4> HIDE DEF T
      <4> QED
        BY <1>3, <2>2
    <3>3. Len(sv) = 2 /\ sv[1].name = "keyfile" /\ sv[2].name = "keys"
      BY <1>3, <3>1, <3>2
    <3>4. T[1] = sv[2]
      BY <1>3, <3>3
    <3>5. f2["keys"] = f["keys"]
      BY <1>1, <1>f, <3>3
    <3> QED
      BY <1>3, <3>1, <3>3, <3>4, <3>5
  <2> HIDE DEF sv, T
  <2> QED
    BY <1>2, <1>6, <2>1, <2>2 DEF KeyOK
<1>10. UseOK(cl2[p], f2, ov2)
  <2>1. /\ RemovesOK(cl[p].op, sv)
        /\ cl[p].op = "delete_remote" => UsesRemote \notin f["sync"] \/ ov
        /\ cl[p].op = "delete_key" => ~KeyUsed(f["sync"]) \/ ov
        /\ cl[p].op = "delete_s3_client" => "d" \notin f["datastore"] \/ ov
    BY <1>1, <1>2 DEF UseOK
  <2>2. s.name # "sync" => f2["sync"] = f["sync"]
    BY <1>1, <1>f
  <2>3. s.name # "datastore" => f2["datastore"] = f["datastore"]
    BY <1>1, <1>f
  <2> HIDE DEF sv, T
  <2> QED
    BY <1>1, <1>2, <1>5, <2>1, <2>2, <2>3 DEF UseOK
<1> QED
  BY <1>1, <1>2, <1>5, <1>7, <1>8, <1>9, <1>10

(* The other calls. *)
LEMMA SaveOther ==
  ASSUME NEW f, NEW lk, NEW cl, NEW h, NEW st, NEW pa, NEW ov, ConfAt(f, lk, cl, h, st, pa, ov),
         NEW p, NEW s, NEW f2, NEW cl2, NEW h2, NEW st2, NEW ov2, Saves(f, lk, cl, h, st, ov, p, s, f2, cl2, h2, st2, ov2),
         NEW q \in Client, q # p
  PROVE  SaveOK(cl[q], q, f2, h2) /\ KeyOK(cl[q], f2) /\ UseOK(cl[q], f2, ov2)
<1> DEFINE sv == cl[q].saves
<1>1. /\ p \in Client /\ s.name \in File /\ f2[s.name] = s.to /\ \A n \in File \ {s.name} : f2[n] = f[n]
      /\ cl[p].op \notin Careless => lk[Guard(s.name)] = p
      /\ s.name \notin {"acl", "tfa"} => cl[p].op \notin Careless
  BY SaveFacts
<1>2. /\ h \subseteq h2 /\ (ov => ov2)
      /\ lk[Guard(s.name)] # p /\ (\E i \in DOMAIN sv : sv[i].name = s.name) => q \in h2
      /\ cl[q].op = "delete_remote" /\ s.name = "sync" /\ UsesRemote \in s.to \ f["sync"] => ov2
      /\ cl[q].op = "delete_key" /\ s.name = "sync" /\ KeyUsed(s.to) /\ ~KeyUsed(f["sync"]) => ov2
      /\ cl[q].op = "delete_s3_client" /\ s.name = "datastore" /\ "d" \in s.to \ f["datastore"] => ov2
  BY DEF Saves
<1>3. CallOK(cl[q], q, lk) /\ SaveOK(cl[q], q, f, h) /\ KeyOK(cl[q], f) /\ UseOK(cl[q], f, ov) /\ sv \in Seq(SaveRec)
  BY DEF ConfAt, ConfTyped, ReqRec
<1>4. ASSUME NEW i \in DOMAIN sv
      PROVE  /\ sv[i].name \in File
             /\ cl[q].op \notin Careless => lk[Guard(sv[i].name)] = q
             /\ sv[i].name \notin {"acl", "tfa"} => cl[q].op \notin Careless
             /\ cl[q].op \notin Careless /\ cl[p].op \notin Careless => Guard(sv[i].name) # Guard(s.name)
             /\ sv[i].name \in {"keys", "keyfile"} => s.name \notin {"keys", "keyfile"}
             /\ sv[i].name \in {"tapekeys", "tapekeyconf"} => s.name \notin {"tapekeys", "tapekeyconf"}
  BY <1>3, NamesAre, HoldsGuard, OtherGuards
<1>f. {"acl", "domains", "keys", "keyfile", "tapekeys", "tapekeyconf", "sync", "datastore"} \subseteq File
  BY DEF File
<1>5. SaveOK(cl[q], q, f2, h2)
  <2> SUFFICES ASSUME NEW i \in DOMAIN sv, FirstOf(sv, i), sv[i].name \notin {"acl", "tfa"} \/ (q \notin h2 /\ cl[q].op \notin Careless)
               PROVE  sv[i].from = f2[sv[i].name]
    BY <1>3 DEF SaveOK
  <2>1. sv[i].from = f[sv[i].name]
    BY <1>2, <1>3 DEF SaveOK
  <2>2. sv[i].name # s.name
    <3> SUFFICES ASSUME sv[i].name = s.name PROVE FALSE
      OBVIOUS
    <3>1. cl[q].op \notin Careless
      BY <1>4
    <3>2. cl[p].op \in Careless
      BY <1>4, <3>1
    <3>3. s.name \in {"acl", "tfa"}
      BY <1>1, <3>2
    <3>4. q \notin h2
      BY <3>3
    <3>5. lk[Guard(s.name)] = q
      BY <1>4, <3>1
    <3> QED
      BY <1>2, <3>4, <3>5
  <2> QED
    BY <1>1, <1>4, <2>1, <2>2
<1>6. KeyBacked(sv, f2)
  <2>1. Backed(sv, f, "keys", "keyfile", "k") /\ Backed(sv, f, "tapekeyconf", "tapekeys", "x")
    BY <1>3 DEF KeyOK, KeyBacked
  <2>2. Backed(sv, f2, "keys", "keyfile", "k")
    <3>1. CASE \A i \in DOMAIN sv : sv[i].name \notin {"keys", "keyfile"}
      BY <3>1 DEF Backed
    <3>2. ASSUME NEW i \in DOMAIN sv, sv[i].name \in {"keys", "keyfile"} PROVE Backed(sv, f2, "keys", "keyfile", "k")
      <4>1. f2["keys"] = f["keys"] /\ f2["keyfile"] = f["keyfile"]
        BY <1>1, <1>4, <1>f, <3>2
      <4> QED
        BY <2>1, <4>1 DEF Backed
    <3> QED
      BY <3>1, <3>2
  <2>3. Backed(sv, f2, "tapekeyconf", "tapekeys", "x")
    <3>1. CASE \A i \in DOMAIN sv : sv[i].name \notin {"tapekeys", "tapekeyconf"}
      BY <3>1 DEF Backed
    <3>2. ASSUME NEW i \in DOMAIN sv, sv[i].name \in {"tapekeys", "tapekeyconf"} PROVE Backed(sv, f2, "tapekeyconf", "tapekeys", "x")
      <4>1. f2["tapekeys"] = f["tapekeys"] /\ f2["tapekeyconf"] = f["tapekeyconf"]
        BY <1>1, <1>4, <1>f, <3>2
      <4> QED
        BY <2>1, <4>1 DEF Backed
    <3> QED
      BY <3>1, <3>2
  <2> QED
    BY <2>2, <2>3 DEF KeyBacked
<1>7. KeyOK(cl[q], f2)
  <2>1. ASSUME cl[q].op = "store_key", sv # << >> PROVE f2["keys"] = f["keys"]
    <3>1. Len(sv) \in Nat /\ DOMAIN sv = 1 .. Len(sv)
      BY <1>3, <2>1, TailIs
    <3>2. \/ Len(sv) = 2 /\ sv[2].name = "keys"
          \/ Len(sv) = 1 /\ sv[1].name = "keys"
      BY <1>3, <2>1 DEF KeyOK
    <3>3. \E i \in DOMAIN sv : sv[i].name = "keys"
      BY <3>1, <3>2
    <3> QED
      BY <1>1, <1>4, <1>f, <3>3
  <2> HIDE DEF sv
  <2> QED
    BY <1>3, <1>6, <2>1 DEF KeyOK, sv
<1>8. UseOK(cl[q], f2, ov2)
  <2>2. s.name # "sync" => f2["sync"] = f["sync"]
    BY <1>1, <1>f
  <2>3. s.name # "datastore" => f2["datastore"] = f["datastore"]
    BY <1>1, <1>f
  <2> QED
    BY <1>1, <1>2, <1>3, <2>2, <2>3 DEF UseOK
<1> QED
  BY <1>5, <1>7, <1>8

(* Secrets and users. *)
LEMMA SaveSecret ==
  ASSUME NEW f, NEW lk, NEW cl, NEW h, NEW st, NEW pa, NEW ov, ConfAt(f, lk, cl, h, st, pa, ov),
         NEW p, NEW s, NEW f2, NEW cl2, NEW h2, NEW st2, NEW ov2, Saves(f, lk, cl, h, st, ov, p, s, f2, cl2, h2, st2, ov2)
  PROVE  SecretInv(f2, cl2, pa)
<1> DEFINE sv == cl[p].saves
           T == Tail(sv)
<1> SUFFICES ASSUME "user" \notin pa
             PROVE  /\ SecretsOK(f2) \/ \E q \in Client : Between(cl2[q], "user")
                    /\ \A q \in Client : UserEnds(cl2[q].saves, f2)
  BY DEF SecretInv
<1>1. /\ p \in Client /\ sv \in Seq(SaveRec) /\ s = sv[1] /\ 1 \in DOMAIN sv /\ s.name \in File
      /\ f2[s.name] = s.to /\ \A n \in File \ {s.name} : f2[n] = f[n]
  BY SaveFacts
<1>2. /\ sv # << >> /\ \A q \in Client \ {p} : cl2[q] = cl[q]
      /\ cl2[p].saves = T /\ cl2[p].step = IF T = << >> THEN "lock" ELSE "saving"
  BY <1>1 DEF Saves
<1>3. /\ SecretsOK(f) \/ \E q \in Client : Between(cl[q], "user")
      /\ \A q \in Client : UserEnds(cl[q].saves, f)
  BY DEF ConfAt, SecretInv
<1>4. /\ s.name # "user" => f2["user"] = f["user"]
      /\ s.name # "shadow" => f2["shadow"] = f["shadow"]
  BY <1>1 DEF File
<1>5. Len(sv) \in Nat /\ DOMAIN sv = 1 .. Len(sv) /\ DOMAIN T = 1 .. Len(sv) - 1 /\ \A k \in 1 .. Len(sv) - 1 : T[k] = sv[k + 1]
  BY <1>1, <1>2, TailIs
<1>6. \A n : (\E i \in DOMAIN sv : sv[i].name = n) => sv[1].name = n \/ \E i \in DOMAIN T : T[i].name = n
  BY <1>1, <1>2, TailRest
<1>e. T = << >> => DOMAIN T = {}
  OBVIOUS
<1>u. UserEnds(T, f2)
  <2>1. UserEnds(sv, f) /\ f2[sv[1].name] = sv[1].to /\ (sv[1].name # "shadow" => f2["shadow"] = f["shadow"])
    BY <1>1, <1>3, <1>4
  <2> HIDE DEF sv, T
  <2> QED
    BY <1>1, <1>2, <2>1, TailUserEnds DEF T
<1>7. \A q \in Client : UserEnds(cl2[q].saves, f2)
  <2> SUFFICES ASSUME NEW q \in Client, q # p PROVE UserEnds(cl[q].saves, f2)
    BY <1>2, <1>u
  <2>1. CASE \A i \in DOMAIN cl[q].saves : cl[q].saves[i].name \notin {"user", "shadow"}
    BY <2>1 DEF UserEnds
  <2>2. ASSUME NEW i \in DOMAIN cl[q].saves, cl[q].saves[i].name \in {"user", "shadow"} PROVE UserEnds(cl[q].saves, f2)
    <3>1. s.name \notin {"user", "shadow"}
      BY <2>2, OtherGuards
    <3>2. f2["shadow"] = f["shadow"] /\ UserEnds(cl[q].saves, f)
      BY <1>3, <1>4, <3>1
    <3> QED
      BY <3>2 DEF UserEnds
  <2> QED
    BY <2>1, <2>2
<1>8. SecretsOK(f2) \/ \E q \in Client : Between(cl2[q], "user")
  <2>1. CASE \E i \in DOMAIN T : T[i].name = "user"
    <3>1. Between(cl2[p], "user")
      BY <1>2, <1>e, <2>1 DEF Between
    <3> QED
      BY <1>1, <3>1
  <2>2. CASE \E q \in Client \ {p} : Between(cl[q], "user")
    BY <1>2, <2>2
  <2>3. CASE /\ ~\E i \in DOMAIN T : T[i].name = "user"
             /\ ~\E q \in Client \ {p} : Between(cl[q], "user")
    <3>1. s.name = "user" \/ ~Between(cl[p], "user")
      BY <1>1, <1>6, <2>3 DEF Between
    <3>2. \A k \in 2 .. Len(sv) : sv[k].name # "user"
      <4> SUFFICES ASSUME NEW k \in 2 .. Len(sv) PROVE sv[k].name # "user"
        OBVIOUS
      <4>1. k - 1 \in 1 .. Len(sv) - 1 /\ (k - 1) + 1 = k
        BY <1>5
      <4>2. T[k - 1] = sv[k]
        BY <1>5, <4>1
      <4> HIDE DEF sv, T
      <4> QED
        BY <1>5, <2>3, <4>1, <4>2
    <3>3. UserEnds(sv, f)
      BY <1>1, <1>3
    <3> HIDE DEF sv, T
    <3>4. s.name # "shadow"
      <4> SUFFICES ASSUME s.name = "shadow" PROVE FALSE
        OBVIOUS
      <4>1. \E i \in 1 + 1 .. Len(sv) : sv[i].name = "user"
        BY <1>1, <3>3 DEF UserEnds
      <4> QED
        BY <3>2, <4>1
    <3>5. CASE s.name = "user"
      <4>1. "u!t" \notin s.to => "u!t" \notin f["shadow"] \/ \E j \in 1 .. 1 - 1 : sv[j].name = "shadow"
        BY <1>1, <3>2, <3>3, <3>5 DEF UserEnds
      <4> QED
        BY <1>1, <1>4, <3>4, <3>5, <4>1 DEF SecretsOK
    <3>6. CASE s.name # "user"
      <4>1. SecretsOK(f)
        BY <1>1, <1>3, <2>3, <3>1, <3>6
      <4> QED
        BY <1>4, <3>4, <3>6, <4>1 DEF SecretsOK
    <3> QED
      BY <3>5, <3>6
  <2> QED
    BY <2>1, <2>2, <2>3
<1> QED
  BY <1>7, <1>8

(* Tokens and permissions. *)
LEMMA SaveGrant ==
  ASSUME NEW f, NEW lk, NEW cl, NEW h, NEW st, NEW pa, NEW ov, ConfAt(f, lk, cl, h, st, pa, ov),
         NEW p, NEW s, NEW f2, NEW cl2, NEW h2, NEW st2, NEW ov2, Saves(f, lk, cl, h, st, ov, p, s, f2, cl2, h2, st2, ov2)
  PROVE  GrantInv(f2, lk, cl2, st2, pa)
<1> DEFINE sv == cl[p].saves
           T == Tail(sv)
           op == cl[p].op
<1> SUFFICES ASSUME "acl" \notin st2 \cup pa
             PROVE  /\ \/ "u!t" \in f2["user"] \/ f2["acl"] = {}
                       \/ \E q \in Client : lk["acl"] = q /\ Between(cl2[q], "acl")
                    /\ \A q \in Client : AclOK(cl2[q].op, f2, cl2[q].saves)
  BY DEF GrantInv
<1>1. /\ p \in Client /\ sv \in Seq(SaveRec) /\ s = sv[1] /\ 1 \in DOMAIN sv /\ s.name \in File
      /\ f2[s.name] = s.to /\ \A n \in File \ {s.name} : f2[n] = f[n]
      /\ s.name \notin {"acl", "tfa"} => s.from = f[s.name]
      /\ CallOK(cl[p], p, lk) /\ SaveOK(cl[p], p, f, h) /\ UseOK(cl[p], f, ov) /\ AclTyped(op, sv)
  BY SaveFacts
<1>2. /\ sv # << >> /\ \A q \in Client \ {p} : cl2[q] = cl[q]
      /\ cl2[p].op = op /\ cl2[p].saves = T /\ cl2[p].step = IF T = << >> THEN "lock" ELSE "saving"
      /\ st \subseteq st2 /\ (s.from # f[s.name] => s.name \in st2)
  BY <1>1 DEF Saves
<1>3. /\ \/ "u!t" \in f["user"] \/ f["acl"] = {}
         \/ \E q \in Client : lk["acl"] = q /\ Between(cl[q], "acl")
      /\ \A q \in Client : AclOK(cl[q].op, f, cl[q].saves)
  BY <1>2 DEF ConfAt, GrantInv
<1>4. /\ s.name # "user" => f2["user"] = f["user"]
      /\ s.name # "acl" => f2["acl"] = f["acl"]
  BY <1>1 DEF File
<1>5. Len(sv) \in Nat /\ DOMAIN sv = 1 .. Len(sv) /\ DOMAIN T = 1 .. Len(sv) - 1
      /\ \A k \in 1 .. Len(sv) - 1 : T[k] = sv[k + 1] /\ k + 1 \in DOMAIN sv
  BY <1>1, <1>2, TailIs
<1>6. \A n : (\E i \in DOMAIN sv : sv[i].name = n) => sv[1].name = n \/ \E i \in DOMAIN T : T[i].name = n
  BY <1>1, <1>2, TailRest
<1>e. T = << >> => DOMAIN T = {}
  OBVIOUS
<1>g. ASSUME NEW q \in Client, NEW i \in DOMAIN cl[q].saves, cl[q].saves[i].name = "acl", cl[q].op # "delete_store_acl" PROVE lk["acl"] = q
  <2>1. CallOK(cl[q], q, lk) /\ SaveOK(cl[q], q, f, h)
    BY DEF ConfAt
  <2> QED
    BY <1>g, <2>1, HoldsGuard, Guards
(* Who removes the token has the permissions to save, too. *)
<1>r. ASSUME "u!t" \in f["user"], "u!t" \notin f2["user"]
      PROVE  /\ op \in {"delete_user", "delete_token"} /\ lk["acl"] = p
             /\ \E i \in DOMAIN T : T[i].name = "acl"
  <2>1. s.name = "user" /\ "u!t" \in s.from \ s.to
    BY <1>1, <1>4, <1>r
  <2>2. RemovesOK(op, sv)
    BY <1>1 DEF UseOK
  <2>3. op \in {"delete_user", "delete_token"} /\ \E j \in DOMAIN sv : j > 1 /\ sv[j].name = "acl"
    BY <1>1, <2>1, <2>2 DEF RemovesOK
  <2>4. lk["acl"] = p
    BY <1>1, <1>g, <2>3
  <2>5. \E i \in DOMAIN T : T[i].name = "acl"
    BY <1>1, <1>6, <2>1, <2>3
  <2> QED
    BY <2>3, <2>4, <2>5
<1>7. AclOK(op, f2, T)
  <2> SUFFICES ASSUME NEW i \in DOMAIN T, T[i].name = "acl", op # "delete_store_acl", T[i].to # {}
               PROVE  "u!t" \in f2["user"] /\ op \notin {"delete_user", "delete_token"}
    BY DEF AclOK
  <2>1. T[i] = sv[i + 1] /\ i + 1 \in DOMAIN sv
    BY <1>5
  <2>2. AclOK(op, f, sv)
    BY <1>1, <1>3
  <2>3. "u!t" \in f["user"] /\ op \notin {"delete_user", "delete_token"}
    BY <2>1, <2>2 DEF AclOK
  <2> QED
    BY <1>r, <2>3
<1>8. \A q \in Client : AclOK(cl2[q].op, f2, cl2[q].saves)
  <2> SUFFICES ASSUME NEW q \in Client, q # p PROVE AclOK(cl[q].op, f2, cl[q].saves)
    BY <1>2, <1>7
  <2> SUFFICES ASSUME NEW i \in DOMAIN cl[q].saves, cl[q].saves[i].name = "acl", cl[q].op # "delete_store_acl", cl[q].saves[i].to # {}
               PROVE  "u!t" \in f2["user"] /\ cl[q].op \notin {"delete_user", "delete_token"}
    BY DEF AclOK
  <2>1. "u!t" \in f["user"] /\ cl[q].op \notin {"delete_user", "delete_token"}
    BY <1>3 DEF AclOK
  <2>2. lk["acl"] = q
    BY <1>g
  <2> QED
    BY <1>r, <2>1, <2>2
<1>9. "u!t" \in f2["user"] \/ f2["acl"] = {} \/ \E q \in Client : lk["acl"] = q /\ Between(cl2[q], "acl")
  <2>1. CASE lk["acl"] = p /\ \E i \in DOMAIN T : T[i].name = "acl"
    <3>1. Between(cl2[p], "acl")
      BY <1>2, <1>e, <2>1 DEF Between
    <3> QED
      BY <1>1, <2>1, <3>1
  <2>2. CASE \E q \in Client \ {p} : lk["acl"] = q /\ Between(cl[q], "acl")
    BY <1>2, <2>2
  <2>3. CASE /\ ~(lk["acl"] = p /\ \E i \in DOMAIN T : T[i].name = "acl")
             /\ ~\E q \in Client \ {p} : lk["acl"] = q /\ Between(cl[q], "acl")
    <3>1. lk["acl"] = p /\ Between(cl[p], "acl") => s.name = "acl"
      BY <1>1, <1>6, <2>3 DEF Between
    <3>2. "u!t" \in f["user"] => "u!t" \in f2["user"]
      BY <1>r, <2>3
    <3> HIDE DEF sv, T
    <3>3. CASE s.name # "acl"
      BY <1>1, <1>3, <1>4, <2>3, <3>1, <3>2, <3>3
    <3>4. CASE s.name = "acl" /\ op # "delete_store_acl"
      <4>1. s.to = {} \/ "u!t" \in f["user"]
        <5>1. AclOK(op, f, sv)
          BY <1>1, <1>3 DEF sv
        <5> QED
          BY <1>1, <3>4, <5>1 DEF AclOK
      <4> QED
        BY <1>1, <3>2, <3>4, <4>1
    <3>5. CASE s.name = "acl" /\ op = "delete_store_acl"
      <4>1. lk["acl"] # p
        <5>1. "acl" \notin cl[p].held /\ cl[p].held = {n \in File : lk[n] = p}
          BY <1>1, <3>5 DEF CallOK
        <5> QED
          BY <5>1 DEF File
      <4>2. s.to \subseteq s.from /\ s.from = f["acl"]
        BY <1>1, <1>2, <3>5 DEF AclTyped
      <4> QED
        BY <1>1, <1>3, <2>3, <3>2, <3>5, <4>1, <4>2
    <3> QED
      BY <3>3, <3>4, <3>5
  <2> QED
    BY <2>1, <2>2, <2>3
<1> QED
  BY <1>8, <1>9

LEMMA SaveStep ==
  ASSUME NEW f, NEW lk, NEW cl, NEW h, NEW st, NEW pa, NEW ov, ConfAt(f, lk, cl, h, st, pa, ov),
         NEW p, NEW s, NEW f2, NEW cl2, NEW h2, NEW st2, NEW ov2, Saves(f, lk, cl, h, st, ov, p, s, f2, cl2, h2, st2, ov2)
  PROVE  ConfAt(f2, lk, cl2, h2, st2, pa, ov2)
<1>1. ConfTyped(f2, lk, cl2, h2, st2, pa, ov2) /\ BackedOK(f2) /\ Defaults(f2["domains"])
  BY SaveTyped
<1>2. ASSUME NEW q \in Client
      PROVE  /\ CallOK(cl2[q], q, lk) /\ SaveOK(cl2[q], q, f2, h2)
             /\ KeyOK(cl2[q], f2) /\ UseOK(cl2[q], f2, ov2) /\ AclTyped(cl2[q].op, cl2[q].saves)
  <2>1. CASE q = p
    BY <2>1, SaveOwn
  <2>2. CASE q # p
    <3>1. cl2[q] = cl[q]
      BY <2>2 DEF Saves
    <3>2. SaveOK(cl[q], q, f2, h2) /\ KeyOK(cl[q], f2) /\ UseOK(cl[q], f2, ov2)
      BY <2>2, SaveOther
    <3>3. CallOK(cl[q], q, lk) /\ AclTyped(cl[q].op, cl[q].saves)
      BY DEF ConfAt
    <3> QED
      BY <3>1, <3>2, <3>3
  <2> QED
    BY <2>1, <2>2
<1>3. SecretInv(f2, cl2, pa) /\ GrantInv(f2, lk, cl2, st2, pa)
  BY SaveSecret, SaveGrant
<1> QED
  BY <1>1, <1>2, <1>3 DEF ConfAt

-----------------------------------------------------------------------------
(* The actions. *)

LEMMA BegunOps ==
  ASSUME ConfAssumption, NEW a \in Areas, NEW op \in Ops(a)
  PROVE  op \in Op /\ op \notin ChainOp /\ op # "none"
<1>1. a \in AllAreas
  BY DEF ConfAssumption, AllAreas
<1>2. op \in Op
  BY <1>1 DEF Op
<1>3. \/ a = "access" \/ a = "deletes" \/ a = "factors" \/ a = "stores" \/ a = "sync" \/ a = "tape" \/ a = "tape_jobs"
      \/ a = "realms" \/ a = "other"
  BY <1>1 DEF AllAreas
<1>4. op \notin ChainOp /\ op # "none"
  BY <1>3 DEF Ops, ChainOp
<1> QED
  BY <1>2, <1>4

LEMMA ChainNone ==
  /\ "none" \notin Op /\ ChainOp \subseteq Op /\ LaterTask \subseteq Op
  /\ \A o \in LaterTask : o \notin ChainOp /\ o \notin {"end", "none", "delete_remote", "delete_store_acl"}
  /\ "none" \notin ChainOp /\ "delete_remote" \notin ChainOp
<1>1. ChainOp \subseteq Op /\ LaterTask \subseteq Op
  BY DEF Op
<1>2. /\ \A o \in LaterTask : o \notin ChainOp /\ o \notin {"end", "none", "delete_remote", "delete_store_acl"}
      /\ "none" \notin ChainOp /\ "delete_remote" \notin ChainOp
  BY DEF ChainOp, LaterTask
<1>3. "none" \notin Op
  BY OpCases
<1> QED
  BY <1>1, <1>2, <1>3

(* A call that waits for the locks of its handler. *)
LEMMA RequestIs ==
  ASSUME NEW op \in Op, NEW f, FilesOK(f), NEW held \in SUBSET File
  PROVE  LET c == Request(op, f, held) IN
         /\ c \in ReqRec /\ c.op = op /\ c.step = "lock" /\ c.held = held /\ c.saves = << >>
         /\ Needs(op) \subseteq Wanted(c)
         /\ op = "delete_store_acl" => c.want = << >>
<1> DEFINE c == Request(op, f, held)
<1>1. /\ HandlerOf(op, f).locks \in Seq(File) /\ HandlerOf(op, f).locks = HandlerOf(op, Empty).locks
      /\ op = "delete_store_acl" => HandlerOf(op, f).locks = << >>
  BY HandlerShape DEF LocksShape
<1>2. c = [op |-> op, step |-> "lock", want |-> HandlerOf(op, f).locks, held |-> held, saves |-> << >>]
  BY DEF Request
<1> HIDE DEF c
<1>3. c.op = op /\ c.step = "lock" /\ c.held = held /\ c.saves = << >> /\ c.want = HandlerOf(op, f).locks
  BY <1>2
<1>4. c \in ReqRec
  BY <1>1, <1>2 DEF ReqRec
<1>5. Needs(op) \subseteq Wanted(c)
  BY <1>1, <1>3 DEF Needs, Wanted
<1> QED
  BY <1>1, <1>3, <1>4, <1>5 DEF c

(* A call ends, or goes on with the locks in keep. *)
Goes(lk, cl, p, op, g, keep, lk2, cl2) ==
    /\ p \in Client /\ keep \in SUBSET File /\ keep \subseteq cl[p].held
    /\ cl2 = [q \in Client |-> cl2[q]] /\ \A q \in Client \ {p} : cl2[q] = cl[q]
    /\ lk2 = [n \in File |-> IF lk[n] = p /\ n \notin keep THEN ConfNone ELSE lk[n]]
    /\ \/ op = "end" /\ cl2[p] = NoRequest /\ keep = {}
       \/ op \in LaterTask /\ cl2[p] = Request(op, g, keep) /\ keep = {}
       \/ op \in ChainOp /\ cl2[p] = Request(op, g, keep) /\ keep = {"datastore"}

LEMMA GoOn ==
  ASSUME ConfAssumption,
         NEW f, NEW lk, NEW cl, NEW h, NEW st, NEW pa, NEW ov, ConfAt(f, lk, cl, h, st, pa, ov),
         NEW p, NEW op, NEW g, FilesOK(g), NEW keep, NEW lk2, NEW cl2, Goes(lk, cl, p, op, g, keep, lk2, cl2),
         NEW pa2 \in SUBSET File, pa \subseteq pa2, \A n \in {"user", "acl"} : Between(cl[p], n) => n \in pa2
  PROVE  ConfAt(f, lk2, cl2, h, st, pa2, ov)
<1>g. /\ p \in Client /\ keep \in SUBSET File /\ keep \subseteq cl[p].held
      /\ cl2 = [q \in Client |-> cl2[q]] /\ \A q \in Client \ {p} : cl2[q] = cl[q]
      /\ lk2 = [n \in File |-> IF lk[n] = p /\ n \notin keep THEN ConfNone ELSE lk[n]]
      /\ \/ op = "end" /\ cl2[p] = NoRequest /\ keep = {}
         \/ op \in LaterTask /\ cl2[p] = Request(op, g, keep) /\ keep = {}
         \/ op \in ChainOp /\ cl2[p] = Request(op, g, keep) /\ keep = {"datastore"}
  BY DEF Goes
<1>1. lk \in [File -> Client \cup {ConfNone}] /\ cl \in [Client -> ReqRec] /\ ConfNone \notin Client
      /\ cl[p].held = {n \in File : lk[n] = p}
  BY <1>g DEF ConfAt, ConfTyped, CallOK, ConfAssumption
<1>2. lk2 \in [File -> Client \cup {ConfNone}]
  BY <1>1, <1>g
<1>3. \A q \in Client \ {p} : \A n \in File : lk2[n] = q <=> lk[n] = q
  BY <1>1, <1>g
<1>4. {n \in File : lk2[n] = p} = keep
  BY <1>1, <1>g
<1>5. /\ cl2[p] \in ReqRec /\ cl2[p].saves = << >> /\ cl2[p].held = keep /\ cl2[p].step # "save" /\ cl2[p].step # "saving"
      /\ cl2[p].step = "idle" => cl2[p] = NoRequest
      /\ cl2[p].op = "none" => cl2[p] = NoRequest
      /\ cl2[p].op # "none" => cl2[p].step = "lock"
      /\ cl2[p].step # "lock" => cl2[p].want = << >>
      /\ cl2[p].op \in ChainOp => "datastore" \in keep
      /\ cl2[p].op = "delete_store_acl" => keep = {"datastore"} /\ cl2[p].want = << >>
      /\ cl2[p].op # "none" => Needs(cl2[p].op) \subseteq Wanted(cl2[p])
      /\ cl2[p].op # "delete_remote"
  <2>1. CASE cl2[p] = NoRequest /\ keep = {}
    <3>1. NoRequest \in ReqRec /\ NoRequest.saves = << >> /\ NoRequest.held = {} /\ NoRequest.step = "idle" /\ NoRequest.op = "none"
          /\ NoRequest.want = << >>
      <4>1. << >> \in Seq(File) /\ << >> \in Seq(SaveRec)
        OBVIOUS
      <4> QED
        BY <4>1 DEF NoRequest, ReqRec
    <3> QED
      BY <2>1, <3>1, ChainNone DEF ChainOp
  <2>2. ASSUME NEW o \in ChainOp \cup LaterTask, cl2[p] = Request(o, g, keep), o \in ChainOp => keep = {"datastore"}
        PROVE  /\ cl2[p] \in ReqRec /\ cl2[p].saves = << >> /\ cl2[p].held = keep /\ cl2[p].step = "lock" /\ cl2[p].op = o
               /\ o # "none" /\ o # "delete_remote" /\ Needs(o) \subseteq Wanted(cl2[p])
               /\ o = "delete_store_acl" => keep = {"datastore"} /\ cl2[p].want = << >>
    <3>1. o \in Op /\ o # "none" /\ o # "delete_remote"
      BY ChainNone
    <3>2. o = "delete_store_acl" => keep = {"datastore"}
      BY <2>2 DEF ChainOp
    <3> QED
      BY <1>g, <2>2, <3>1, <3>2, RequestIs
  <2>3. CASE cl2[p] = Request(op, g, keep) /\ op \in LaterTask /\ keep = {}
    <3>1. op \in ChainOp \cup LaterTask /\ op \notin ChainOp /\ op # "delete_store_acl"
      BY <2>3, ChainNone
    <3>2. /\ cl2[p] \in ReqRec /\ cl2[p].saves = << >> /\ cl2[p].held = keep /\ cl2[p].step = "lock" /\ cl2[p].op = op
          /\ op # "none" /\ op # "delete_remote" /\ Needs(op) \subseteq Wanted(cl2[p])
      BY <3>1, <2>2, <2>3
    <3> QED
      BY <3>1, <3>2
  <2>4. CASE cl2[p] = Request(op, g, keep) /\ op \in ChainOp /\ keep = {"datastore"}
    <3>1. /\ cl2[p] \in ReqRec /\ cl2[p].saves = << >> /\ cl2[p].held = keep /\ cl2[p].step = "lock" /\ cl2[p].op = op
          /\ op # "none" /\ op # "delete_remote" /\ Needs(op) \subseteq Wanted(cl2[p])
          /\ op = "delete_store_acl" => keep = {"datastore"} /\ cl2[p].want = << >>
      BY <2>2, <2>4
    <3> QED
      BY <3>1, <2>4
  <2> QED
    BY <1>g, <2>1, <2>3, <2>4
<1>6. CallOK(cl2[p], p, lk2)
  BY <1>4, <1>5 DEF CallOK
<1>7. cl2 \in [Client -> ReqRec]
  BY <1>1, <1>5, <1>g
<1>8. Quiet(f, lk, cl, pa, ov, p, lk2, cl2, pa2)
  BY <1>2, <1>3, <1>5, <1>6, <1>7, <1>g DEF Quiet
<1> QED
  BY <1>8, QuietStep

(* What Finish does. *)
LEMMA FinishIs ==
  ASSUME NEW p \in Client, client \in [Client -> ReqRec], NEW then \in ChainOp \cup LaterTask \cup {"end"},
         then \in ChainOp => "datastore" \in client[p].held, Finish(p, then)
  PROVE  Goes(lockOf, client, p, then, file, IF then \in ChainOp THEN {"datastore"} ELSE {}, lockOf', client')
<1>c. /\ "end" \notin ChainOp /\ "end" \notin LaterTask /\ \A o \in LaterTask : o \notin ChainOp
      /\ {"datastore"} \in SUBSET File /\ {} \in SUBSET File
  BY ChainNone DEF ChainOp, File
<1>1. CASE then = "end"
  <2>1. EndCall(p)
    BY <1>1, <1>c DEF Finish
  <2>2. /\ client' = [client EXCEPT ![p] = NoRequest]
        /\ lockOf' = [n \in File |-> IF lockOf[n] = p /\ n \notin {} THEN ConfNone ELSE lockOf[n]]
    BY <2>1 DEF EndCall, Continue
  <2> QED
    BY <1>1, <1>c, <2>2 DEF Goes
<1>2. CASE then \in LaterTask
  <2>1. Continue(p, Request(then, file, {}), {})
    BY <1>2, <1>c DEF Finish
  <2>2. /\ client' = [client EXCEPT ![p] = Request(then, file, {})]
        /\ lockOf' = [n \in File |-> IF lockOf[n] = p /\ n \notin {} THEN ConfNone ELSE lockOf[n]]
    BY <2>1 DEF Continue
  <2> QED
    BY <1>2, <1>c, <2>2 DEF Goes
<1>3. CASE then \in ChainOp
  <2>0. then # "end" /\ then \notin LaterTask
    BY <1>3, <1>c
  <2>1. Continue(p, Request(then, file, {"datastore"}), {"datastore"})
    BY <2>0 DEF Finish
  <2>2. /\ client' = [client EXCEPT ![p] = Request(then, file, {"datastore"})]
        /\ lockOf' = [n \in File |-> IF lockOf[n] = p /\ n \notin {"datastore"} THEN ConfNone ELSE lockOf[n]]
    BY <2>1 DEF Continue
  <2> QED
    BY <1>3, <1>c, <2>2 DEF Goes
<1> QED
  BY <1>1, <1>2, <1>3

(* The parts of the invariant a call's own step uses. *)
LEMMA OwnFacts ==
  ASSUME ConfInd, NEW p \in Client
  PROVE  /\ client \in [Client -> ReqRec] /\ lockOf \in [File -> Client \cup {ConfNone}] /\ FilesOK(file)
         /\ hit \subseteq Client /\ stale \subseteq File /\ partial \subseteq File /\ overtaken \in BOOLEAN
         /\ ConfAt(file, lockOf, client, hit, stale, partial, overtaken)
         /\ client[p] \in ReqRec /\ client[p].want \in Seq(File) /\ client[p].saves \in Seq(SaveRec)
         /\ client[p].held = {n \in File : lockOf[n] = p}
         /\ client[p].op \in Op \cup {"none"} /\ client[p].step \in {"idle", "lock", "save", "saving"}
         /\ CallOK(client[p], p, lockOf)
         /\ client[p].op = "delete_remote" => UsesRemote \notin file["sync"] \/ overtaken
<1>1. ConfAt(file, lockOf, client, hit, stale, partial, overtaken)
  BY DEF ConfInd
<1>2. /\ client \in [Client -> ReqRec] /\ lockOf \in [File -> Client \cup {ConfNone}] /\ FilesOK(file)
      /\ hit \subseteq Client /\ stale \subseteq File /\ partial \subseteq File /\ overtaken \in BOOLEAN
  BY <1>1 DEF ConfAt, ConfTyped
<1>3. CallOK(client[p], p, lockOf) /\ UseOK(client[p], file, overtaken)
  BY <1>1 DEF ConfAt
<1>4. client[p] \in ReqRec
  BY <1>2
<1>5. /\ client[p].want \in Seq(File) /\ client[p].saves \in Seq(SaveRec)
      /\ client[p].op \in Op \cup {"none"} /\ client[p].step \in {"idle", "lock", "save", "saving"}
  BY <1>4 DEF ReqRec
<1>6. client[p].held = {n \in File : lockOf[n] = p}
  BY <1>3 DEF CallOK
<1>7. client[p].op = "delete_remote" => UsesRemote \notin file["sync"] \/ overtaken
  BY <1>3 DEF UseOK
<1> QED
  BY <1>1, <1>2, <1>3, <1>4, <1>5, <1>6, <1>7

LEMMA WaitsForLock ==
  ASSUME ConfInd, NEW p \in Client, client[p].want # << >>
  PROVE  /\ client[p].step = "lock" /\ client[p].saves = << >> /\ client[p].op # "none" /\ client[p].op # "delete_store_acl"
         /\ Head(client[p].want) \in File /\ Tail(client[p].want) \in Seq(File)
         /\ \A n : ~Between(client[p], n)
<1>1. CallOK(client[p], p, lockOf) /\ client[p].want \in Seq(File)
  BY OwnFacts
<1>2. client[p].step = "lock" /\ client[p].saves = << >> /\ client[p].op # "delete_store_acl"
  BY <1>1 DEF CallOK
<1>3. client[p].op # "none"
  BY <1>1 DEF CallOK, NoRequest
<1>4. Head(client[p].want) \in File /\ Tail(client[p].want) \in Seq(File)
  BY <1>1
<1> QED
  BY <1>2, <1>3, <1>4 DEF Between

LEMMA ConfBeginInd ==
  ASSUME ConfAssumption, ConfInd, NEW p \in Client, NEW op \in Ops(area), ConfBegin(p, op)
  PROVE  ConfInd'
<1>1. /\ client \in [Client -> ReqRec] /\ lockOf \in [File -> Client \cup {ConfNone}] /\ FilesOK(file) /\ partial \subseteq File
      /\ ConfAt(file, lockOf, client, hit, stale, partial, overtaken)
      /\ client[p].held = {n \in File : lockOf[n] = p}
  BY OwnFacts
<1>2. /\ client[p] = NoRequest /\ client' = [client EXCEPT ![p] = Request(op, file, {})]
      /\ op = "delete_remote" => UsesRemote \notin file["sync"]
      /\ UNCHANGED <<area, file, lockOf, hit, stale, partial, overtaken>>
  BY DEF ConfBegin, MayBegin
<1>3. op \in Op /\ op \notin ChainOp /\ op # "none" /\ op # "delete_store_acl" /\ area \in Areas
  <2>1. area \in Areas
    BY DEF ConfInd
  <2>2. op \in Op /\ op \notin ChainOp /\ op # "none"
    BY <2>1, BegunOps
  <2> QED
    BY <2>1, <2>2 DEF ChainOp
<1> DEFINE c == Request(op, file, {})
<1>4. c \in ReqRec /\ c.op = op /\ c.step = "lock" /\ c.held = {} /\ c.saves = << >> /\ Needs(op) \subseteq Wanted(c)
  <2>1. {} \in SUBSET File
    OBVIOUS
  <2> QED
    BY <1>1, <1>3, <2>1, RequestIs
<1> HIDE DEF c
<1>5. client'[p] = c /\ client' \in [Client -> ReqRec] /\ \A q \in Client \ {p} : client'[q] = client[q]
  BY <1>1, <1>2, <1>4 DEF c
<1>6. {n \in File : lockOf[n] = p} = {} /\ \A n : ~Between(client[p], n)
  BY <1>1, <1>2 DEF NoRequest, Between
<1>7. CallOK(client'[p], p, lockOf)
  BY <1>3, <1>4, <1>5, <1>6 DEF CallOK
<1>8. client'[p].saves = << >> /\ client'[p].op = op
  BY <1>4, <1>5
<1>q. Quiet(file, lockOf, client, partial, overtaken, p, lockOf, client', partial)
  BY <1>1, <1>2, <1>5, <1>6, <1>7, <1>8 DEF Quiet
<1>9. ConfAt(file, lockOf, client', hit, stale, partial, overtaken)
  BY <1>1, <1>q, QuietStep
<1> QED
  BY <1>2, <1>3, <1>9 DEF ConfInd

LEMMA ConfLockInd ==
  ASSUME ConfAssumption, ConfInd, NEW p \in Client, ConfLock(p)
  PROVE  ConfInd'
<1> DEFINE c == client[p]
           n == Head(client[p].want)
           d == client'[p]
<1>1. /\ client \in [Client -> ReqRec] /\ lockOf \in [File -> Client \cup {ConfNone}] /\ partial \subseteq File
      /\ ConfAt(file, lockOf, client, hit, stale, partial, overtaken)
      /\ c \in ReqRec /\ c.want \in Seq(File) /\ c.held = {m \in File : lockOf[m] = p} /\ CallOK(c, p, lockOf)
      /\ c.op = "delete_remote" => UsesRemote \notin file["sync"] \/ overtaken
      /\ ConfNone \notin Client /\ area \in Areas
  BY OwnFacts DEF ConfInd, ConfAssumption
<1>2. /\ c.want # << >> /\ lockOf[n] = ConfNone
      /\ lockOf' = [lockOf EXCEPT ![n] = p]
      /\ client' = [client EXCEPT ![p] = [c EXCEPT !.want = Tail(c.want), !.held = c.held \cup {n}]]
      /\ UNCHANGED <<area, file, hit, stale, partial, overtaken>>
  BY DEF ConfLock
<1>3. /\ c.step = "lock" /\ c.saves = << >> /\ c.op # "none" /\ c.op # "delete_store_acl"
      /\ n \in File /\ Tail(c.want) \in Seq(File) /\ \A m : ~Between(c, m)
  BY <1>2, WaitsForLock
<1>4. d = [c EXCEPT !.want = Tail(c.want), !.held = c.held \cup {n}] /\ \A q \in Client \ {p} : client'[q] = client[q]
  BY <1>1, <1>2
<1> HIDE DEF c, n, d
<1>5. d.op = c.op /\ d.step = "lock" /\ d.saves = << >> /\ d.want = Tail(c.want) /\ d.held = c.held \cup {n} /\ d \in ReqRec
  <2>1. c.held \cup {n} \in SUBSET File
    BY <1>1, <1>3
  <2> QED
    BY <1>1, <1>3, <1>4, <2>1 DEF ReqRec
<1>6. client' \in [Client -> ReqRec]
  BY <1>1, <1>2, <1>4, <1>5 DEF d
<1>7. Wanted(c) \subseteq Wanted(d) \cup {n}
  <2> SUFFICES ASSUME NEW m \in File, NEW i \in DOMAIN c.want, c.want[i] = m PROVE m \in Wanted(d) \cup {n}
    BY DEF Wanted
  <2>1. Len(c.want) \in Nat /\ DOMAIN c.want = 1 .. Len(c.want) /\ n = c.want[1]
    BY <1>1, <1>2 DEF n, c
  <2>2. CASE i = 1
    BY <2>1, <2>2
  <2>3. CASE i # 1
    <3>1. i - 1 \in DOMAIN Tail(c.want) /\ Tail(c.want)[i - 1] = c.want[i]
      BY <1>1, <1>2, <2>1, <2>3
    <3> QED
      BY <1>5, <3>1 DEF Wanted
  <2> QED
    BY <2>2, <2>3
<1>8. /\ lockOf' \in [File -> Client \cup {ConfNone}] /\ {m \in File : lockOf'[m] = p} = c.held \cup {n}
      /\ \A q \in Client \ {p} : \A m \in File : lockOf'[m] = q <=> lockOf[m] = q
  BY <1>1, <1>2, <1>3
<1>9. CallOK(d, p, lockOf')
  BY <1>1, <1>3, <1>5, <1>7, <1>8 DEF CallOK
<1>10. ConfAt(file, lockOf', client', hit, stale, partial, overtaken)
  <2>1. client'[p].saves = << >> /\ CallOK(client'[p], p, lockOf') /\ \A m \in {"user", "acl"} : Between(client[p], m) => m \in partial
    BY <1>3, <1>5, <1>9 DEF d, c
  <2>2. client'[p].op = "delete_remote" => UsesRemote \notin file["sync"] \/ overtaken
    BY <1>1, <1>5 DEF d, c
  <2>3. Quiet(file, lockOf, client, partial, overtaken, p, lockOf', client', partial)
    BY <1>1, <1>4, <1>6, <1>8, <2>1, <2>2 DEF Quiet
  <2> QED
    BY <1>1, <2>3, QuietStep
<1> QED
  BY <1>1, <1>2, <1>10 DEF ConfInd

LEMMA ConfEndInd ==
  ASSUME ConfAssumption, ConfInd, NEW p \in Client, EndCall(p), UNCHANGED <<area, file, hit, stale, overtaken>>,
         partial' \in SUBSET File, partial \subseteq partial', \A n \in {"user", "acl"} : Between(client[p], n) => n \in partial'
  PROVE  ConfInd'
<1>1. /\ client \in [Client -> ReqRec] /\ FilesOK(file) /\ area \in Areas
      /\ ConfAt(file, lockOf, client, hit, stale, partial, overtaken)
  BY OwnFacts DEF ConfInd
<1>2. /\ client' = [client EXCEPT ![p] = NoRequest]
      /\ lockOf' = [n \in File |-> IF lockOf[n] = p /\ n \notin {} THEN ConfNone ELSE lockOf[n]]
  BY DEF EndCall, Continue
<1>3. client'[p] = NoRequest /\ client' = [q \in Client |-> client'[q]] /\ \A q \in Client \ {p} : client'[q] = client[q]
  BY <1>1, <1>2
<1>4. {} \in SUBSET File /\ {} \subseteq client[p].held
  OBVIOUS
<1>g. Goes(lockOf, client, p, "end", file, {}, lockOf', client')
  BY <1>2, <1>3, <1>4 DEF Goes
<1>5. ConfAt(file, lockOf', client', hit, stale, partial', overtaken)
  BY <1>1, <1>g, GoOn
<1> QED
  BY <1>1, <1>5 DEF ConfInd

LEMMA ConfTimeoutInd ==
  ASSUME ConfAssumption, ConfInd, NEW p \in Client, ConfTimeout(p)
  PROVE  ConfInd'
<1>1. client[p].want # << >> /\ EndCall(p) /\ UNCHANGED <<area, file, hit, stale, partial, overtaken>>
  BY DEF ConfTimeout, Blocked
<1>2. \A n : ~Between(client[p], n)
  BY <1>1, WaitsForLock
<1>3. partial \subseteq File
  BY OwnFacts
<1> QED
  BY <1>1, <1>2, <1>3, ConfEndInd

LEMMA ConfTimeoutIgnoredInd ==
  ASSUME ConfAssumption, ConfInd, NEW p \in Client, ConfTimeoutIgnored(p)
  PROVE  ConfInd'
<1> DEFINE c == client[p]
           d == client'[p]
<1>1. /\ client \in [Client -> ReqRec] /\ lockOf \in [File -> Client \cup {ConfNone}] /\ partial \subseteq File
      /\ ConfAt(file, lockOf, client, hit, stale, partial, overtaken)
      /\ c \in ReqRec /\ CallOK(c, p, lockOf) /\ area \in Areas
  BY OwnFacts DEF ConfInd
<1>2. /\ c.want # << >> /\ c.op = "update_webauthn_config"
      /\ client' = [client EXCEPT ![p] = [c EXCEPT !.want = Tail(c.want)]]
      /\ UNCHANGED <<area, file, lockOf, hit, stale, partial, overtaken>>
  BY DEF ConfTimeoutIgnored, Blocked
<1>3. c.step = "lock" /\ c.saves = << >> /\ Tail(c.want) \in Seq(File) /\ \A m : ~Between(c, m)
  BY <1>2, WaitsForLock
<1>4. d = [c EXCEPT !.want = Tail(c.want)] /\ \A q \in Client \ {p} : client'[q] = client[q]
  BY <1>1, <1>2
<1>5. d.op = c.op /\ d.step = "lock" /\ d.saves = << >> /\ d.held = c.held /\ d \in ReqRec
  BY <1>1, <1>3, <1>4 DEF ReqRec
<1>6. client' \in [Client -> ReqRec]
  BY <1>1, <1>2, <1>4, <1>5
<1>7. CallOK(d, p, lockOf)
  BY <1>1, <1>2, <1>3, <1>5 DEF CallOK, ChainOp
<1>8. ConfAt(file, lockOf, client', hit, stale, partial, overtaken)
  <2>1. client'[p].saves = << >> /\ CallOK(client'[p], p, lockOf) /\ client'[p].op # "delete_remote"
    BY <1>2, <1>5, <1>7
  <2>2. Quiet(file, lockOf, client, partial, overtaken, p, lockOf, client', partial)
    BY <1>1, <1>3, <1>4, <1>6, <2>1 DEF Quiet
  <2> QED
    BY <1>1, <2>2, QuietStep
<1> QED
  BY <1>1, <1>2, <1>8 DEF ConfInd

LEMMA ConfFailInd ==
  ASSUME ConfAssumption, ConfInd, NEW p \in Client, ConfFail(p)
  PROVE  ConfInd'
<1>1. /\ EndCall(p) /\ UNCHANGED <<area, file, hit, stale, overtaken>>
      /\ partial' = IF client[p].step = "saving" THEN partial \cup {n \in File : Pending(p, n)} ELSE partial
  BY DEF ConfFail
<1>2. partial \subseteq File
  BY OwnFacts
<1>3. \A n \in {"user", "acl"} : Between(client[p], n) => n \in partial'
  BY <1>1 DEF Between, Pending, File
<1>4. partial' \in SUBSET File /\ partial \subseteq partial'
  BY <1>1, <1>2
<1> QED
  BY <1>1, <1>3, <1>4, ConfEndInd

LEMMA ConfForgetInd ==
  ASSUME ConfAssumption, ConfInd, NEW p \in Client, ConfForget(p)
  PROVE  ConfInd'
<1>1. client[p] = NoRequest /\ hit' = hit \ {p} /\ UNCHANGED <<area, file, lockOf, client, stale, partial, overtaken>>
  BY DEF ConfForget
<1>2. client[p].saves = << >>
  BY <1>1 DEF NoRequest
<1>3. ConfAt(file, lockOf, client, hit \ {p}, stale, partial, overtaken)
  BY <1>2, ForgetStep, OwnFacts
<1> QED
  BY <1>1, <1>3 DEF ConfInd

(* delete_datastore holds its lock through the calls it makes. *)
LEMMA ChainHolds ==
  ASSUME ConfInd, NEW p \in Client, client[p].op # "none", client[p].want = << >>
  PROVE  /\ client[p].op \in Op /\ HandlerOf(client[p].op, file).then \in ChainOp \cup LaterTask \cup {"end"}
         /\ HandlerOf(client[p].op, file).then \in ChainOp => "datastore" \in client[p].held
         /\ SavesShape(client[p].op, file, HandlerOf(client[p].op, file).saves)
         /\ HandlerOf(client[p].op, file).ok => Effects(client[p].op, file, HandlerOf(client[p].op, file).saves)
<1> DEFINE op == client[p].op
<1>1. CallOK(client[p], p, lockOf) /\ op \in Op /\ FilesOK(file)
  BY OwnFacts
<1>2. /\ HandlerOf(op, file).then \in ChainOp \cup LaterTask \cup {"end"}
      /\ HandlerOf(op, file).then \in ChainOp => op \in ChainOp \cup {"delete_datastore"}
  BY <1>1, HandlerShape DEF LocksShape
<1>3. op \in ChainOp => "datastore" \in client[p].held
  BY <1>1 DEF CallOK
<1>4. op = "delete_datastore" => "datastore" \in client[p].held
  <2> SUFFICES ASSUME op = "delete_datastore" PROVE "datastore" \in client[p].held
    OBVIOUS
  <2>1. HandlerOf("delete_datastore", Empty).locks = <<"datastore">>
    BY DEF HandlerOf, DeleteDatastore, Handler
  <2>2. "datastore" \in Needs("delete_datastore")
    BY <2>1, LockNeeded DEF File
  <2>3. Wanted(client[p]) = {}
    <3>1. DOMAIN client[p].want = {}
      OBVIOUS
    <3> QED
      BY <3>1 DEF Wanted
  <2>4. Needs(op) \subseteq client[p].held \cup Wanted(client[p])
    BY <1>1 DEF CallOK
  <2> QED
    BY <2>2, <2>3, <2>4
<1>5. /\ SavesShape(op, file, HandlerOf(op, file).saves)
      /\ HandlerOf(op, file).ok => Effects(op, file, HandlerOf(op, file).saves)
  BY <1>1, HandlerShape
<1> QED
  BY <1>1, <1>2, <1>3, <1>4, <1>5

LEMMA ConfLoadInd ==
  ASSUME ConfAssumption, ConfInd, NEW p \in Client, ConfLoad(p)
  PROVE  ConfInd'
<1> DEFINE c == client[p]
           h == HandlerOf(client[p].op, file)
<1>1. /\ client \in [Client -> ReqRec] /\ FilesOK(file) /\ partial \subseteq File /\ area \in Areas
      /\ ConfAt(file, lockOf, client, hit, stale, partial, overtaken) /\ c \in ReqRec /\ CallOK(c, p, lockOf)
  BY OwnFacts DEF ConfInd
<1>2. /\ c.step = "lock" /\ c.want = << >>
      /\ \/ ~h.ok /\ EndCall(p)
         \/ h.ok /\ h.saves = << >> /\ Finish(p, h.then)
         \/ h.ok /\ h.saves # << >> /\ client' = [client EXCEPT ![p] = [c EXCEPT !.step = "save", !.saves = h.saves]] /\ lockOf' = lockOf
      /\ UNCHANGED <<area, file, hit, stale, partial, overtaken>>
  BY DEF ConfLoad
<1>3. c.op # "none" /\ \A n : ~Between(c, n)
  BY <1>1, <1>2 DEF CallOK, NoRequest, Between
<1>4. /\ c.op \in Op /\ h.then \in ChainOp \cup LaterTask \cup {"end"} /\ (h.then \in ChainOp => "datastore" \in c.held)
      /\ SavesShape(c.op, file, h.saves) /\ (h.ok => Effects(c.op, file, h.saves))
  BY <1>2, <1>3, ChainHolds
<1>5. CASE EndCall(p)
  BY <1>1, <1>2, <1>3, <1>5, ConfEndInd
<1>6. CASE Finish(p, h.then)
  <2>1. Goes(lockOf, client, p, h.then, file, IF h.then \in ChainOp THEN {"datastore"} ELSE {}, lockOf', client')
    BY <1>1, <1>4, <1>6, FinishIs
  <2>2. ConfAt(file, lockOf', client', hit, stale, partial, overtaken)
    BY <1>1, <1>3, <2>1, GoOn
  <2> QED
    BY <1>1, <1>2, <2>2 DEF ConfInd
<1>7. CASE h.ok /\ h.saves # << >> /\ client' = [client EXCEPT ![p] = [c EXCEPT !.step = "save", !.saves = h.saves]] /\ lockOf' = lockOf
  <2>1. h.saves \in Seq(SaveRec)
    BY <1>4 DEF SavesShape
  <2> HIDE DEF c, h
  <2>2. client'[p] = [c EXCEPT !.step = "save", !.saves = h.saves] /\ \A q \in Client \ {p} : client'[q] = client[q]
    BY <1>1, <1>7
  <2>3. /\ client'[p].op = c.op /\ client'[p].step = "save" /\ client'[p].want = << >> /\ client'[p].held = c.held
        /\ client'[p].saves = h.saves /\ client'[p] \in ReqRec
    <3>1. c \in ReqRec /\ c.want = << >>
      BY <1>1, <1>2
    <3> QED
      BY <2>1, <2>2, <3>1 DEF ReqRec
  <2>4. client' \in [Client -> ReqRec]
    BY <1>1, <1>7, <2>2, <2>3
  <2>5. Loads(file, client, p, h.saves, client')
    BY <1>2, <1>3, <1>4, <1>7, <2>1, <2>2, <2>3, <2>4 DEF Loads, c
  <2>6. ConfAt(file, lockOf, client', hit, stale, partial, overtaken)
    BY <1>1, <2>5, LoadStep
  <2> QED
    BY <1>1, <1>2, <1>7, <2>6 DEF ConfInd
<1> QED
  BY <1>2, <1>5, <1>6, <1>7

LEMMA ConfSaveInd ==
  ASSUME ConfAssumption, ConfInd, NEW p \in Client, ConfSave(p)
  PROVE  ConfInd'
<1> DEFINE c == client[p]
           sv == client[p].saves
           T == Tail(sv)
           s == Head(sv)
           h == HandlerOf(client[p].op, file)
           c1 == [c EXCEPT !.step = IF T = << >> THEN "lock" ELSE "saving", !.saves = T]
           cl1 == [client EXCEPT ![p] = c1]
<1>1. /\ client \in [Client -> ReqRec] /\ FilesOK(file) /\ partial \subseteq File /\ area \in Areas
      /\ hit \subseteq Client /\ stale \subseteq File /\ overtaken \in BOOLEAN
      /\ ConfAt(file, lockOf, client, hit, stale, partial, overtaken)
      /\ c \in ReqRec /\ CallOK(c, p, lockOf) /\ sv \in Seq(SaveRec) /\ c.op \in Op \cup {"none"}
  BY OwnFacts DEF ConfInd
<1>2. /\ c.step \in {"save", "saving"}
      /\ file' = [file EXCEPT ![s.name] = s.to]
      /\ \/ Len(sv) = 1 /\ Finish(p, h.then)
         \/ Len(sv) # 1 /\ client' = [client EXCEPT ![p] = [c EXCEPT !.step = "saving", !.saves = T]] /\ lockOf' = lockOf
      /\ hit' = IF lockOf[Guard(s.name)] = p THEN hit ELSE hit \cup {q \in Client \ {p} : Pending(q, s.name)}
      /\ stale' = IF s.from = file[s.name] THEN stale ELSE stale \cup {s.name}
      /\ overtaken' = (overtaken \/ UseAdded(s))
      /\ UNCHANGED <<area, partial>>
  BY DEF ConfSave
<1>3. sv # << >> /\ c.want = << >>
  BY <1>1, <1>2 DEF CallOK
<1>n. c.op # "none"
  <2>1. c.op = "none" => c = NoRequest
    BY <1>1 DEF CallOK
  <2> QED
    BY <1>2, <2>1 DEF NoRequest
<1>4. /\ Len(sv) \in Nat /\ Len(sv) >= 1 /\ s = sv[1] /\ 1 \in DOMAIN sv /\ T \in Seq(SaveRec) /\ Len(T) = Len(sv) - 1
  BY <1>1, <1>3, TailIs
<1>5. s.name \in File
  BY <1>1, <1>4, NamesAre
<1>6. T = << >> <=> Len(sv) = 1
  <2>1. T = << >> <=> Len(T) = 0
    BY <1>4, EmptyLen
  <2> HIDE DEF T
  <2> QED
    BY <1>4, <2>1
<1>7. Saves(file, lockOf, client, hit, stale, overtaken, p, s, file', cl1, hit', stale', overtaken')
  <2>1. sv # << >> /\ s = sv[1] /\ file' = [file EXCEPT ![s.name] = s.to]
    BY <1>2, <1>3, <1>4
  <2>2. /\ c1.op = c.op /\ c1.want = << >> /\ c1.held = c.held /\ c1.saves = T /\ c1.step = IF T = << >> THEN "lock" ELSE "saving"
        /\ c1 \in ReqRec
    <3> HIDE DEF T, c
    <3> QED
      BY <1>1, <1>3, <1>4 DEF ReqRec
  <2>3. cl1 \in [Client -> ReqRec] /\ cl1[p] = c1 /\ \A q \in Client \ {p} : cl1[q] = client[q]
    <3> HIDE DEF c1
    <3> QED
      BY <1>1, <2>2
  <2>4. /\ hit \subseteq hit' /\ hit' \subseteq Client
        /\ lockOf[Guard(s.name)] # p =>
             \A q \in Client \ {p} : (\E i \in DOMAIN client[q].saves : client[q].saves[i].name = s.name) => q \in hit'
    <3> HIDE DEF s
    <3> QED
      BY <1>1, <1>2 DEF Pending
  <2>5. stale \subseteq stale' /\ stale' \subseteq File /\ (s.from # file[s.name] => s.name \in stale')
    <3> HIDE DEF s
    <3> QED
      BY <1>1, <1>2, <1>5
  <2>6. overtaken' \in BOOLEAN /\ (overtaken => overtaken')
    BY <1>1, <1>2
  <2>7. \A q \in Client :
         /\ client[q].op = "delete_remote" /\ s.name = "sync" /\ UsesRemote \in s.to \ file["sync"] => overtaken'
         /\ client[q].op = "delete_key" /\ s.name = "sync" /\ KeyUsed(s.to) /\ ~KeyUsed(file["sync"]) => overtaken'
         /\ client[q].op = "delete_s3_client" /\ s.name = "datastore" /\ "d" \in s.to \ file["datastore"] => overtaken'
    <3> HIDE DEF s
    <3>1. UseAdded(s) => overtaken'
      BY <1>2
    <3> QED
      BY <3>1 DEF UseAdded, Removing
  <2> HIDE DEF c1, cl1, T, s
  <2> QED
    BY <2>1, <2>2, <2>3, <2>4, <2>5, <2>6, <2>7 DEF Saves, T
<1>8. ConfAt(file', lockOf, cl1, hit', stale', partial, overtaken')
  <2> HIDE DEF cl1, s
  <2> QED
    BY <1>1, <1>7, SaveStep
<1>9. CASE Len(sv) # 1 /\ client' = [client EXCEPT ![p] = [c EXCEPT !.step = "saving", !.saves = T]] /\ lockOf' = lockOf
  <2>1. client' = cl1
    <3>1. (IF T = << >> THEN "lock" ELSE "saving") = "saving"
      BY <1>6, <1>9
    <3> HIDE DEF T, c
    <3> QED
      BY <1>9, <3>1
  <2> HIDE DEF cl1
  <2> QED
    BY <1>1, <1>2, <1>8, <1>9, <2>1 DEF ConfInd
<1>10. CASE Len(sv) = 1 /\ Finish(p, h.then)
  <2>1. h.then \in ChainOp \cup LaterTask \cup {"end"} /\ (h.then \in ChainOp => "datastore" \in c.held)
    BY <1>3, <1>n, ChainHolds
  <2> DEFINE keep == IF h.then \in ChainOp THEN {"datastore"} ELSE {}
  <2>2. Goes(lockOf, client, p, h.then, file, keep, lockOf', client')
    BY <1>1, <1>10, <2>1, FinishIs
  <2>3. cl1[p].held = c.held /\ (\A q \in Client \ {p} : cl1[q] = client[q]) /\ cl1[p].step \in {"lock", "saving"} /\ cl1[p].saves = T
    <3>1. c1.held = c.held /\ c1.step \in {"lock", "saving"} /\ c1.saves = T
      <4> HIDE DEF T, c
      <4> QED
        BY <1>1 DEF ReqRec
    <3> HIDE DEF c1
    <3> QED
      BY <1>1, <3>1
  <2>4. DOMAIN cl1[p].saves = {}
    <3>1. cl1[p].saves = << >>
      BY <1>6, <1>10, <2>3
    <3> HIDE DEF cl1
    <3> QED
      BY <3>1
  <2> HIDE DEF cl1, h, keep
  <2>5. Goes(lockOf, cl1, p, h.then, file, keep, lockOf', client')
    BY <2>2, <2>3 DEF Goes
  <2>6. \A n : ~Between(cl1[p], n)
    BY <2>4 DEF Between
  <2>7. ConfAt(file', lockOf', client', hit', stale', partial, overtaken')
    BY <1>1, <1>8, <2>5, <2>6, GoOn
  <2> QED
    BY <1>1, <1>2, <2>7 DEF ConfInd
<1> QED
  BY <1>2, <1>9, <1>10

LEMMA StoreKeyUndoneInd ==
  ASSUME ConfAssumption, ConfInd, NEW p \in Client, StoreKeyUndone(p)
  PROVE  ConfInd'
<1> DEFINE c == client[p]
           c1 == [c EXCEPT !.step = "lock", !.saves = << >>]
           cl1 == [client EXCEPT ![p] = c1]
<1>1. /\ client \in [Client -> ReqRec] /\ FilesOK(file) /\ partial \subseteq File /\ area \in Areas
      /\ lockOf \in [File -> Client \cup {ConfNone}]
      /\ ConfAt(file, lockOf, client, hit, stale, partial, overtaken)
      /\ c \in ReqRec /\ CallOK(c, p, lockOf) /\ c.saves \in Seq(SaveRec)
  BY OwnFacts DEF ConfInd
<1>2. /\ c.op = "store_key" /\ c.step = "saving" /\ file' = [file EXCEPT !["keyfile"] = {}]
      /\ EndCall(p) /\ UNCHANGED <<area, hit, stale, partial, overtaken>>
  BY DEF StoreKeyUndone
<1>3. c.saves # << >> /\ c.want = << >>
  BY <1>1, <1>2 DEF CallOK
<1>4. KeyOK(c, file) /\ SaveOK(c, p, file, hit)
  BY <1>1 DEF ConfAt
<1>5. "k" \notin file["keys"] /\ Len(c.saves) = 1 /\ c.saves[1].name = "keys"
  BY <1>2, <1>3, <1>4 DEF KeyOK
<1>6. DOMAIN c.saves = {1}
  BY <1>1, <1>5
<1>7. lockOf["keys"] = p
  BY <1>1, <1>2, <1>4, <1>5, <1>6, HoldsGuard, Guards DEF Careless
<1>8. \A n \in {"user", "acl"} : ~Between(c, n)
  BY <1>5, <1>6 DEF Between
<1>9. /\ c1.op = c.op /\ c1.want = << >> /\ c1.held = c.held /\ c1.saves = << >> /\ c1.step = "lock" /\ c1 \in ReqRec
  <2>1. << >> \in Seq(SaveRec)
    OBVIOUS
  <2> HIDE DEF c
  <2> QED
    BY <1>1, <1>3, <2>1 DEF ReqRec
<1>10. CallOK(c1, p, lockOf)
  <2>1. Wanted(c1) = Wanted(c)
    BY <1>3, <1>9 DEF Wanted
  <2> HIDE DEF c1
  <2> QED
    BY <1>1, <1>2, <1>9, <2>1 DEF CallOK
<1> HIDE DEF c1
<1>11. cl1 \in [Client -> ReqRec] /\ cl1[p] = c1 /\ \A q \in Client \ {p} : cl1[q] = client[q]
  BY <1>1, <1>9
<1> HIDE DEF cl1
<1>12. Quiet(file, lockOf, client, partial, overtaken, p, lockOf, cl1, partial)
  <2>1. cl1[p].saves = << >> /\ CallOK(cl1[p], p, lockOf) /\ cl1[p].op # "delete_remote"
    BY <1>2, <1>9, <1>10, <1>11
  <2> QED
    BY <1>1, <1>8, <1>11, <2>1 DEF Quiet
<1>13. ConfAt(file, lockOf, cl1, hit, stale, partial, overtaken)
  BY <1>1, <1>12, QuietStep
<1>14. ConfAt(file', lockOf, cl1, hit, stale, partial, overtaken)
  <2>1. cl1[p].saves = << >>
    BY <1>9, <1>11
  <2> QED
    BY <1>2, <1>5, <1>7, <1>13, <2>1, KeyfileStep
<1>15. Goes(lockOf, cl1, p, "end", file, {}, lockOf', client')
  <2>1. /\ client' = [client EXCEPT ![p] = NoRequest]
        /\ lockOf' = [n \in File |-> IF lockOf[n] = p /\ n \notin {} THEN ConfNone ELSE lockOf[n]]
    BY <1>2 DEF EndCall, Continue
  <2>2. client'[p] = NoRequest /\ client' = [q \in Client |-> client'[q]] /\ \A q \in Client \ {p} : client'[q] = cl1[q]
    BY <1>1, <1>11, <2>1
  <2> QED
    BY <2>1, <2>2 DEF Goes
<1>16. \A n : ~Between(cl1[p], n)
  <2>1. DOMAIN cl1[p].saves = {}
    BY <1>9, <1>11
  <2> QED
    BY <2>1 DEF Between
<1>17. ConfAt(file', lockOf', client', hit, stale, partial, overtaken)
  BY <1>1, <1>14, <1>15, <1>16, GoOn
<1> QED
  BY <1>1, <1>2, <1>17 DEF ConfInd

LEMMA ConfInitInd ==
  ASSUME ConfAssumption, ConfInit
  PROVE  ConfInd
<1>1. /\ area \in Areas /\ file = [Empty EXCEPT !["datastore"] = IF area = "access" THEN {"d"} ELSE {}]
      /\ lockOf = [n \in File |-> ConfNone] /\ client = [p \in Client |-> NoRequest]
      /\ hit = {} /\ stale = {} /\ partial = {} /\ overtaken = FALSE
  BY DEF ConfInit
<1>2. file \in [File -> SUBSET Entry] /\ \A n \in File \ {"datastore"} : file[n] = {}
  <2>1. {"d"} \subseteq Entry /\ {} \subseteq Entry
    BY DEF Entry, Name
  <2> QED
    BY <1>1, <2>1 DEF Empty
<1>3. /\ file["acl"] = {} /\ file["domains"] = {} /\ file["keys"] = {} /\ file["tapekeyconf"] = {} /\ file["shadow"] = {}
      /\ file["sync"] = {}
  BY <1>2 DEF File
<1>4. NoRequest \in ReqRec /\ NoRequest.saves = << >> /\ NoRequest.held = {} /\ NoRequest.step = "idle" /\ NoRequest.op = "none"
      /\ NoRequest.want = << >>
  <2>1. << >> \in Seq(File) /\ << >> \in Seq(SaveRec)
    OBVIOUS
  <2> QED
    BY <2>1 DEF NoRequest, ReqRec
<1>5. ConfTyped(file, lockOf, client, hit, stale, partial, overtaken)
  BY <1>1, <1>2, <1>3, <1>4 DEF ConfTyped, FilesOK
<1>6. BackedOK(file) /\ Defaults(file["domains"]) /\ SecretsOK(file)
  BY <1>3 DEF BackedOK, Defaults, SecretsOK
<1>7. ASSUME NEW p \in Client
      PROVE  /\ CallOK(client[p], p, lockOf) /\ SaveOK(client[p], p, file, hit) /\ KeyOK(client[p], file)
             /\ UseOK(client[p], file, overtaken) /\ AclTyped(client[p].op, client[p].saves)
             /\ UserEnds(client[p].saves, file) /\ AclOK(client[p].op, file, client[p].saves)
  <2>1. client[p] = NoRequest
    BY <1>1
  <2>2. {n \in File : lockOf[n] = p} = {}
    BY <1>1 DEF ConfAssumption
  <2>3. CallOK(client[p], p, lockOf)
    BY <1>4, <2>1, <2>2, ChainNone DEF CallOK
  <2>4. client[p].saves = << >> /\ client[p].op # "delete_remote"
    BY <1>4, <2>1
  <2> QED
    BY <2>3, <2>4, NoSaves
<1>8. SecretInv(file, client, partial) /\ GrantInv(file, lockOf, client, stale, partial)
  BY <1>3, <1>6, <1>7 DEF SecretInv, GrantInv
<1>9. ConfAt(file, lockOf, client, hit, stale, partial, overtaken)
  BY <1>5, <1>6, <1>7, <1>8 DEF ConfAt
<1> QED
  BY <1>1, <1>9 DEF ConfInd

LEMMA ConfNextInd ==
  ASSUME ConfAssumption, ConfInd, [ConfNext]_confVars
  PROVE  ConfInd'
<1>1. CASE UNCHANGED confVars
  BY <1>1 DEF confVars, ConfInd
<1>2. CASE ConfNext
  <2>1. PICK p \in Client :
          \/ \E op \in Ops(area) : p \notin hit /\ ConfBegin(p, op)
          \/ ConfStep(p) \/ ConfFail(p) \/ StoreKeyUndone(p) \/ ConfForget(p)
    BY <1>2 DEF ConfNext
  <2>2. CASE \E op \in Ops(area) : p \notin hit /\ ConfBegin(p, op)
    BY <2>2, ConfBeginInd
  <2>3. CASE ConfStep(p)
    BY <2>3, ConfLockInd, ConfTimeoutInd, ConfTimeoutIgnoredInd, ConfLoadInd, ConfSaveInd DEF ConfStep
  <2>4. CASE ConfFail(p) \/ StoreKeyUndone(p) \/ ConfForget(p)
    BY <2>4, ConfFailInd, StoreKeyUndoneInd, ConfForgetInd
  <2> QED
    BY <2>1, <2>2, <2>3, <2>4
<1> QED
  BY <1>1, <1>2

(* The invariant of the configuration files and the calls that change them. *)
THEOREM ConfInductive == ConfSpec => []ConfInd
<1>1. ConfInit => ConfInd
  BY ConfAssumption, ConfInitInd
<1>2. ConfInd /\ [ConfNext]_confVars => ConfInd'
  BY ConfAssumption, ConfNextInd
<1> QED
  BY <1>1, <1>2, PTL DEF ConfSpec

(* No call saves a file that has changed since the call has loaded it, in    *)
(* whatever order calls lock, wait, save and fail: all the handlers, with     *)
(* the two calls that save without a lock and whom they hit set apart.       *)
THEOREM CallsLoseNothing == ConfSpec => []NothingLost
<1>1. ConfInd => NothingLost
  <2> SUFFICES ASSUME ConfInd, NEW p \in Client \ hit, client[p].op \notin Careless, NEW i \in DOMAIN client[p].saves,
                      \A k \in 1 .. i - 1 : client[p].saves[k].name # client[p].saves[i].name
               PROVE  client[p].saves[i].from = file[client[p].saves[i].name]
    BY DEF NothingLost
  <2>1. SaveOK(client[p], p, file, hit)
    BY DEF ConfInd, ConfAt
  <2>2. FirstOf(client[p].saves, i)
    BY DEF FirstOf
  <2> QED
    BY <2>1, <2>2 DEF SaveOK
<1> QED
  BY <1>1, ConfInductive, PTL

(* What several files say about one thing fits together after every step:   *)
(* tokens and their permissions and secrets, keys and their files, the       *)
(* default realm.                                                            *)
THEOREM ConfigAlwaysConsistent == ConfSpec => []ConfigConsistent
<1>1. ConfInd => ConfigConsistent
  <2> SUFFICES ASSUME ConfInd PROVE ConfigConsistent
    OBVIOUS
  <2>1. ConfAt(file, lockOf, client, hit, stale, partial, overtaken) /\ area \in Areas
    BY DEF ConfInd
  <2>2. ConfTypeOK
    <3>1. /\ file \in [File -> SUBSET Entry] /\ client \in [Client -> ReqRec] /\ lockOf \in [File -> Client \cup {ConfNone}]
          /\ hit \subseteq Client /\ stale \subseteq File /\ partial \subseteq File /\ overtaken \in BOOLEAN
      BY <2>1 DEF ConfAt, ConfTyped, FilesOK
    <3>2. \A p \in Client : client[p].step \in {"idle", "lock", "save", "saving"} /\ client[p].held \subseteq File
      BY <3>1 DEF ReqRec
    <3> QED
      BY <2>1, <3>1, <3>2 DEF ConfTypeOK
  <2>3. AclTokenKnown
    <3>1. GrantInv(file, lockOf, client, stale, partial)
      BY <2>1 DEF ConfAt
    <3> QED
      BY <3>1 DEF GrantInv, AclTokenKnown, Between, Pending
  <2>4. SecretKnown
    <3>1. SecretInv(file, client, partial)
      BY <2>1 DEF ConfAt
    <3> QED
      BY <3>1 DEF SecretInv, SecretsOK, SecretKnown, Between, Pending
  <2>5. KeysBacked /\ OneDefault
    BY <2>1 DEF ConfAt, BackedOK, KeysBacked, Defaults, OneDefault
  <2> QED
    BY <2>2, <2>3, <2>4, <2>5 DEF ConfigConsistent
<1> QED
  BY <1>1, ConfInductive, PTL

(* A step that does not save changes no file that is asked about. *)
LEMMA RemovesNothing ==
  ASSUME ConfInd, [ConfNext]_confVars
  PROVE  \/ \A n \in {"remote", "keys", "s3", "tape"} : file'[n] = file[n]
         \/ \E p \in Client : ConfSave(p)
<1>f. file \in [File -> SUBSET Entry] /\ {"remote", "keys", "s3", "tape", "keyfile"} \subseteq File
  <2>1. file \in [File -> SUBSET Entry]
    BY DEF ConfInd, ConfAt, ConfTyped, FilesOK
  <2> QED
    BY <2>1 DEF File
<1>1. CASE UNCHANGED confVars
  BY <1>1 DEF confVars
<1>2. CASE ConfNext
  <2>1. PICK p \in Client :
          \/ \E op \in Ops(area) : p \notin hit /\ ConfBegin(p, op)
          \/ ConfStep(p) \/ ConfFail(p) \/ StoreKeyUndone(p) \/ ConfForget(p)
    BY <1>2 DEF ConfNext
  <2>2. CASE ConfSave(p)
    BY <2>2
  <2>3. CASE StoreKeyUndone(p)
    <3>1. file' = [file EXCEPT !["keyfile"] = {}]
      BY <2>3 DEF StoreKeyUndone
    <3> QED
      BY <1>f, <3>1
  <2>4. CASE UNCHANGED file
    BY <2>4
  <2>5. (\E op \in Ops(area) : p \notin hit /\ ConfBegin(p, op)) => UNCHANGED file
    BY DEF ConfBegin
  <2>6. ConfLock(p) \/ ConfTimeout(p) \/ ConfTimeoutIgnored(p) \/ ConfLoad(p) => UNCHANGED file
    BY DEF ConfLock, ConfTimeout, ConfTimeoutIgnored, ConfLoad
  <2>7. ConfFail(p) \/ ConfForget(p) => UNCHANGED file
    BY DEF ConfFail, ConfForget
  <2> QED
    BY <2>1, <2>2, <2>3, <2>4, <2>5, <2>6, <2>7 DEF ConfStep
<1> QED
  BY <1>1, <1>2

(* Remotes, keys, object store clients and changers are removed only while   *)
(* nothing uses them, unless a use was saved after the call had looked.      *)
THEOREM OnlyUnusedRemoved == ConfSpec => RemovedUnused
<1> DEFINE Gone(n, x) == x \in file[n] /\ x \notin file'[n]
           WithoutUse == /\ Gone("remote", "r") => UsesRemote \notin file["sync"] \/ overtaken
                         /\ Gone("keys", "k") => ~KeyUsed(file["sync"]) \/ overtaken
                         /\ Gone("s3", "c") => "d" \notin file["datastore"] \/ overtaken
                         /\ Gone("tape", "changer") => "drive:changer" \notin file["tape"]
<1>1. ASSUME ConfInd, NEW p \in Client, ConfSave(p) PROVE WithoutUse
  <2> DEFINE c == client[p]
             s == Head(client[p].saves)
  <2>1. /\ file \in [File -> SUBSET Entry] /\ CallOK(c, p, lockOf) /\ c.saves \in Seq(SaveRec)
        /\ UseOK(c, file, overtaken) /\ SaveOK(c, p, file, hit)
    BY <1>1, OwnFacts DEF ConfAt, ConfTyped, FilesOK
  <2>2. c.step \in {"save", "saving"} /\ file' = [file EXCEPT ![s.name] = s.to]
    BY <1>1 DEF ConfSave
  <2>3. c.saves # << >>
    BY <2>1, <2>2 DEF CallOK
  <2>4. s = c.saves[1] /\ 1 \in DOMAIN c.saves /\ FirstOf(c.saves, 1)
    <3>1. s = c.saves[1] /\ 1 \in DOMAIN c.saves
      BY <2>1, <2>3, TailIs
    <3> QED
      BY <3>1 DEF FirstOf
  <2>5. s.name \in File /\ (s.name \notin {"acl", "tfa"} => s.from = file[s.name])
    BY <2>1, <2>4, NamesAre DEF SaveOK
  <2>6. /\ s.name = "remote" /\ "r" \in s.from \ s.to => UsesRemote \notin file["sync"] \/ overtaken
        /\ s.name = "keys" /\ "k" \in s.from \ s.to => ~KeyUsed(file["sync"]) \/ overtaken
        /\ s.name = "s3" /\ "c" \in s.from \ s.to => "d" \notin file["datastore"] \/ overtaken
        /\ s.name = "tape" /\ "changer" \in s.from \ s.to => "drive:changer" \notin s.from
    <3>1. /\ RemovesOK(c.op, c.saves)
          /\ c.op = "delete_remote" => UsesRemote \notin file["sync"] \/ overtaken
          /\ c.op = "delete_key" => ~KeyUsed(file["sync"]) \/ overtaken
          /\ c.op = "delete_s3_client" => "d" \notin file["datastore"] \/ overtaken
      BY <2>1, <2>3 DEF UseOK
    <3>2. /\ s.name = "remote" /\ "r" \in s.from \ s.to => c.op = "delete_remote"
          /\ s.name = "keys" /\ "k" \in s.from \ s.to => c.op = "delete_key"
          /\ s.name = "s3" /\ "c" \in s.from \ s.to => c.op = "delete_s3_client"
          /\ s.name = "tape" /\ "changer" \in s.from \ s.to => "drive:changer" \notin s.from
      BY <2>4, <3>1 DEF RemovesOK
    <3> QED
      BY <3>1, <3>2
  <2> HIDE DEF c, s
  <2>7. ASSUME NEW n \in File, NEW x, Gone(n, x) PROVE s.name = n /\ (n \notin {"acl", "tfa"} => x \in s.from \ s.to /\ s.from = file[n])
    <3>1. s.name = n
      BY <2>1, <2>2, <2>5, <2>7
    <3> QED
      BY <2>1, <2>2, <2>5, <2>7, <3>1
  <2>8. "remote" \in File /\ "keys" \in File /\ "s3" \in File /\ "tape" \in File
    BY DEF File
  <2> HIDE DEF Gone
  <2>9. /\ Gone("remote", "r") => UsesRemote \notin file["sync"] \/ overtaken
        /\ Gone("keys", "k") => ~KeyUsed(file["sync"]) \/ overtaken
    BY <2>6, <2>7, <2>8
  <2>10. /\ Gone("s3", "c") => "d" \notin file["datastore"] \/ overtaken
         /\ Gone("tape", "changer") => "drive:changer" \notin file["tape"]
    BY <2>6, <2>7, <2>8
  <2> QED
    BY <2>9, <2>10
<1>2. ASSUME ConfInd, [ConfNext]_confVars PROVE WithoutUse
  <2>1. CASE \A n \in {"remote", "keys", "s3", "tape"} : file'[n] = file[n]
    BY <2>1
  <2>2. CASE \E p \in Client : ConfSave(p)
    <3> HIDE DEF WithoutUse
    <3> QED
      BY <1>1, <1>2, <2>2
  <2> HIDE DEF WithoutUse
  <2> QED
    BY <1>2, <2>1, <2>2, RemovesNothing
<1>3. ConfInd /\ [ConfNext]_confVars => [WithoutUse]_confVars
  <2> HIDE DEF WithoutUse
  <2> QED
    BY <1>2
<1> QED
  BY <1>3, ConfInductive, PTL DEF ConfSpec, RemovedUnused

=============================================================================
