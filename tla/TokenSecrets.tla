---------------------------- MODULE TokenSecrets ----------------------------
(***************************************************************************)
(* token.shadow, and the secrets that each process has verified against it *)
(* and keeps in memory.  A process trusts its cache while the generation   *)
(* in shared memory is the one of the cache and the time stamp of the file *)
(* was looked at within the last minute.  apply_api_mutation looks at the  *)
(* file, reads it, replaces it, increases the generation and then brings   *)
(* its own cache up to date; verify_secret reads the generation, the file  *)
(* and the generation again.  An editor takes no lock, so the file may     *)
(* change between any two of these steps, and a process may die there.     *)
(*                                                                         *)
(* A secret is a number: odd when it was generated, even when it came with *)
(* an edit.  Whether the TTL has passed is a choice.  The generation and   *)
(* the time stamp are counters.                                            *)
(***************************************************************************)
EXTENDS Integers

CONSTANTS
    Token,
    TokenProc,     \* processes that verify secrets
    Mutator,       \* those of them that change token.shadow
    MaxWrites,     \* bound on the writes of the file
    EditByHand,    \* what the administrator does to a line of the file with an editor
    TokenNone

ASSUME MutatorAssumption == Mutator \subseteq TokenProc /\ MaxWrites \in Nat /\ EditByHand \subseteq {"remove", "replace"}

VARIABLES
    shadow,    \* the secret of each token in the file, 0 for none
    mtime,     \* of the file
    gen,       \* token_shadow_generation
    cache,     \* of each process
    mutation,  \* apply_api_mutation, by the holder of token.shadow.lock
    check,     \* the slow path of verify_secret in each process
    silent,    \* history: the time stamp of the last change that no generation announces, 0 for none
    blind      \* history: processes that keep a secret older than the file they have recorded

tokenVars == <<shadow, mtime, gen, cache, mutation, check, silent, blind>>

-----------------------------------------------------------------------------

Writes == 0 .. MaxWrites
Secrets == 0 .. 2 * MaxWrites + 1
MaxGen == MaxWrites    \* bound on the generation
Gens == 0 .. MaxGen
Unknown == -1

NoSecrets == [t \in Token |-> 0]
NoMutation == [step |-> "idle", proc |-> TokenNone, token |-> TokenNone, data |-> NoSecrets, before |-> 0, bumped |-> 0]
NoCheck == [step |-> "idle", token |-> TokenNone, secret |-> 0, before |-> 0, read |-> 0]
EmptyCache == [secrets |-> NoSecrets, gen |-> 0, info |-> Unknown]

TokenInit ==
    /\ shadow = NoSecrets /\ mtime = 0 /\ gen = 0
    /\ cache = [p \in TokenProc |-> EmptyCache]
    /\ mutation = NoMutation
    /\ check = [p \in TokenProc |-> NoCheck]
    /\ silent = 0 /\ blind = {}

(* reset_and_set_gen *)
ResetAndSetGen(g) == [EmptyCache EXCEPT !.gen = g]

(* insert_and_set_gen, evict_and_set_gen *)
PutAndSetGen(c, t, s, g) == [c EXCEPT !.secrets[t] = s, !.gen = g]

-----------------------------------------------------------------------------
(* apply_api_mutation *)

(* The lock is taken and the time stamp of the file kept: pre_write_meta. *)
LockShadow(p, t) ==
    /\ p \in Mutator /\ mutation = NoMutation /\ mtime < MaxWrites
    /\ mutation' = [NoMutation EXCEPT !.step = "locked", !.proc = p, !.token = t, !.before = mtime]
    /\ UNCHANGED <<shadow, mtime, gen, cache, check, silent, blind>>

(* The file is read, and a secret generated or deleted in what was read. *)
ReadShadow(generate) ==
    /\ mutation.step = "locked"
    /\ mutation' = [mutation EXCEPT !.step = "read",
           !.data = [shadow EXCEPT ![mutation.token] = IF generate THEN 2 * mtime + 1 ELSE 0]]
    /\ UNCHANGED <<shadow, mtime, gen, cache, check, silent, blind>>

(* The file cannot be read or written. *)
MutationFails ==
    /\ mutation.step \in {"locked", "read"}
    /\ mutation' = NoMutation
    /\ UNCHANGED <<shadow, mtime, gen, cache, check, silent, blind>>

(* The file is replaced by it: an edit made since is undone. *)
WriteShadow ==
    /\ mutation.step = "read" /\ mtime < MaxWrites
    /\ mtime' = mtime + 1 /\ shadow' = mutation.data
    /\ mutation' = [mutation EXCEPT !.step = "written"]
    /\ UNCHANGED <<gen, cache, check, silent, blind>>

(* bump_token_shadow_generation *)
BumpGeneration ==
    /\ mutation.step = "written" /\ gen < MaxGen
    /\ gen' = gen + 1
    /\ mutation' = [mutation EXCEPT !.step = "bumped", !.bumped = gen + 1]
    /\ UNCHANGED <<shadow, mtime, cache, check, silent, blind>>

(* The shared memory cannot be opened: no process is told of the change. *)
BumpFails ==
    /\ mutation.step = "written"
    /\ silent' = mtime
    /\ mutation' = [mutation EXCEPT !.step = "bumped", !.bumped = Unknown]
    /\ UNCHANGED <<shadow, mtime, gen, cache, check, blind>>

(* Somebody has edited the file since the mutation looked at it first. *)
Disturbed == mtime # mutation.before + 1

(* The cache, under its write lock: nothing of it is kept when the         *)
(* generation has moved on, or could not be increased, or the file was not *)
(* the one known before.  The time stamp that is recorded in the end is    *)
(* whatever the file has by then.  So the record is of a newer file than   *)
(* the secrets (blind) when an edit came in between, and when the process  *)
(* knew no file - a secret was cached after another process had increased  *)
(* the generation - and keeps what it has, however old.                    *)
UpdateCache ==
    LET p == mutation.proc
        t == mutation.token
        c == cache[p]
        missed == c.info # Unknown /\ c.info # mutation.before
        kept == IF missed THEN [c EXCEPT !.secrets = NoSecrets] ELSE c
        moved == gen # mutation.bumped
        undated == c.info = Unknown /\ (\E u \in Token \ {t} : c.secrets[u] # 0)
    IN  /\ mutation.step = "bumped"
        /\ cache' = [cache EXCEPT ![p] =
            IF moved THEN ResetAndSetGen(gen)
            ELSE [PutAndSetGen(kept, t, mutation.data[t], gen) EXCEPT !.info = mtime]]
        /\ blind' = IF ~moved /\ (Disturbed \/ undated) THEN blind \cup {p}
                    ELSE IF moved \/ missed THEN blind \ {p} ELSE blind
        /\ mutation' = NoMutation
        /\ UNCHANGED <<shadow, mtime, gen, check, silent>>

(* The generation cannot be read, or the file's metadata cannot. *)
CacheNotTrusted(g) ==
    /\ mutation.step = "bumped"
    /\ cache' = [cache EXCEPT ![mutation.proc] = ResetAndSetGen(g)]
    /\ blind' = blind \ {mutation.proc}
    /\ mutation' = NoMutation
    /\ UNCHANGED <<shadow, mtime, gen, check, silent>>

-----------------------------------------------------------------------------
(* verify_secret *)

Fresh(c) == c.gen = gen /\ c.info # Unknown

(* The slow path: the generation, then, when the time stamp is unknown or  *)
(* old, the file's metadata.  The others are told of a change if they can  *)
(* be.  Another thread of the process may be verifying a secret meanwhile. *)
Refresh(p, told) ==
    LET c == IF cache[p].gen # gen THEN ResetAndSetGen(gen) ELSE cache[p]
        changed == c.info # mtime
        bump == changed /\ c.info # Unknown /\ told
    IN  /\ bump => gen < MaxGen
        /\ gen' = IF bump THEN gen + 1 ELSE gen
        /\ cache' = [cache EXCEPT ![p] =
            [secrets |-> IF changed THEN NoSecrets ELSE c.secrets,
             gen |-> gen', info |-> mtime]]
        /\ cache' # cache
        /\ blind' = blind \ {p}
        /\ UNCHANGED <<shadow, mtime, mutation, check, silent>>

(* The file's metadata cannot be read. *)
RefreshFails(p) ==
    /\ cache[p].gen # gen
    /\ cache' = [cache EXCEPT ![p] = ResetAndSetGen(gen)]
    /\ blind' = blind \ {p}
    /\ UNCHANGED <<shadow, mtime, gen, mutation, check, silent>>

(* verify_secret: the cache does not have the secret, or another thread    *)
(* has it locked.  The generation is read ...                              *)
CaptureGeneration(p) ==
    /\ check[p] = NoCheck
    /\ check' = [check EXCEPT ![p] = [@ EXCEPT !.step = "captured", !.before = gen]]
    /\ UNCHANGED <<shadow, mtime, gen, cache, mutation, silent, blind>>

(* ... the secret is compared with the file, which has it ... *)
VerifyAgainstFile(p, t) ==
    /\ check[p].step = "captured" /\ shadow[t] # 0
    /\ check' = [check EXCEPT ![p] =
           [@ EXCEPT !.step = "verified", !.token = t, !.secret = shadow[t], !.read = mtime]]
    /\ UNCHANGED <<shadow, mtime, gen, cache, mutation, silent, blind>>

(* ... or has not, or cannot be read ... *)
VerifyFails(p) ==
    /\ check[p].step = "captured"
    /\ check' = [check EXCEPT ![p] = NoCheck]
    /\ UNCHANGED <<shadow, mtime, gen, cache, mutation, silent, blind>>

(* The file was changed after the secret was read from it, the process has *)
(* recorded the new file since, and no generation says so.                 *)
Outdated(p) == check[p].before = gen /\ cache[p].gen = gen /\ check[p].read < cache[p].info

StillBlind(p) == IF cache[p].gen # gen THEN blind \ {p} ELSE IF Outdated(p) THEN blind \cup {p} ELSE blind

(* Mutated form: it is cached whatever has happened meanwhile. *)
InsertAnyway(p) ==
    LET c == IF cache[p].gen # gen THEN ResetAndSetGen(gen) ELSE cache[p] IN
    /\ check[p].step = "verified"
    /\ cache' = [cache EXCEPT ![p] = PutAndSetGen(c, check[p].token, check[p].secret, gen)]
    /\ check' = [check EXCEPT ![p] = NoCheck]
    /\ blind' = StillBlind(p)
    /\ UNCHANGED <<shadow, mtime, gen, mutation, silent>>

(* ... and cached if the generation is still the same: cache_try_insert_secret. *)
TryInsertSecret(p) ==
    LET c == IF cache[p].gen # gen THEN ResetAndSetGen(gen) ELSE cache[p] IN
    /\ check[p].step = "verified"
    /\ cache' = [cache EXCEPT ![p] =
        IF check[p].before = gen THEN PutAndSetGen(c, check[p].token, check[p].secret, gen) ELSE c]
    /\ check' = [check EXCEPT ![p] = NoCheck]
    /\ blind' = StillBlind(p)
    /\ UNCHANGED <<shadow, mtime, gen, mutation, silent>>

(* The cache's lock is held by another thread: nothing is cached. *)
InsertSkipped(p) ==
    /\ check[p].step = "verified"
    /\ check' = [check EXCEPT ![p] = NoCheck]
    /\ UNCHANGED <<shadow, mtime, gen, cache, mutation, silent, blind>>

-----------------------------------------------------------------------------

(* The administrator removes or replaces a line of the file, at any time. *)
EditShadow(t, edit) ==
    /\ edit \in EditByHand /\ mtime < MaxWrites
    /\ mtime' = mtime + 1
    /\ shadow' = [shadow EXCEPT ![t] = IF edit = "remove" THEN 0 ELSE 2 * mtime + 2]
    /\ silent' = mtime + 1
    /\ UNCHANGED <<gen, cache, mutation, check, blind>>

(* A daemon dies and starts again, with an empty cache.  What it has       *)
(* written and not announced stays unannounced.                            *)
TokenRestart(p) ==
    /\ cache[p] # EmptyCache \/ check[p] # NoCheck \/ mutation.proc = p
    /\ cache' = [cache EXCEPT ![p] = EmptyCache]
    /\ check' = [check EXCEPT ![p] = NoCheck]
    /\ blind' = blind \ {p}
    /\ silent' = IF mutation.proc = p /\ mutation.step = "written" THEN mtime ELSE silent
    /\ mutation' = IF mutation.proc = p THEN NoMutation ELSE mutation
    /\ UNCHANGED <<shadow, mtime, gen>>

TokenNext ==
    \/ \E p \in Mutator, t \in Token : LockShadow(p, t)
    \/ \E g \in BOOLEAN : ReadShadow(g)
    \/ MutationFails \/ WriteShadow \/ BumpGeneration \/ BumpFails \/ UpdateCache
    \/ \E g \in {0, gen} : CacheNotTrusted(g)
    \/ \E p \in TokenProc :
        \/ CaptureGeneration(p) \/ VerifyFails(p) \/ TryInsertSecret(p) \/ InsertSkipped(p)
        \/ RefreshFails(p) \/ TokenRestart(p)
        \/ \E t \in Token : VerifyAgainstFile(p, t)
        \/ \E told \in BOOLEAN : Refresh(p, told)
    \/ \E t \in Token, edit \in EditByHand : EditShadow(t, edit)

TokenSpec == TokenInit /\ [][TokenNext]_tokenVars

-----------------------------------------------------------------------------
(* Properties *)

TokenTypeOK ==
    /\ shadow \in [Token -> Secrets] /\ mtime \in Writes /\ gen \in Gens /\ silent \in Writes
    /\ blind \subseteq TokenProc
    /\ cache \in [TokenProc -> [secrets : [Token -> Secrets], gen : Gens, info : Writes \cup {Unknown}]]
    /\ mutation \in [step : {"idle", "locked", "read", "written", "bumped"}, proc : TokenProc \cup {TokenNone},
                     token : Token \cup {TokenNone}, data : [Token -> Secrets], before : Writes,
                     bumped : Gens \cup {Unknown}]
    /\ check \in [TokenProc -> [step : {"idle", "captured", "verified"}, token : Token \cup {TokenNone},
                                secret : Secrets, before : Gens, read : Writes]]

(* "During token rotation or deletion tokens for in-flight requests may    *)
(* still validate against the previous generation" (cached_secret_valid):  *)
(* a secret that a process accepts from memory is the one in the file,     *)
(* unless its change is written and about to be announced; or the file was *)
(* changed without an announcement - by hand, or by a process that died or *)
(* could not open the shared memory - and the process has not looked at    *)
(* it since; or the process has recorded a file newer than its secrets     *)
(* (blind: see UpdateCache and Outdated for the three ways).               *)
AcceptedIsCurrent ==
    \A p \in TokenProc \ blind, t \in Token :
        Fresh(cache[p]) /\ cache[p].secrets[t] # 0
        => \/ cache[p].secrets[t] = shadow[t]
           \/ cache[p].info < silent
           \/ mutation.step = "written" /\ (mutation.token = t \/ Disturbed)
=============================================================================
