----------------------------- MODULE ConfigFiles -----------------------------
(***************************************************************************)
(* The configuration files and the API calls that change them.  A call     *)
(* takes the locks of its files one after the other, each for at most ten  *)
(* seconds, loads the files, decides, and saves one file after the other.  *)
(* Files of other calls, whose locks it does not take, are read on the     *)
(* way.  delete_datastore is a chain of such calls; the permissions it     *)
(* loads and saves without their lock.                                     *)
(*                                                                         *)
(* A file is the set of its sections, with a mark for what an update       *)
(* changes: Flip.  Each file has one section of a kind: user u with its    *)
(* token u!t, datastore d on the object store client c, sync job j with    *)
(* remote r and key k.  The digest a caller may send, permissions of the   *)
(* caller, connection tests and unreadable files are reasons for a call to *)
(* fail; job state files are in JobState.                                  *)
(***************************************************************************)
EXTENDS Integers, Sequences

CONSTANTS
    Client,    \* calls that go on at the same time
    Areas,     \* groups of files that are looked at
    ConfNone

ASSUME ConfAssumption ==
    /\ ConfNone \notin Client
    /\ Areas \subseteq {"access", "deletes", "factors", "stores", "sync", "tape", "tape_jobs", "realms", "other"}

VARIABLES
    area,       \* the group of files that this behaviour is about
    file,       \* contents of the files
    lockOf,     \* holder of each file's lock
    client,     \* what the calls are doing
    hit,        \* history: calls with a file that another saved without its lock
    stale,      \* history: files saved by, or over the head of, such a call
    partial,    \* history: files that a failed call has not saved any more
    overtaken   \* history: a use was saved while what it uses was being removed

confVars == <<area, file, lockOf, client, hit, stale, partial, overtaken>>

-----------------------------------------------------------------------------
(* Handlers.  f is what the files hold when they are loaded. *)

File == {"user", "password", "shadow", "tfa", "acl", "datastore", "sync", "prune", "verification", "remote", "keys",
         "keyfile", "s3", "tape", "pool", "tapejob", "tapekeys", "tapekeyconf", "domains", "bind",
         "traffic", "metrics"}

Save(n, from, to) == [name |-> n, from |-> from, to |-> to]
Put(f, n, X) == Save(n, f[n], f[n] \cup X)
Del(f, n, X) == Save(n, f[n], f[n] \ X)
Flip(f, n, x) == Save(n, f[n], IF x \in f[n] THEN f[n] \ {x} ELSE f[n] \cup {x})

Handler(locks, ok, saves) == [locks |-> locks, ok |-> ok, saves |-> saves, then |-> "end"]

(* The three shapes most handlers have. *)
CreateSection(f, n, X) == Handler(<<n>>, ~(X \subseteq f[n]), <<Put(f, n, X)>>)
UpdateSection(f, n, x, mark) == Handler(<<n>>, x \in f[n], <<Flip(f, n, mark)>>)
DeleteSection(f, n, x, X) == Handler(<<n>>, x \in f[n], <<Del(f, n, X)>>)

(* Users, tokens, second factors, permissions *)

CreateUser(f) == Handler(<<"user">>, "u" \notin f["user"], <<Put(f, "user", {"u"}), Put(f, "password", {"u"})>>)
AutocreateUser(f) == CreateSection(f, "user", {"u"})
(* The password it is given is ignored. *)
UpdateUser(f) == UpdateSection(f, "user", "u", "u:disabled")
DeleteUser(f) ==
    LET token == f["user"] \cap {"u!t"}
        rest == f["user"] \ {"u", "u:disabled"}
    IN  Handler(<<"user", "tfa", "acl">>, "u" \in f["user"],
            <<Save("user", f["user"], rest), Del(f, "password", {"u"}), Del(f, "tfa", {"u"}),
              Del(f, "shadow", token), Save("user", rest, rest \ token),
              Del(f, "acl", IF token = {} THEN {} ELSE {"u!t@d", "u!t@/"})>>)
GenerateToken(f) ==
    Handler(<<"user">>, "u!t" \notin f["user"], <<Put(f, "shadow", {"u!t"}), Put(f, "user", {"u!t"})>>)
UpdateToken(f) == Handler(<<"user">>, "u!t" \in f["user"], <<Put(f, "shadow", {"u!t"}), Put(f, "user", {"u!t"})>>)

(* Mutated form: the secret stays. *)
DeleteTokenKeepsSecret(f) ==
    Handler(<<"acl", "user">>, "u!t" \in f["user"], <<Del(f, "user", {"u!t"}), Del(f, "acl", {"u!t@d", "u!t@/"})>>)
DeleteToken(f) ==
    Handler(<<"acl", "user">>, "u!t" \in f["user"],
        <<Del(f, "shadow", {"u!t"}), Del(f, "user", {"u!t"}), Del(f, "acl", {"u!t@d", "u!t@/"})>>)

(* Mutated form: without the lock. *)
UpdateAclUnlocked(f, entry) == Handler(<< >>, "u!t" \in f["user"], <<Put(f, "acl", {entry})>>)
(* user.cfg is read without its lock. *)
UpdateAcl(f, entry) == Handler(<<"acl">>, "u!t" \in f["user"], <<Put(f, "acl", {entry})>>)
DeleteAcl(f, entry) == Handler(<<"acl">>, TRUE, <<Del(f, "acl", {entry})>>)

(* add_tfa_entry, update_tfa_entry; delete_tfa, unlock_tfa *)
AddTfaEntry(f) == Handler(<<"tfa">>, TRUE, <<Put(f, "tfa", {"u"})>>)
DeleteTfa(f) == Handler(<<"tfa">>, "u" \in f["tfa"], <<Del(f, "tfa", {"u"})>>)
(* A lock that cannot be taken is not missed: see ConfTimeoutIgnored. *)
UpdateWebauthnConfig(f) == Handler(<<"tfa">>, TRUE, <<Flip(f, "tfa", "webauthn")>>)

(* Datastores, and what they use *)

UsesRemote == "j:r"
UsesKey == "j:k"              \* as the active key
AssociatesKey == "j:k-old"    \* as an associated key

(* A sync job keeps k from being removed: check_encryption_key_in_use(id, true) *)
KeyUsed(jobs) == UsesKey \in jobs \/ AssociatesKey \in jobs

CreateDatastore(f) == Handler(<<"datastore">>, "d" \notin f["datastore"] /\ "c" \in f["s3"], <<Put(f, "datastore", {"d"})>>)
(* With a prune schedule, the task also makes a prune job, when it has     *)
(* given the lock back.  The refresh of a bucket that is used again is     *)
(* S3Refresh of Maintenance.                                               *)
CreateDatastorePruned(f) == [CreateDatastore(f) EXCEPT !.then = "create_store_prune"]
UpdateDatastore(f) == UpdateSection(f, "datastore", "d", "d*")

(* delete_datastore: its lock stays through the calls it makes ... *)
DeleteDatastore(f) ==
    [Handler(<<"datastore">>, "d" \in f["datastore"], << >>) EXCEPT !.then = "delete_store_verification"]
DeleteStoreVerification(f) ==
    [Handler(<<"verification">>, TRUE, <<Del(f, "verification", {"w", "w*"})>>) EXCEPT !.then = "delete_store_sync"]
DeleteStoreSync(f) ==
    [Handler(<<"sync">>, TRUE, <<Del(f, "sync", {"j", UsesRemote, UsesKey, AssociatesKey})>>) EXCEPT !.then = "delete_store_prune"]
DeleteStorePrune(f) == [Handler(<<"prune">>, TRUE, <<Del(f, "prune", {"v", "v*"})>>) EXCEPT !.then = "delete_store_acl"]
(* ... among them one without a lock; ... *)
DeleteStoreAcl(f) == [Handler(<< >>, TRUE, <<Del(f, "acl", {"u!t@d"})>>) EXCEPT !.then = "delete_store_tape"]
DeleteStoreTape(f) == [Handler(<<"tapejob">>, TRUE, <<Del(f, "tapejob", {"t", "t*"})>>) EXCEPT !.then = "destroy"]
(* ... with keep_job_configs, none of them. *)
DeleteDatastoreOnly(f) == [DeleteDatastore(f) EXCEPT !.then = "destroy"]
(* The section goes in a task that takes the lock again. *)
Destroy(f) == DeleteSection(f, "datastore", "d", {"d", "d*"})

CreateRemote(f) == CreateSection(f, "remote", {"r"})
UpdateRemote(f) == UpdateSection(f, "remote", "r", "r*")
DeleteRemote(f) == DeleteSection(f, "remote", "r", {"r", "r*"})

(* load_key_config asks for an active key that is not archived.  The key   *)
(* that was active before, the same one even, becomes an associated one.   *)
CreateSyncJob(f) == Handler(<<"sync">>, "j" \notin f["sync"], <<Put(f, "sync", {"j", UsesRemote})>>)
UpdateSyncJob(f) ==
    Handler(<<"sync">>, "j" \in f["sync"] /\ "k" \in f["keys"] /\ "k:archived" \notin f["keys"],
            <<Put(f, "sync", IF UsesKey \in f["sync"] THEN {UsesKey, AssociatesKey} ELSE {UsesKey})>>)
UpdateSyncJobOtherKey(f) ==
    Handler(<<"sync">>, UsesKey \in f["sync"], <<Save("sync", f["sync"], (f["sync"] \ {UsesKey}) \cup {AssociatesKey})>>)
(* An associated key may be archived. *)
UpdateSyncJobAssociated(f) ==
    Handler(<<"sync">>, "j" \in f["sync"] /\ "k" \in f["keys"], <<Flip(f, "sync", AssociatesKey)>>)
UpdateSyncJobRemote(f) == UpdateSection(f, "sync", "j", UsesRemote)
DeleteSyncJob(f) == DeleteSection(f, "sync", "j", {"j", UsesRemote, UsesKey, AssociatesKey})

(* Prune and verification jobs *)
CreatePruneJob(f) == CreateSection(f, "prune", {"v"})
CreateVerificationJob(f) == CreateSection(f, "verification", {"w"})
UpdatePruneJob(f) == UpdateSection(f, "prune", "v", "v*")
UpdateVerificationJob(f) == UpdateSection(f, "verification", "w", "w*")
DeletePruneJob(f) == DeleteSection(f, "prune", "v", {"v", "v*"})
DeleteVerificationJob(f) == DeleteSection(f, "verification", "w", {"w", "w*"})

CreateS3Client(f) == CreateSection(f, "s3", {"c"})
UpdateS3Client(f) == UpdateSection(f, "s3", "c", "c*")
DeleteS3Client(f) == Handler(<<"s3">>, "c" \in f["s3"] /\ "d" \notin f["datastore"], <<Del(f, "s3", {"c", "c*"})>>)

(* Keys for sync jobs: the file before the section, and after it. *)
StoreKey(f) ==
    Handler(<<"keys">>, "k" \notin f["keys"] /\ "k" \notin f["keyfile"], <<Put(f, "keyfile", {"k"}), Put(f, "keys", {"k"})>>)
ToggleKeyArchiveState(f) ==
    Handler(<<"keys">>, "k" \in f["keys"] /\ ("k:archived" \in f["keys"] \/ UsesKey \notin f["sync"]),
            <<Flip(f, "keys", "k:archived")>>)
DeleteKey(f) ==
    Handler(<<"keys">>, "k:archived" \in f["keys"] /\ ~KeyUsed(f["sync"]),
            <<Del(f, "keys", {"k", "k:archived"}), Del(f, "keyfile", {"k"})>>)

(* Tape: drives and changers are in one file. *)

CreateDrive(f) == CreateSection(f, "tape", {"drive"})
UpdateDrive(f) == Handler(<<"tape">>, "drive" \in f["tape"] /\ "changer" \in f["tape"], <<Flip(f, "tape", "drive:changer")>>)
DeleteDrive(f) == DeleteSection(f, "tape", "drive", {"drive", "drive:changer"})
CreateChanger(f) == CreateSection(f, "tape", {"changer"})
UpdateChanger(f) == UpdateSection(f, "tape", "changer", "changer*")
DeleteChanger(f) ==
    Handler(<<"tape">>, "changer" \in f["tape"] /\ "drive:changer" \notin f["tape"], <<Del(f, "tape", {"changer", "changer*"})>>)
CreatePool(f) == CreateSection(f, "pool", {"pool"})
UpdatePool(f) == UpdateSection(f, "pool", "pool", "pool*")
DeletePool(f) == DeleteSection(f, "pool", "pool", {"pool", "pool*"})
CreateTapeBackupJob(f) == CreateSection(f, "tapejob", {"t"})
UpdateTapeBackupJob(f) == UpdateSection(f, "tapejob", "t", "t*")
DeleteTapeBackupJob(f) == DeleteSection(f, "tapejob", "t", {"t", "t*"})

(* Keys for tapes: two files. *)
InsertTapeKey(f) ==
    Handler(<<"tapekeys">>, "x" \notin f["tapekeyconf"], <<Put(f, "tapekeys", {"x"}), Put(f, "tapekeyconf", {"x"})>>)
ChangePassphrase(f) == Handler(<<"tapekeys">>, "x" \in f["tapekeyconf"], <<Flip(f, "tapekeyconf", "x*")>>)
DeleteTapeKey(f) ==
    Handler(<<"tapekeys">>, "x" \in f["tapekeyconf"], <<Del(f, "tapekeyconf", {"x", "x*"}), Del(f, "tapekeys", {"x"})>>)

(* Realms, each with whether it is the default: unset_default_realm *)

HasRealm(f, x) == \E b \in BOOLEAN : <<x, b>> \in f["domains"]
SetRealm(f, x, default) ==
    Save("domains", f["domains"],
         {<<s[1], s[2] /\ ~default>> : s \in {t \in f["domains"] : t[1] # x}} \cup {<<x, default>>})
DelRealm(f, x) == Save("domains", f["domains"], {s \in f["domains"] : s[1] # x})

CreateLdapRealm(f) == Handler(<<"domains">>, ~HasRealm(f, "ldap"), <<Put(f, "bind", {"ldap"}), SetRealm(f, "ldap", TRUE)>>)
UpdateLdapRealm(f) == Handler(<<"domains">>, HasRealm(f, "ldap"), <<Flip(f, "bind", "ldap"), SetRealm(f, "ldap", TRUE)>>)
DeleteLdapRealm(f) == Handler(<<"domains">>, HasRealm(f, "ldap"), <<DelRealm(f, "ldap"), Del(f, "bind", {"ldap"})>>)
CreateAdRealm(f) == Handler(<<"domains">>, ~HasRealm(f, "ad"), <<Put(f, "bind", {"ad"}), SetRealm(f, "ad", FALSE)>>)
UpdateAdRealm(f) == Handler(<<"domains">>, HasRealm(f, "ad"), <<Flip(f, "bind", "ad"), SetRealm(f, "ad", TRUE)>>)
CreateOpenidRealm(f) == Handler(<<"domains">>, ~HasRealm(f, "openid"), <<SetRealm(f, "openid", FALSE)>>)
UpdateOpenidRealm(f) == Handler(<<"domains">>, HasRealm(f, "openid"), <<SetRealm(f, "openid", TRUE)>>)
DeleteOpenidRealm(f) == Handler(<<"domains">>, HasRealm(f, "openid"), <<DelRealm(f, "openid")>>)
UpdatePamRealm(f) == Handler(<<"domains">>, TRUE, <<SetRealm(f, "pam", TRUE)>>)
UpdatePbsRealm(f) == Handler(<<"domains">>, TRUE, <<SetRealm(f, "pbs", TRUE)>>)

CreateTrafficControl(f) == CreateSection(f, "traffic", {"rule"})
UpdateTrafficControl(f) == UpdateSection(f, "traffic", "rule", "rule*")
DeleteTrafficControl(f) == DeleteSection(f, "traffic", "rule", {"rule", "rule*"})
CreateInfluxdbHttp(f) == CreateSection(f, "metrics", {"http"})
UpdateInfluxdbHttp(f) == UpdateSection(f, "metrics", "http", "http*")
DeleteInfluxdbHttp(f) == DeleteSection(f, "metrics", "http", {"http", "http*"})
CreateInfluxdbUdp(f) == CreateSection(f, "metrics", {"udp"})
UpdateInfluxdbUdp(f) == UpdateSection(f, "metrics", "udp", "udp*")
DeleteInfluxdbUdp(f) == DeleteSection(f, "metrics", "udp", {"udp", "udp*"})

-----------------------------------------------------------------------------

Ops(a) ==
    CASE a = "access" ->
            {"autocreate_user", "delete_user", "generate_token", "update_token", "delete_token",
             "update_acl", "update_acl_root", "delete_acl", "delete_datastore"}
      [] a = "deletes" ->
            {"autocreate_user", "generate_token", "delete_user", "delete_token"}
      [] a = "factors" ->
            {"create_user", "update_user", "delete_user", "add_tfa_entry", "delete_tfa",
             "update_webauthn_config"}
      [] a = "stores" ->
            {"create_datastore", "create_datastore_pruned", "update_datastore", "delete_datastore", "delete_datastore_only",
             "create_s3_client", "update_s3_client", "delete_s3_client",
             "create_prune_job", "update_prune_job", "delete_prune_job",
             "create_verification_job", "update_verification_job",
             "delete_verification_job"}
      [] a = "sync" ->
            {"create_remote", "update_remote", "delete_remote", "create_sync_job",
             "update_sync_job", "update_sync_job_other_key", "update_sync_job_associated",
             "update_sync_job_remote", "delete_sync_job",
             "store_key", "toggle_key_archive_state", "delete_key"}
      [] a = "tape" ->
            {"create_drive", "update_drive", "delete_drive", "create_changer",
             "update_changer", "delete_changer", "create_pool", "update_pool",
             "delete_pool"}
      [] a = "tape_jobs" ->
            {"create_tape_backup_job", "update_tape_backup_job", "delete_tape_backup_job",
             "insert_tape_key", "change_passphrase", "delete_tape_key"}
      [] a = "realms" ->
            {"create_ldap_realm", "update_ldap_realm", "delete_ldap_realm",
             "create_ad_realm", "update_ad_realm", "create_openid_realm",
             "update_openid_realm", "delete_openid_realm", "update_pam_realm",
             "update_pbs_realm"}
      [] a = "other" ->
            {"create_traffic_control", "update_traffic_control",
             "delete_traffic_control", "create_influxdb_http", "update_influxdb_http",
             "delete_influxdb_http", "create_influxdb_udp", "update_influxdb_udp",
             "delete_influxdb_udp"}

HandlerOf(op, f) ==
    CASE op = "create_user" -> CreateUser(f)
      [] op = "autocreate_user" -> AutocreateUser(f)
      [] op = "update_user" -> UpdateUser(f)
      [] op = "delete_user" -> DeleteUser(f)
      [] op = "generate_token" -> GenerateToken(f)
      [] op = "update_token" -> UpdateToken(f)
      [] op = "delete_token" -> DeleteToken(f)
      [] op = "update_acl" -> UpdateAcl(f, "u!t@d")
      [] op = "update_acl_root" -> UpdateAcl(f, "u!t@/")
      [] op = "delete_acl" -> DeleteAcl(f, "u!t@/")
      [] op = "delete_datastore" -> DeleteDatastore(f)
      [] op = "add_tfa_entry" -> AddTfaEntry(f)
      [] op = "delete_tfa" -> DeleteTfa(f)
      [] op = "update_webauthn_config" -> UpdateWebauthnConfig(f)
      [] op = "create_datastore" -> CreateDatastore(f)
      [] op = "create_datastore_pruned" -> CreateDatastorePruned(f)
      [] op = "create_store_prune" -> CreatePruneJob(f)
      [] op = "update_datastore" -> UpdateDatastore(f)
      [] op = "create_s3_client" -> CreateS3Client(f)
      [] op = "update_s3_client" -> UpdateS3Client(f)
      [] op = "delete_s3_client" -> DeleteS3Client(f)
      [] op = "create_prune_job" -> CreatePruneJob(f)
      [] op = "update_prune_job" -> UpdatePruneJob(f)
      [] op = "delete_prune_job" -> DeletePruneJob(f)
      [] op = "create_verification_job" -> CreateVerificationJob(f)
      [] op = "update_verification_job" -> UpdateVerificationJob(f)
      [] op = "delete_verification_job" -> DeleteVerificationJob(f)
      [] op = "create_remote" -> CreateRemote(f)
      [] op = "update_remote" -> UpdateRemote(f)
      [] op = "delete_remote" -> DeleteRemote(f)
      [] op = "create_sync_job" -> CreateSyncJob(f)
      [] op = "update_sync_job" -> UpdateSyncJob(f)
      [] op = "update_sync_job_other_key" -> UpdateSyncJobOtherKey(f)
      [] op = "update_sync_job_associated" -> UpdateSyncJobAssociated(f)
      [] op = "update_sync_job_remote" -> UpdateSyncJobRemote(f)
      [] op = "delete_sync_job" -> DeleteSyncJob(f)
      [] op = "store_key" -> StoreKey(f)
      [] op = "toggle_key_archive_state" -> ToggleKeyArchiveState(f)
      [] op = "delete_key" -> DeleteKey(f)
      [] op = "create_drive" -> CreateDrive(f)
      [] op = "update_drive" -> UpdateDrive(f)
      [] op = "delete_drive" -> DeleteDrive(f)
      [] op = "create_changer" -> CreateChanger(f)
      [] op = "update_changer" -> UpdateChanger(f)
      [] op = "delete_changer" -> DeleteChanger(f)
      [] op = "create_pool" -> CreatePool(f)
      [] op = "update_pool" -> UpdatePool(f)
      [] op = "delete_pool" -> DeletePool(f)
      [] op = "create_tape_backup_job" -> CreateTapeBackupJob(f)
      [] op = "update_tape_backup_job" -> UpdateTapeBackupJob(f)
      [] op = "delete_tape_backup_job" -> DeleteTapeBackupJob(f)
      [] op = "insert_tape_key" -> InsertTapeKey(f)
      [] op = "change_passphrase" -> ChangePassphrase(f)
      [] op = "delete_tape_key" -> DeleteTapeKey(f)
      [] op = "create_ldap_realm" -> CreateLdapRealm(f)
      [] op = "update_ldap_realm" -> UpdateLdapRealm(f)
      [] op = "delete_ldap_realm" -> DeleteLdapRealm(f)
      [] op = "create_ad_realm" -> CreateAdRealm(f)
      [] op = "update_ad_realm" -> UpdateAdRealm(f)
      [] op = "create_openid_realm" -> CreateOpenidRealm(f)
      [] op = "update_openid_realm" -> UpdateOpenidRealm(f)
      [] op = "delete_openid_realm" -> DeleteOpenidRealm(f)
      [] op = "update_pam_realm" -> UpdatePamRealm(f)
      [] op = "update_pbs_realm" -> UpdatePbsRealm(f)
      [] op = "create_traffic_control" -> CreateTrafficControl(f)
      [] op = "update_traffic_control" -> UpdateTrafficControl(f)
      [] op = "delete_traffic_control" -> DeleteTrafficControl(f)
      [] op = "create_influxdb_http" -> CreateInfluxdbHttp(f)
      [] op = "update_influxdb_http" -> UpdateInfluxdbHttp(f)
      [] op = "delete_influxdb_http" -> DeleteInfluxdbHttp(f)
      [] op = "create_influxdb_udp" -> CreateInfluxdbUdp(f)
      [] op = "update_influxdb_udp" -> UpdateInfluxdbUdp(f)
      [] op = "delete_influxdb_udp" -> DeleteInfluxdbUdp(f)
      [] op = "delete_datastore_only" -> DeleteDatastoreOnly(f)
      [] op = "delete_store_verification" -> DeleteStoreVerification(f)
      [] op = "delete_store_sync" -> DeleteStoreSync(f)
      [] op = "delete_store_prune" -> DeleteStorePrune(f)
      [] op = "delete_store_acl" -> DeleteStoreAcl(f)
      [] op = "delete_store_tape" -> DeleteStoreTape(f)
      [] op = "destroy" -> Destroy(f)

(* The lock under which a file is saved. *)
Guard(n) ==
    CASE n \in {"shadow", "password"} -> "user"
      [] n = "keyfile" -> "keys"
      [] n = "bind" -> "domains"
      [] n = "tapekeyconf" -> "tapekeys"
      [] OTHER -> n

-----------------------------------------------------------------------------
(* Calls *)

NoRequest == [op |-> "none", step |-> "idle", want |-> << >>, held |-> {}, saves |-> << >>]
Request(op, f, held) == [op |-> op, step |-> "lock", want |-> HandlerOf(op, f).locks, held |-> held, saves |-> << >>]

Empty == [n \in File |-> {}]
ConfInit ==
    /\ area \in Areas
    /\ file = [Empty EXCEPT !["datastore"] = IF area = "access" THEN {"d"} ELSE {}]
    /\ lockOf = [n \in File |-> ConfNone]
    /\ client = [p \in Client |-> NoRequest]
    /\ hit = {} /\ stale = {} /\ partial = {} /\ overtaken = FALSE

(* delete_remote looks for sync jobs before it takes its lock. *)
(* Mutated form: it does not. *)
MayBeginAlways(op) == TRUE
MayBegin(op) == op = "delete_remote" => UsesRemote \notin file["sync"]

ConfBegin(p, op) ==
    /\ client[p] = NoRequest
    /\ MayBegin(op)
    /\ client' = [client EXCEPT ![p] = Request(op, file, {})]
    /\ UNCHANGED <<area, file, lockOf, hit, stale, partial, overtaken>>

(* open_backup_lockfile *)
ConfLock(p) ==
    LET n == Head(client[p].want) IN
    /\ client[p].want # << >> /\ lockOf[n] = ConfNone
    /\ lockOf' = [lockOf EXCEPT ![n] = p]
    /\ client' = [client EXCEPT ![p] = [@ EXCEPT !.want = Tail(client[p].want), !.held = client[p].held \cup {n}]]
    /\ UNCHANGED <<area, file, hit, stale, partial, overtaken>>

(* The call goes on with the locks in keep, or has ended. *)
Continue(p, req, keep) ==
    /\ client' = [client EXCEPT ![p] = req]
    /\ lockOf' = [n \in File |-> IF lockOf[n] = p /\ n \notin keep THEN ConfNone ELSE lockOf[n]]

EndCall(p) == Continue(p, NoRequest, {})

Blocked(p) == client[p].want # << >> /\ lockOf[Head(client[p].want)] # ConfNone

(* Ten seconds have passed. *)
ConfTimeout(p) ==
    /\ Blocked(p) /\ client[p].op # "update_webauthn_config"
    /\ EndCall(p)
    /\ UNCHANGED <<area, file, hit, stale, partial, overtaken>>

(* update_webauthn_config: "let _lock = tfa::write_lock();" *)
ConfTimeoutIgnored(p) ==
    /\ Blocked(p) /\ client[p].op = "update_webauthn_config"
    /\ client' = [client EXCEPT ![p].want = Tail(@)]
    /\ UNCHANGED <<area, file, lockOf, hit, stale, partial, overtaken>>

(* What follows the last save of a handler: a task starts without its locks. *)
LaterTask == {"destroy", "create_store_prune"}
Finish(p, then) ==
    CASE then = "end" -> EndCall(p)
      [] then \in LaterTask -> Continue(p, Request(then, file, {}), {})
      [] OTHER -> Continue(p, Request(then, file, {"datastore"}), {"datastore"})

ConfLoad(p) ==
    LET h == HandlerOf(client[p].op, file) IN
    /\ client[p].step = "lock" /\ client[p].want = << >>
    /\ IF ~h.ok THEN EndCall(p)
       ELSE IF h.saves = << >> THEN Finish(p, h.then)
       ELSE /\ client' = [client EXCEPT ![p] = [@ EXCEPT !.step = "save", !.saves = h.saves]]
            /\ UNCHANGED lockOf
    /\ UNCHANGED <<area, file, hit, stale, partial, overtaken>>

Pending(p, n) == \E i \in DOMAIN client[p].saves : client[p].saves[i].name = n

Removing(op) == \E q \in Client : client[q].op = op

(* A use is saved of what a call in progress removes. *)
UseAdded(s) ==
    LET Adds(n, x) == s.name = n /\ x \in s.to \ file[n] IN
    \/ Adds("sync", UsesRemote) /\ Removing("delete_remote")
    \/ s.name = "sync" /\ KeyUsed(s.to) /\ ~KeyUsed(file["sync"]) /\ Removing("delete_key")
    \/ Adds("datastore", "d") /\ Removing("delete_s3_client")

ConfSave(p) ==
    LET s == Head(client[p].saves)
        op == client[p].op
    IN  /\ client[p].step \in {"save", "saving"}
        /\ file' = [file EXCEPT ![s.name] = s.to]
        /\ IF Len(client[p].saves) = 1 THEN Finish(p, HandlerOf(op, file).then)
           ELSE /\ client' = [client EXCEPT ![p] = [@ EXCEPT !.step = "saving", !.saves = Tail(client[p].saves)]]
                /\ UNCHANGED lockOf
        /\ hit' = IF lockOf[Guard(s.name)] = p THEN hit
                  ELSE hit \cup {q \in Client \ {p} : Pending(q, s.name)}
        /\ stale' = IF s.from = file[s.name] THEN stale ELSE stale \cup {s.name}
        /\ overtaken' = (overtaken \/ UseAdded(s))
        /\ UNCHANGED <<area, partial>>

(* The call fails, or the daemon dies: what is saved stays.  One call at    *)
(* most fails between two files.                                            *)
ConfFail(p) ==
    /\ client[p] # NoRequest
    /\ client[p].step = "saving" => partial = {}
    /\ EndCall(p)
    /\ partial' = IF client[p].step = "saving" THEN partial \cup {n \in File : Pending(p, n)} ELSE partial
    /\ UNCHANGED <<area, file, hit, stale, overtaken>>

(* store_key: the section cannot be saved, the key file is removed. *)
StoreKeyUndone(p) ==
    /\ client[p].op = "store_key" /\ client[p].step = "saving"
    /\ file' = [file EXCEPT !["keyfile"] = {}]
    /\ EndCall(p)
    /\ UNCHANGED <<area, hit, stale, partial, overtaken>>

(* A call that has ended is forgotten. *)
ConfForget(p) ==
    /\ client[p] = NoRequest /\ p \in hit
    /\ hit' = hit \ {p}
    /\ UNCHANGED <<area, file, lockOf, client, stale, partial, overtaken>>

ConfStep(p) ==
    \/ ConfLock(p) \/ ConfTimeout(p) \/ ConfTimeoutIgnored(p) \/ ConfLoad(p) \/ ConfSave(p)

ConfNext ==
    \E p \in Client :
        \/ \E op \in Ops(area) : p \notin hit /\ ConfBegin(p, op)
        \/ ConfStep(p) \/ ConfFail(p) \/ StoreKeyUndone(p) \/ ConfForget(p)

(* Calls go on by themselves, and give up waiting. *)
ConfSpec == ConfInit /\ [][ConfNext]_confVars
ConfFairSpec == ConfSpec /\ \A p \in Client : WF_confVars(ConfStep(p))

-----------------------------------------------------------------------------
(* Properties *)

ConfTypeOK ==
    /\ area \in Areas /\ overtaken \in BOOLEAN
    /\ DOMAIN file = File /\ stale \subseteq File /\ partial \subseteq File /\ hit \subseteq Client
    /\ lockOf \in [File -> Client \cup {ConfNone}]
    /\ \A p \in Client : client[p].step \in {"idle", "lock", "save", "saving"} /\ client[p].held \subseteq File

Careless == {"delete_store_acl", "update_webauthn_config"}

(* No call saves a file that has changed since the call has loaded it: no  *)
(* update is lost, except to delete_datastore and update_webauthn_config,  *)
(* which save without a lock, and to calls that are hit by those.          *)
NothingLost ==
    \A p \in Client \ hit :
        client[p].op \notin Careless =>
            \A i \in DOMAIN client[p].saves :
                LET s == client[p].saves[i] IN
                (\A k \in 1 .. i - 1 : client[p].saves[k].name # s.name) => s.from = file[s.name]

(* A token that is generated again under an old name starts without        *)
(* permissions: an entry for a token that is not in user.cfg is about to   *)
(* be removed, unless a call failed between its files or the entries were  *)
(* saved without the lock.                                                 *)
AclTokenKnown ==
    "acl" \notin stale \cup partial /\ "u!t" \notin file["user"] =>
        \/ file["acl"] = {}
        \/ \E p \in Client : lockOf["acl"] = p /\ Pending(p, "acl")

(* A secret in token.shadow belongs to a token in user.cfg, or to one that *)
(* is just being generated.                                                *)
SecretKnown ==
    "user" \notin partial /\ "u!t" \in file["shadow"] =>
        "u!t" \in file["user"] \/ \E p \in Client : Pending(p, "user")

(* Whoever sees a key in the configuration finds the key itself: in        *)
(* whatever order calls fail, store_key and insert_key write the key       *)
(* first, the delete calls remove it last.                                 *)
KeysBacked ==
    /\ "k" \in file["keys"] => "k" \in file["keyfile"]
    /\ "x" \in file["tapekeyconf"] => "x" \in file["tapekeys"]

(* At most one realm is the default. *)
OneDefault == \A s, t \in file["domains"] : s[2] /\ t[2] => s = t

(* What several files say about one thing fits together after every step. *)
ConfigConsistent == ConfTypeOK /\ AclTokenKnown /\ SecretKnown /\ KeysBacked /\ OneDefault

(* "remote is used by sync job", "in-use by datastore", "encryption key in *)
(* use by sync job", "used by drive": nothing is removed under its users,  *)
(* unless one was saved after the removing call had looked.                *)
RemovedUnused ==
    [][LET Removed(n, x) == x \in file[n] /\ x \notin file'[n] IN
       /\ Removed("remote", "r") => UsesRemote \notin file["sync"] \/ overtaken
       /\ Removed("keys", "k") => ~KeyUsed(file["sync"]) \/ overtaken
       /\ Removed("s3", "c") => "d" \notin file["datastore"] \/ overtaken
       /\ Removed("tape", "changer") => "drive:changer" \notin file["tape"]]_confVars

(* delete_user takes the lock of user.cfg before that of acl.cfg,          *)
(* delete_token the other way round: both end nevertheless.                *)
CallsEnd == \A p \in Client : client[p] # NoRequest ~> client[p] = NoRequest
=============================================================================
