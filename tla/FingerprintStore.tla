-------------------------- MODULE FingerprintStore --------------------------
(***************************************************************************)
(* The template database of the fingerprint HAL.  The prints of the active *)
(* group (a user) are in the TrustZone application; user.db in the group's *)
(* directory keeps them over restarts.  Binder calls change the group,     *)
(* remove prints and ask for the authenticator id, the worker enrolls and  *)
(* authenticates; both store the database, through a temporary file and a  *)
(* rename, and no lock is held between the two.  Commands to TrustZone may *)
(* fail, and the service may die between any two steps.                    *)
(***************************************************************************)
EXTENDS Integers

CONSTANTS
  Groups,     \* the users, each with a directory of its own
  Prints,     \* the prints they enroll
  None,       \* no group, no file, no cached id
  Torn        \* a file whose writing was cut short

ASSUME NoneAssumption == None \notin Groups /\ \A d \in SUBSET Prints : d # None
ASSUME TornAssumption == Torn # None /\ \A d \in SUBSET Prints : d # Torn

Databases == SUBSET Prints
Files     == {None, Torn} \cup Databases
Threads   == {"binder", "worker"}

VARIABLES
  tz,         \* the prints the TrustZone application holds
  file, tmp,  \* user.db and user.db.tmp of every group
  db_path,    \* sdev->db_path, by its group
  auth_id,    \* the cached authenticator id, by the database it belongs to
  at,         \* what each thread does next
  temp_path,  \* whose temporary file it stored
  creating,   \* created_empty_db of __setActiveGroup
  answer,     \* the id TrustZone has given the binder thread
  owner,      \* history: the group a print was enrolled for
  unsaved,    \* history: a store has failed since file and TrustZone agreed
  mishaps     \* history: what has gone wrong, of Mishaps

threadVars == <<at, temp_path, creating, answer>>
storeVars  == <<tz, file, tmp, db_path, auth_id, threadVars, owner, unsaved, mishaps>>

(* mixed: a database could not be loaded and TrustZone keeps the one before,*)
(* or the group was changed during an operation of the worker;              *)
(* stores: both threads stored at once; cached: the group was changed while *)
(* an id was cached; asked: a print was enrolled while the id was asked for.*)
Mishaps == {"mixed", "stores", "cached", "asked"}
OfTheId == {"cached", "asked"}

StoreInit ==
  /\ tz = {} /\ db_path = None /\ auth_id = None
  /\ file = [g \in Groups |-> None] /\ tmp = [g \in Groups |-> None]
  /\ at = [t \in Threads |-> "idle"] /\ temp_path = [t \in Threads |-> None]
  /\ creating = FALSE /\ answer = None
  /\ owner = [p \in Prints |-> None] /\ unsaved = FALSE /\ mishaps = {}

Other(t)      == IF t = "binder" THEN "worker" ELSE "binder"
Goto(t, step) == at' = [at EXCEPT ![t] = step]
Busy          == at["worker"] # "idle"              \* an operation was asked for
---------------------------------------------------------------------------
(* fpc_store_user_db: TrustZone writes the temporary file.  The binder goes *)
(* on to load what it stored for a new group; every other caller is done.   *)
(* A store that fails may leave a temporary file cut short behind, and a    *)
(* rename that fails leaves it where it is: nothing ever removes one.       *)
AfterStore(t) == IF t = "binder" /\ creating THEN "reload" ELSE "idle"

MayTear == tmp' \in {tmp, [tmp EXCEPT ![db_path] = Torn]}

StoreUnnamed(t) ==                        \* mutant: the path is not noted
  /\ at[t] = "store" /\ Goto(t, "rename")
  /\ tmp' = [tmp EXCEPT ![db_path] = tz]
  /\ UNCHANGED <<tz, file, db_path, auth_id, temp_path, creating, answer, owner,
                 unsaved, mishaps>>

StoreUnchecked(t) ==                      \* mutant: renamed also after a failure
  /\ at[t] = "store" /\ Goto(t, "rename")
  /\ \/ tmp' = [tmp EXCEPT ![db_path] = tz] /\ UNCHANGED unsaved
     \/ MayTear /\ unsaved' = TRUE
  /\ temp_path' = [temp_path EXCEPT ![t] = db_path]
  /\ mishaps' = mishaps \cup (IF at[Other(t)] = "rename" THEN {"stores"} ELSE {})
  /\ UNCHANGED <<tz, file, db_path, auth_id, creating, answer, owner>>

Store(t) ==
  /\ at[t] = "store"
  /\ \/ /\ tmp' = [tmp EXCEPT ![db_path] = tz]
        /\ temp_path' = [temp_path EXCEPT ![t] = db_path]
        /\ Goto(t, "rename") /\ UNCHANGED unsaved
     \/ /\ MayTear
        /\ Goto(t, AfterStore(t)) /\ unsaved' = TRUE
        /\ UNCHANGED temp_path
  /\ mishaps' = mishaps \cup (IF at[Other(t)] = "rename" THEN {"stores"} ELSE {})
  /\ UNCHANGED <<tz, file, db_path, auth_id, creating, answer, owner>>

(* The temporary file replaces the database of the path as it is now; the   *)
(* other thread may have renamed that file already.                         *)
Rename(t) ==
  /\ at[t] = "rename"
  /\ Goto(t, AfterStore(t))
  /\ LET stored == tmp[temp_path[t]] IN
       \/ stored = None /\ UNCHANGED <<file, tmp, unsaved>>
       \/ /\ stored # None
          /\ \/ /\ file' = [file EXCEPT ![db_path] = stored]
                /\ tmp' = [tmp EXCEPT ![temp_path[t]] = None]
                /\ unsaved' = (unsaved /\ stored # tz)
             \/ unsaved' = TRUE /\ UNCHANGED <<file, tmp>>
  /\ temp_path' = [temp_path EXCEPT ![t] = None]
  /\ UNCHANGED <<tz, db_path, auth_id, creating, answer, owner, mishaps>>
---------------------------------------------------------------------------
(* setActiveGroup: the path changes first, whatever becomes of the rest.    *)
SetActiveGroup(g) ==
  /\ at["binder"] = "idle"
  /\ db_path' = g /\ Goto("binder", "load")
  /\ mishaps' = mishaps \cup (IF Busy THEN {"mixed"} ELSE {})
  /\ UNCHANGED <<tz, file, tmp, auth_id, temp_path, creating, answer, owner, unsaved>>

(* TrustZone takes a database, or fails and keeps the one it has.           *)
Holds(d) == /\ tz' = d /\ unsaved' = FALSE
            /\ mishaps' = mishaps \cup (IF auth_id = None THEN {} ELSE {"cached"})

LoadFails == /\ Goto("binder", "idle") /\ mishaps' = mishaps \cup {"mixed"}
             /\ UNCHANGED <<tz, unsaved>>

LoadEmptyUnloaded ==                      \* mutant: the old prints stay loaded
  /\ at["binder"] = "load"
  /\ creating' = (file[db_path] = None)
  /\ \/ file[db_path] = None /\ Goto("binder", "store") /\ UNCHANGED <<tz, unsaved, mishaps>>
     \/ file[db_path] \notin {None, Torn} /\ Holds(file[db_path]) /\ Goto("binder", "idle")
  /\ UNCHANGED <<file, tmp, db_path, auth_id, temp_path, answer, owner>>

Load ==
  /\ at["binder"] = "load"
  /\ \/ file[db_path] = None /\ Holds({}) /\ Goto("binder", "store") /\ creating' = TRUE
     \/ /\ file[db_path] \notin {None, Torn} /\ Holds(file[db_path])
        /\ Goto("binder", "idle") /\ UNCHANGED creating
     \/ LoadFails /\ UNCHANGED creating
  /\ UNCHANGED <<file, tmp, db_path, auth_id, temp_path, answer, owner>>

(* An empty database that was made just now is loaded again from its file.  *)
Reload ==
  /\ at["binder"] = "reload"
  /\ \/ file[db_path] \notin {None, Torn} /\ Holds(file[db_path]) /\ Goto("binder", "idle")
     \/ LoadFails
  /\ creating' = FALSE
  /\ UNCHANGED <<file, tmp, db_path, auth_id, temp_path, answer, owner>>

(* remove: the database is stored only if TrustZone has deleted the print;  *)
(* the cached id goes in either case, unless the command was not sent.      *)
remove(p) ==
  /\ at["binder"] = "idle"
  /\ \/ p \in tz /\ tz' = tz \ {p} /\ Goto("binder", "forget")
     \/ UNCHANGED tz /\ Goto("binder", "forgetOnly")
     \/ UNCHANGED tz /\ UNCHANGED at
  /\ UNCHANGED <<file, tmp, db_path, auth_id, temp_path, creating, answer, owner,
                 unsaved, mishaps>>

Reset == /\ auth_id' = None
         /\ mishaps' = mishaps \ (IF at["binder"] = "cache" THEN {} ELSE OfTheId)

ForgetUnstored ==                         \* mutant: the rest is not stored
  /\ at["binder"] \in {"forget", "forgetOnly"}
  /\ Reset /\ Goto("binder", "idle")
  /\ UNCHANGED <<tz, file, tmp, db_path, temp_path, creating, answer, owner, unsaved>>

Forget ==
  /\ at["binder"] \in {"forget", "forgetOnly"}
  /\ Reset
  /\ Goto("binder", IF at["binder"] = "forget" THEN "store" ELSE "idle")
  /\ UNCHANGED <<tz, file, tmp, db_path, temp_path, creating, answer, owner, unsaved>>

(* getAuthenticatorId: only without a cached id TrustZone is asked.         *)
AskId ==
  /\ at["binder"] = "idle" /\ auth_id = None
  /\ answer' = tz /\ Goto("binder", "cache")
  /\ UNCHANGED <<tz, file, tmp, db_path, auth_id, temp_path, creating, owner, unsaved, mishaps>>

CacheId ==
  /\ at["binder"] = "cache"
  /\ auth_id' = answer /\ answer' = None /\ Goto("binder", "idle")
  /\ UNCHANGED <<tz, file, tmp, db_path, temp_path, creating, owner, unsaved, mishaps>>
---------------------------------------------------------------------------
(* enroll or authenticate: the worker's operation counts from the call on.  *)
StartOperation ==
  /\ at["binder"] = "idle" /\ at["worker"] = "idle" /\ db_path # None
  /\ Goto("worker", "operating")
  /\ UNCHANGED <<tz, file, tmp, db_path, auth_id, temp_path, creating, answer, owner,
                 unsaved, mishaps>>

(* fpc_enroll_end: TrustZone adds the new print to what it holds.           *)
EnrollEnd(p) ==
  /\ at["worker"] = "operating" /\ owner[p] = None
  /\ tz' = tz \cup {p} /\ owner' = [owner EXCEPT ![p] = db_path]
  /\ Goto("worker", "forget")
  /\ mishaps' = mishaps \cup (IF at["binder"] = "cache" THEN {"asked"} ELSE {})
  /\ UNCHANGED <<file, tmp, db_path, auth_id, temp_path, creating, answer, unsaved>>

ForgetNothing ==                          \* mutant: the cached id is kept
  /\ at["worker"] = "forget" /\ Goto("worker", "store")
  /\ UNCHANGED <<tz, file, tmp, db_path, auth_id, temp_path, creating, answer, owner,
                 unsaved, mishaps>>

ForgetId ==
  /\ at["worker"] = "forget"
  /\ Reset /\ Goto("worker", "store")
  /\ UNCHANGED <<tz, file, tmp, db_path, temp_path, creating, answer, owner, unsaved>>

(* An operation ends without an enrolled print: a print was identified and  *)
(* the database is stored, or it failed or was cancelled.                   *)
OperationEnds ==
  /\ at["worker"] = "operating"
  /\ \/ tz # {} /\ Goto("worker", "store")
     \/ Goto("worker", "idle")
  /\ UNCHANGED <<tz, file, tmp, db_path, auth_id, temp_path, creating, answer, owner,
                 unsaved, mishaps>>

(* The service dies, and the application it loaded with it, also while a    *)
(* temporary file is being written; a new process has no group yet, and     *)
(* finds the files as they are.                                             *)
Crash ==
  /\ tz' = {} /\ db_path' = None /\ auth_id' = None
  /\ at' = [t \in Threads |-> "idle"] /\ temp_path' = [t \in Threads |-> None]
  /\ creating' = FALSE /\ answer' = None
  /\ unsaved' = FALSE /\ mishaps' = mishaps \ OfTheId
  /\ IF \E t \in Threads : at[t] = "store" THEN MayTear ELSE UNCHANGED tmp
  /\ UNCHANGED <<file, owner>>

StoreNext ==
  \/ \E t \in Threads : Store(t) \/ Rename(t)
  \/ \E g \in Groups : SetActiveGroup(g)
  \/ Load \/ Reload \/ Forget \/ AskId \/ CacheId
  \/ \E p \in Prints : remove(p) \/ EnrollEnd(p)
  \/ StartOperation \/ ForgetId \/ OperationEnds \/ Crash

StoreSpec == StoreInit /\ [][StoreNext]_storeVars
---------------------------------------------------------------------------
(* Type correctness: what a thread is about to do has the paths it needs.   *)
StoreTypeOK ==
  /\ tz \in Databases
  /\ file \in [Groups -> Files] /\ tmp \in [Groups -> Files]
  /\ db_path \in {None} \cup Groups
  /\ auth_id \in {None} \cup Databases /\ answer \in {None} \cup Databases
  /\ at \in [Threads -> {"idle", "load", "store", "rename", "reload", "forget",
                         "forgetOnly", "cache", "operating"}]
  /\ temp_path \in [Threads -> {None} \cup Groups]
  /\ \A t \in Threads : /\ at[t] = "rename" => temp_path[t] \in Groups
                        /\ at[t] \notin {"idle", "cache", "forgetOnly"} => db_path \in Groups
  /\ creating \in BOOLEAN
  /\ owner \in [Prints -> Groups \cup {None}]
  /\ unsaved \in BOOLEAN /\ mishaps \subseteq Mishaps

(* A user's database holds that user's prints only, over changes of the     *)
(* group, crashes and stores that fail, as long as every database could be  *)
(* loaded and the group was never changed during an operation: then a store *)
(* can put the prints of one user into the file of another.                 *)
OwnPrints == "mixed" \notin mishaps =>
               \A g \in Groups : file[g] \notin {None, Torn} =>
                 \A p \in file[g] : owner[p] = g

(* Once both threads are done, a crash loses nothing: the file holds what   *)
(* TrustZone holds, also when both threads have stored at once and one has  *)
(* renamed the other's temporary file, unless a store itself failed.        *)
Saved ==
  (/\ \A t \in Threads : at[t] = "idle"
   /\ db_path # None /\ ~unsaved
   /\ "mixed" \notin mishaps) => file[db_path] = tz

(* The database is replaced as a whole: a crash while it is written, or a   *)
(* store that fails, cuts short the temporary file only, and that one never *)
(* becomes the database, also not after a restart, when it is still there.  *)
(* Excepted is a history in which both threads have stored at once: then    *)
(* one may rename what the other's failed store has left.                   *)
NeverTorn == "stores" \notin mishaps => \A g \in Groups : file[g] # Torn

(* "remove the cached auth_id value upon enrolling (deleting) a             *)
(* fingerprint": a cached authenticator id is that of the prints TrustZone  *)
(* holds, unless the group was changed, which keeps the cached id, or a     *)
(* print was enrolled while the id was on its way.                          *)
AuthIdFresh ==
  (/\ \A t \in Threads : at[t] = "idle"
   /\ auth_id # None /\ mishaps \cap OfTheId = {}) => auth_id = tz
=============================================================================
