------------------------------ MODULE CBinding ------------------------------
(* leveldb, db/c.cc: the functions of leveldb/c.h, for programs in C.  The     *)
(* client gets handles, which it destroys, strings of malloc(), which it frees *)
(* with leveldb_free, and errors through errptr.  It keeps to the conventions  *)
(* of c.h: no null pointers, and a handle is not used after it was destroyed.  *)
(* The database behind the handles is external: a map that may answer with an  *)
(* error instead.                                                              *)
EXTENDS Naturals, Sequences

CONSTANTS Keys,       \* positive numbers
          Values,
          None,       \* no handle, no string, no entry
          Errors,     \* statuses other than OK and NotFound
          Fields,     \* the options that the client sets
          Handles,    \* the handles of objects that it makes
          Batches,    \* its batches
          MaxStrings, \* bound: strings of malloc() at a time
          MaxBatch,   \* bound: entries of a batch
          MaxFilters, \* bound: filters made
          MaxOpen     \* bound: iterators and snapshots

NULL == 0
OK == "ok"
NotFound == "not found"
End == 0              \* the place of an iterator that is not valid

VARIABLES heap,       \* malloc(): string -> contents, None if free
          errptr,     \* the client's error
          given,      \* the string the client was given, NULL if none
          last,       \* history: the status of the last call, errptr before it, what was asked
          disk,       \* external: the database in the file system, None if there is none
          db,         \* leveldb_t: whether the client has one
          snapshot,   \* leveldb_snapshot_t
          readoptions,\* the snapshot of leveldb_readoptions_t, or nullptr
          iterator,   \* leveldb_iterator_t
          batch,      \* leveldb_writebatch_t, two of them
          asked,      \* history: what the client put into a batch since it was cleared
          replayed,   \* history: calls of put_ and deleted_ in the last leveldb_writebatch_iterate
          options,    \* leveldb_options_t
          handle,     \* handles of comparators, policies, caches and environments
          reps,       \* how many there are of what the handles stand for
          dst         \* filters the policy has made, and of which keys

dbVars == <<disk, db, snapshot, readoptions, iterator>>
batchVars == <<batch, asked, replayed>>
objectVars == <<options, handle, reps, dst>>
vars == <<heap, errptr, given, last, dbVars, batchVars, objectVars>>

Empty == [k \in Keys |-> None]
-----------------------------------------------------------------------------
Strings == 1..MaxStrings

(* strdup and malloc.                                                          *)
FreeString(h) == CHOOSE i \in Strings : h[i] = None /\ \A j \in Strings : j < i => h[j] # None

(* free.                                                                       *)
Freed(h, i) == [h EXCEPT ![i] = None]

Error(s) == <<"error", s>>

(* "Merge with existing error?": the old message is freed.                     *)
SaveError(h, e, s) ==
    IF s = OK THEN [heap |-> h, errptr |-> e]
    ELSE LET h1 == IF e = NULL THEN h ELSE Freed(h, e)
             i  == FreeString(h1)
         IN  [heap |-> [h1 EXCEPT ![i] = Error(s)], errptr |-> i]

(* A call that may set *errptr and returns no string.                          *)
Report(s) == /\ heap' = SaveError(heap, errptr, s).heap /\ errptr' = SaveError(heap, errptr, s).errptr
             /\ last' = [status |-> s, before |-> errptr, want |-> None]
             /\ UNCHANGED given

(* A call that returns a string, or NULL for None.                             *)
CopyString(str) ==
    /\ given = NULL /\ UNCHANGED errptr
    /\ IF str = None THEN UNCHANGED <<heap, given>>
       ELSE given' = FreeString(heap) /\ heap' = [heap EXCEPT ![FreeString(heap)] = str]

(* A call that has nothing to do with strings and errors.                      *)
Quiet == /\ last' = [status |-> OK, before |-> errptr, want |-> None]
         /\ UNCHANGED <<heap, errptr, given>>

(* leveldb_free, of a result and of an error.                                  *)
leveldb_free == /\ \/ given # NULL /\ heap' = Freed(heap, given) /\ given' = NULL /\ UNCHANGED errptr
                   \/ errptr # NULL /\ heap' = Freed(heap, errptr) /\ errptr' = NULL /\ UNCHANGED given
                /\ last' = [status |-> OK, before |-> errptr', want |-> None]
                /\ UNCHANGED <<dbVars, batchVars, objectVars>>
-----------------------------------------------------------------------------
Flags == {"create_if_missing", "error_if_exists", "paranoid_checks"} \intersect Fields
Numbers == {"write_buffer_size", "max_open_files", "block_size"} \intersect Fields
IsSet(flag) == flag \in Flags /\ options[flag]

(* External, DB::Open: the flags against what there is.                        *)
OpenStatus == IF \/ disk = None /\ ~IsSet("create_if_missing")
                 \/ disk # None /\ IsSet("error_if_exists")
              THEN Errors ELSE Errors \union {OK}

leveldb_open == /\ ~db /\ options # None
                /\ \E s \in OpenStatus :
                      /\ Report(s) /\ db' = (s = OK)
                      /\ disk' = IF s = OK /\ disk = None THEN Empty ELSE disk
                /\ UNCHANGED <<snapshot, readoptions, iterator, batchVars, objectVars>>

leveldb_close == /\ db /\ snapshot = None /\ iterator = None
                 /\ db' = FALSE /\ Quiet
                 /\ UNCHANGED <<disk, snapshot, readoptions, iterator, batchVars, objectVars>>

Put(d, k, v) == [d EXCEPT ![k] = v]

(* External, DB::Write: all of it or, with an error, nothing that can be read. *)
WriteOr(d) == /\ db /\ \E s \in Errors \union {OK} : Report(s) /\ disk' = IF s = OK THEN d ELSE disk
              /\ UNCHANGED <<db, snapshot, readoptions, iterator, batchVars, objectVars>>

leveldb_put(k, v) == WriteOr(Put(disk, k, v))

leveldb_delete(k) == WriteOr(Put(disk, k, None))

(* What the read options show.                                                 *)
View == IF readoptions = "nullptr" THEN disk ELSE snapshot

(* "Returns NULL if not found": and leaves errptr alone.                       *)
leveldb_get(k) ==
    /\ db /\ given = NULL
    /\ \E s \in Errors \union {IF View[k] = None THEN NotFound ELSE OK} :
          /\ last' = [status |-> s, before |-> errptr, want |-> IF s = OK THEN View[k] ELSE None]
          /\ IF s = OK THEN CopyString(View[k])
             ELSE LET saved == SaveError(heap, errptr, IF s = NotFound THEN OK ELSE s)
                  IN  heap' = saved.heap /\ errptr' = saved.errptr /\ UNCHANGED given
    /\ UNCHANGED <<dbVars, batchVars, objectVars>>

leveldb_property_value(value) ==
    /\ db /\ CopyString(value)
    /\ last' = [status |-> OK, before |-> errptr, want |-> value]
    /\ UNCHANGED <<dbVars, batchVars, objectVars>>

leveldb_create_snapshot == /\ db /\ snapshot = None /\ MaxOpen > 0 /\ snapshot' = disk /\ Quiet
                           /\ UNCHANGED <<disk, db, readoptions, iterator, batchVars, objectVars>>

leveldb_release_snapshot == /\ snapshot # None /\ readoptions = "nullptr"
                            /\ snapshot' = None /\ Quiet
                            /\ UNCHANGED <<disk, db, readoptions, iterator, batchVars, objectVars>>

leveldb_readoptions_set_snapshot(s) ==
    /\ s = "snapshot" => snapshot # None
    /\ readoptions' = s /\ Quiet
    /\ UNCHANGED <<disk, db, snapshot, iterator, batchVars, objectVars>>

leveldb_destroy_db == /\ ~db /\ \E s \in Errors \union {OK} : Report(s) /\ disk' = IF s = OK THEN None ELSE disk
                      /\ UNCHANGED <<db, snapshot, readoptions, iterator, batchVars, objectVars>>

leveldb_repair_db == /\ ~db /\ disk # None /\ \E s \in Errors \union {OK} : Report(s)
                     /\ UNCHANGED <<dbVars, batchVars, objectVars>>
-----------------------------------------------------------------------------
(* An iterator shows what the read options showed when it was created.         *)
leveldb_create_iterator ==
    /\ db /\ iterator = None /\ MaxOpen > 0
    /\ iterator' = [view |-> View, at |-> End, status |-> OK] /\ Quiet
    /\ UNCHANGED <<disk, db, snapshot, readoptions, batchVars, objectVars>>

leveldb_iter_destroy == /\ iterator # None /\ iterator' = None /\ Quiet
                        /\ UNCHANGED <<disk, db, snapshot, readoptions, batchVars, objectVars>>

leveldb_iter_valid == iterator.at # End
leveldb_iter_key == iterator.at
leveldb_iter_value == iterator.view[iterator.at]

Present == {k \in Keys : iterator.view[k] # None}
FirstOf(S) == IF S = {} THEN End ELSE CHOOSE k \in S : \A j \in S : k <= j
LastOf(S) == IF S = {} THEN End ELSE CHOOSE k \in S : \A j \in S : k >= j

(* A move; external, a block that cannot be read ends it.                      *)
MoveTo(at) == /\ \E s \in {iterator.status} \union Errors :
                    iterator' = [iterator EXCEPT !.at = IF s = OK THEN at ELSE End, !.status = s]
              /\ Quiet /\ UNCHANGED <<disk, db, snapshot, readoptions, batchVars, objectVars>>

leveldb_iter_seek_to_first == iterator # None /\ MoveTo(FirstOf(Present))
leveldb_iter_seek_to_last == iterator # None /\ MoveTo(LastOf(Present))
leveldb_iter_seek(k) == iterator # None /\ MoveTo(FirstOf({j \in Present : j >= k}))
leveldb_iter_next == iterator # None /\ leveldb_iter_valid /\ MoveTo(FirstOf({j \in Present : j > leveldb_iter_key}))
leveldb_iter_prev == iterator # None /\ leveldb_iter_valid /\ MoveTo(LastOf({j \in Present : j < leveldb_iter_key}))

leveldb_iter_get_error == /\ iterator # None /\ Report(iterator.status)
                          /\ UNCHANGED <<dbVars, batchVars, objectVars>>
-----------------------------------------------------------------------------
NotReplayed == [of |-> None, calls |-> <<>>, asked |-> <<>>]

Change(b, s, h) == /\ batch' = [batch EXCEPT ![b] = s] /\ asked' = [asked EXCEPT ![b] = h]
                   /\ replayed' = NotReplayed
                   /\ Quiet /\ UNCHANGED <<dbVars, objectVars>>
Add(b, entries) == /\ batch[b] # None /\ Len(batch[b]) + Len(entries) <= MaxBatch
                   /\ Change(b, batch[b] \o entries, asked[b] \o entries)

leveldb_writebatch_create(b) == batch[b] = None /\ Change(b, <<>>, <<>>)
leveldb_writebatch_destroy(b) == batch[b] # None /\ Change(b, None, <<>>)
leveldb_writebatch_clear(b) == batch[b] # None /\ Change(b, <<>>, <<>>)
leveldb_writebatch_put(b, k, v) == Add(b, << <<k, v>> >>)
leveldb_writebatch_delete(b, k) == Add(b, << <<k, None>> >>)

(* WriteBatch::Append: the entries of source come after those there are.       *)
leveldb_writebatch_append(b, source) ==
    /\ b # source /\ {batch[b], batch[source]} \intersect {None} = {}
    /\ Len(batch[b]) + Len(batch[source]) <= MaxBatch
    /\ Change(b, batch[b] \o batch[source], asked[b] \o asked[source])

(* H: an entry with a value calls put_, one without deleted_.                  *)
H(e) == IF e[2] = None THEN <<"deleted", e[1]>> ELSE <<"put", e[1], e[2]>>

leveldb_writebatch_iterate(b) ==
    /\ batch[b] # None
    /\ replayed' = [of |-> b, calls |-> [i \in 1..Len(batch[b]) |-> H(batch[b][i])], asked |-> asked[b]]
    /\ Quiet /\ UNCHANGED <<batch, asked, dbVars, objectVars>>

(* The entries in their order: the last one of a key counts.                   *)
Applied(d, entries) ==
    [k \in Keys |-> LET mine == {i \in 1..Len(entries) : entries[i][1] = k}
                    IN  IF mine = {} THEN d[k] ELSE entries[LastOf(mine)][2]]

leveldb_write(b) == batch[b] # None /\ WriteOr(Applied(disk, batch[b]))
-----------------------------------------------------------------------------
Objects(o, h, r) == /\ options' = o /\ handle' = h /\ reps' = r
                    /\ Quiet /\ UNCHANGED <<dbVars, batchVars>>

(* The defaults of Options: the flags are false.                               *)
leveldb_options_create == /\ options = None
                          /\ Objects([f \in Fields |-> IF f \in Flags THEN FALSE ELSE "default"], handle, reps)
                          /\ UNCHANGED dst
leveldb_options_destroy == options # None /\ Objects(None, handle, reps) /\ UNCHANGED dst

Set(f, v) == options # None /\ Objects([options EXCEPT ![f] = v], handle, reps) /\ UNCHANGED dst

(* create_if_missing, error_if_exists, paranoid_checks.                        *)
SetFlag(f, v) == f \in Flags /\ Set(f, v)

(* write_buffer_size, max_open_files, block_size and so on.                    *)
SetNumber(f, v) == f \in Numbers /\ Set(f, v)

(* leveldb_options_set_comparator and _filter_policy: the handle is the rep.   *)
SetHandle(f) == f \in Handles \intersect {"comparator", "filter_policy"} /\ handle[f] # None /\ Set(f, handle[f])

(* leveldb_options_set_env and _info_log: the rep of a handle, or null.        *)
SetRep(f) == f \in {"env"} \intersect Fields /\ (Set(f, "null") \/ (handle[f] # None /\ Set(f, "rep")))

leveldb_options_set_cache == "cache" \in Handles /\ handle["cache"] # None /\ Set("cache", "rep")

(* A handle of kind k is made, with a rep that is its own or shared.           *)
Create(h, k, made) == /\ h \in Handles /\ handle[h] = None /\ dst' = <<>>
                      /\ Objects(options, [handle EXCEPT ![h] = k], [r \in DOMAIN reps |-> reps[r] + IF r \in made THEN 1 ELSE 0])

(* Nothing uses it: the client has closed the database.                        *)
Delete(h, gone) == /\ h \in Handles /\ handle[h] # None /\ ~db /\ UNCHANGED dst
                   /\ Objects(options, [handle EXCEPT ![h] = None], [r \in DOMAIN reps |-> reps[r] - IF r \in gone THEN 1 ELSE 0])

(* ~leveldb_comparator_t and ~leveldb_filterpolicy_t: destructor_(state_).     *)
destructor_(h) == IF handle[h] = "user" THEN {h} ELSE {}

leveldb_comparator_create == Create("comparator", "user", {"comparator"})
leveldb_comparator_destroy == Delete("comparator", destructor_("comparator"))

leveldb_filterpolicy_create == Create("filter_policy", "user", {"filter_policy"})

(* Wrapper: rep_ is a Bloom filter policy, destructor_ does nothing.           *)
leveldb_filterpolicy_create_bloom == Create("filter_policy", "Wrapper", {"rep_"})
WrapperDestructor == IF handle["filter_policy"] = "Wrapper" THEN {"rep_"} ELSE {}
leveldb_filterpolicy_destroy == Delete("filter_policy", WrapperDestructor \union destructor_("filter_policy"))

leveldb_cache_create_lru == Create("cache", "lru", {"cache"})
leveldb_cache_destroy == Delete("cache", {"cache"})

(* Env::Default() is one object for all handles, and is_default.               *)
leveldb_create_default_env(h) == Create(h, "is_default", {})
leveldb_env_destroy(h) == Delete(h, IF handle[h] = "is_default" THEN {} ELSE {"env"})

(* What create_ is given: pointers and sizes in the order of the keys.         *)
Pointers(keys) == [i \in 1..Len(keys) |-> keys[i]]

(* External: a filter has the keys it is made of.                              *)
create_(pointers) == {pointers[i] : i \in 1..Len(pointers)}

(* CreateFilter of a handle: another filter is appended to dst.                *)
CreateFilter(keys) ==
    /\ "filter_policy" \in Handles /\ handle["filter_policy"] # None /\ Len(dst) < MaxFilters
    /\ dst' = Append(dst, [keys |-> keys, filter |-> create_(Pointers(keys))])
    /\ Objects(options, handle, reps)

(* KeyMayMatch: Bloom's may also match a key that is not in the filter.        *)
KeyMayMatch(key, filter) == IF key \in filter THEN {TRUE}
                            ELSE IF handle["filter_policy"] = "Wrapper" THEN BOOLEAN ELSE {FALSE}

leveldb_env_get_test_directory ==
    /\ "env" \in Handles /\ handle["env"] # None
    /\ \E directory \in {None, "directory"} :
          CopyString(directory) /\ last' = [status |-> OK, before |-> errptr, want |-> directory]
    /\ UNCHANGED <<dbVars, batchVars, objectVars>>
-----------------------------------------------------------------------------
Init == /\ heap = [i \in Strings |-> None] /\ errptr = NULL /\ given = NULL
        /\ last = [status |-> OK, before |-> NULL, want |-> None]
        /\ disk = None /\ db = FALSE /\ snapshot = None /\ readoptions = "nullptr" /\ iterator = None
        /\ batch = [b \in Batches |-> None] /\ asked = [b \in Batches |-> <<>>]
        /\ replayed = NotReplayed
        /\ options = None /\ handle = [h \in Handles |-> None]
        /\ reps = [r \in {"comparator", "filter_policy", "rep_", "cache", "env"} |-> IF r = "env" THEN 1 ELSE 0]
        /\ dst = <<>>

(* The operations on databases.                                                *)
DBOperations ==
    \/ leveldb_open \/ leveldb_close \/ leveldb_destroy_db \/ leveldb_repair_db
    \/ \E k \in Keys : leveldb_get(k) \/ leveldb_delete(k) \/ \E v \in Values : leveldb_put(k, v)
    \/ \E value \in {None, "property"} : leveldb_property_value(value)
    \/ leveldb_create_snapshot \/ leveldb_release_snapshot
    \/ \E s \in {"nullptr", "snapshot"} : leveldb_readoptions_set_snapshot(s)

IteratorOperations ==
    \/ leveldb_create_iterator \/ leveldb_iter_destroy \/ leveldb_iter_get_error
    \/ leveldb_iter_seek_to_first \/ leveldb_iter_seek_to_last \/ leveldb_iter_next \/ leveldb_iter_prev
    \/ \E k \in Keys : leveldb_iter_seek(k)

BatchOperations ==
    \E b \in Batches :
        \/ leveldb_writebatch_create(b) \/ leveldb_writebatch_destroy(b) \/ leveldb_writebatch_clear(b)
        \/ leveldb_writebatch_iterate(b) \/ leveldb_write(b)
        \/ \E k \in Keys : leveldb_writebatch_delete(b, k) \/ \E v \in Values : leveldb_writebatch_put(b, k, v)
        \/ \E source \in Batches : leveldb_writebatch_append(b, source)

OptionOperations ==
    \/ leveldb_options_create \/ leveldb_options_destroy \/ leveldb_options_set_cache
    \/ \E f \in Fields : SetHandle(f) \/ SetRep(f) \/ SetNumber(f, "number") \/ \E v \in BOOLEAN : SetFlag(f, v)

ObjectOperations ==
    \/ leveldb_comparator_create \/ leveldb_comparator_destroy
    \/ leveldb_filterpolicy_create \/ leveldb_filterpolicy_create_bloom \/ leveldb_filterpolicy_destroy
    \/ leveldb_cache_create_lru \/ leveldb_cache_destroy
    \/ \E h \in {"env", "env2"} : leveldb_create_default_env(h) \/ leveldb_env_destroy(h)
    \/ leveldb_env_get_test_directory
    \/ \E keys \in {<<>>} \union {<<k>> : k \in Keys} \union (Keys \X Keys) : CreateFilter(keys)

Next == \/ DBOperations \/ IteratorOperations \/ BatchOperations
        \/ OptionOperations \/ ObjectOperations \/ leveldb_free

Spec == Init /\ [][Next]_vars
-----------------------------------------------------------------------------
Live == {i \in Strings : heap[i] # None}

(* c.h: errptr is null or "points to a malloc()ed null-terminated error        *)
(* message".  Every string that was not freed is the client's error or what it *)
(* was given: none is lost, none is freed twice, and they are two.             *)
StringsOwned == /\ Live = {errptr, given} \ {NULL}
                /\ errptr # NULL => errptr # given /\ \E e \in Errors : heap[errptr] = Error(e)

(* c.h: "On success, a leveldb routine leaves *errptr unchanged.  On failure,  *)
(* leveldb frees the old value of *errptr and set *errptr to a malloc()ed      *)
(* error message"; a key that is not found is no failure.                      *)
ErrorsReported == IF last.status \in {OK, NotFound} THEN errptr = last.before
                  ELSE errptr # NULL /\ heap[errptr] = Error(last.status)

(* leveldb_get "returns NULL if not found.  A malloc()ed array otherwise", and *)
(* with an error too: the array has the value that the snapshot, or the        *)
(* database at this moment, shows.                                             *)
ResultRight == last.want # None => given # NULL /\ heap[given] = last.want

(* leveldb_open returns a database or sets an error, and creates one only if   *)
(* it was asked to; nobody but leveldb_destroy_db removes it.                  *)
DatabaseOpen == db => disk # None

(* Whatever is written meanwhile, an iterator without an error is at a key of  *)
(* what it was created on.                                                     *)
IteratorRight == iterator # None /\ iterator.at # End =>
    iterator.status = OK /\ leveldb_iter_value # None

(* leveldb_writebatch_iterate calls put and deleted once for each thing the    *)
(* client put into the batch, or appended to it, in that order.                *)
BatchReplayed ==
    /\ \A b \in Batches : batch[b] # None => batch[b] = asked[b]
    /\ Len(replayed.calls) = Len(replayed.asked)
    /\ \A i \in 1..Len(replayed.calls) :
          LET c == replayed.calls[i]
          IN  replayed.asked[i] = <<c[2], IF c[1] = "put" THEN c[3] ELSE None>>

Owns(h, r) == CASE r = "rep_" -> h = "filter_policy" /\ handle[h] = "Wrapper"
                [] r = "filter_policy" -> h = r /\ handle[h] = "user"
                [] r = "env" -> FALSE
                [] OTHER -> h = r /\ handle[h] # None

(* What a handle stands for is destroyed with it, once: the client's state by  *)
(* its destructor, Bloom's policy by the wrapper, whose own destructor is      *)
(* called on nothing; the default environment is never destroyed.              *)
ObjectsOwned == /\ reps["env"] = 1
                /\ \A r \in DOMAIN reps \ {"env"} : reps[r] = IF \E h \in Handles : Owns(h, r) THEN 1 ELSE 0

(* A key that a filter was made of may match, whoever made the filter.         *)
FiltersCover == \A i \in 1..Len(dst) : \A j \in 1..Len(dst[i].keys) :
                   KeyMayMatch(dst[i].keys[j], dst[i].filter) = {TRUE}
=============================================================================
