------------------------------- MODULE Table --------------------------------
(* leveldb, table/table_builder.cc, table/table.cc and table/format.cc: how a  *)
(* table is written, piece by piece, to a file that may fail, and how it is    *)
(* opened and searched through a cache of blocks.  A block is the sequence of  *)
(* its keys (module Block), with a size of one for each; reads verify          *)
(* checksums, so that a damaged piece is an error.                             *)
EXTENDS Naturals, Sequences, Comparator, FiniteSets

(* leveldb, table/filter_block.cc: one filter for every kFilterBase bytes of   *)
(* the file, found by the offset of a data block.  A filter is one element of  *)
(* result, the set of keys it was made of: FilterPolicy as its contract.       *)
CONSTANT kFilterBase

NewFilterBlockBuilder == [keys |-> {}, result |-> <<>>, filter_offsets |-> <<>>]

GenerateFilter(f) == [keys |-> {},
                      result |-> IF f.keys = {} THEN f.result ELSE Append(f.result, f.keys),
                      filter_offsets |-> Append(f.filter_offsets, Len(f.result))]

RECURSIVE StartBlock(_, _)
StartBlock(f, block_offset) ==
    IF block_offset \div kFilterBase > Len(f.filter_offsets) THEN StartBlock(GenerateFilter(f), block_offset) ELSE f

AddKey(f, key) == [f EXCEPT !.keys = @ \union {key}]

FinishFilters(f) == LET g == IF f.keys = {} THEN f ELSE GenerateFilter(f)
                    IN  [result |-> g.result, filter_offsets |-> g.filter_offsets]

(* FilterBlockReader::KeyMayMatch: an empty filter matches no key, an offset   *)
(* without a filter every key.                                                 *)
KeyMayMatch(contents, block_offset, key) ==
    LET n == block_offset \div kFilterBase + 1
        num == Len(contents.filter_offsets)
        start == contents.filter_offsets[n]
        limit == IF n = num THEN Len(contents.result) ELSE contents.filter_offsets[n + 1]
    IN  n <= num => \E m \in start + 1..limit : key \in contents.result[m]
-----------------------------------------------------------------------------

CONSTANTS TableKeys,     \* the keys that may be added
          LookupKeys,    \* the keys that may be asked for
          BlockSizes,    \* values of Options::block_size
          MaxKeys,       \* bound: keys of a table
          MaxTables      \* bound: tables built

kBlockTrailerSize == 1

VARIABLES options,   \* [block_size, filter_policy]
          rep,       \* TableBuilder::Rep
          added,     \* the keys given to Add while it was ok
          file,      \* what is in the file
          table,     \* Table::Rep of the table opened, or closed
          cache,     \* block cache: set of [id, offset, keys]
          last_id_,  \* of the block cache
          got        \* the last InternalGet: what was asked, found and returned

vars == <<options, rep, added, file, table, cache, last_id_, got>>

NewBuilder(policy) ==
    [offset |-> 0, status |-> "ok", data_block |-> <<>>, index_block |-> <<>>, last_key |-> <<>>,
     num_entries |-> 0, closed |-> FALSE, pending_index_entry |-> FALSE, pending_handle |-> 0,
     filter_block |-> IF policy THEN StartBlock(NewFilterBlockBuilder, 0) ELSE NewFilterBlockBuilder]

NoFilter == [result |-> <<>>, filter_offsets |-> <<>>]
NewFile == [data |-> <<>>, filter |-> NoFilter, index |-> <<>>, metaindex |-> 0, footer |-> FALSE, damaged |-> {}]
NoTable == [open |-> FALSE, cache_id |-> 0, filter |-> NoFilter]
NoResult == [asked |-> {}, found |-> {}, status |-> "ok"]

Init == /\ options \in [block_size : BlockSizes, filter_policy : BOOLEAN]
        /\ rep = NewBuilder(options.filter_policy) /\ added = <<>>
        /\ file = NewFile /\ table = NoTable /\ cache = {} /\ last_id_ = 0 /\ got = NoResult
-----------------------------------------------------------------------------
(* The builder.  fail is the piece whose write (or Flush) fails, if any.       *)
Pieces == {"none", "block", "flush", "filter", "metaindex", "index", "footer"}

(* WriteBlock, WriteRawBlock: the offset only moves when all was written.      *)
Written(r, size, failed) ==
    IF failed THEN [r EXCEPT !.status = "ioerror"] ELSE [r EXCEPT !.offset = @ + size + kBlockTrailerSize]

(* Only after a block was written: its index entry waits for the next key.     *)
FlushFile(r, fail) ==
    IF r.status # "ok" THEN r
    ELSE [r EXCEPT !.pending_index_entry = TRUE, !.status = IF fail = "flush" THEN "ioerror" ELSE "ok"]

StartFilter(r, before) == StartBlock(r.filter_block, r.offset)

(* TableBuilder::Flush.                                                        *)
Flushed(r, fail) ==
    LET w == FlushFile([Written(r, Len(r.data_block), fail = "block")
                           EXCEPT !.pending_handle = r.offset, !.data_block = <<>>], fail)
    IN  IF r.status # "ok" \/ r.data_block = <<>> THEN r
        ELSE [w EXCEPT !.filter_block = IF options.filter_policy THEN StartFilter(w, r) ELSE @]

(* The file after the same Flush.                                              *)
WithBlock(f, r, fail) ==
    IF r.status # "ok" \/ r.data_block = <<>> \/ fail = "block" THEN f
    ELSE [f EXCEPT !.data = Append(@, [offset |-> r.offset, keys |-> r.data_block])]

IndexEntry(r, key) == [key |-> key, handle |-> r.pending_handle]

(* The entry of the block before, once the next key is known.                  *)
PendingEntry(r, key) ==
    IF ~r.pending_index_entry THEN r
    ELSE [r EXCEPT !.index_block = Append(@, IndexEntry(r, FindShortestSeparator(r.last_key, key))),
                   !.pending_index_entry = FALSE]

AddedKey(r, key) ==
    [PendingEntry(r, key) EXCEPT !.last_key = key, !.num_entries = @ + 1, !.data_block = Append(@, key),
                                 !.filter_block = IF options.filter_policy THEN AddKey(@, key) ELSE @]

Add(key, fail) ==
    /\ ~rep.closed /\ rep.status = "ok" /\ rep.num_entries < MaxKeys
    /\ rep.num_entries > 0 => Less(rep.last_key, key)
    /\ LET r == AddedKey(rep, key)
           full == Len(r.data_block) >= options.block_size
       IN  /\ fail # "none" => full
           /\ rep' = IF full THEN Flushed(r, fail) ELSE r
           /\ file' = IF full THEN WithBlock(file, r, fail) ELSE file
    /\ added' = Append(added, key)
    /\ UNCHANGED <<options, table, cache, last_id_, got>>

Flush(fail) ==
    /\ ~rep.closed /\ rep.status = "ok" /\ rep.data_block # <<>>
    /\ rep' = Flushed(rep, fail) /\ file' = WithBlock(file, rep, fail)
    /\ UNCHANGED <<options, added, table, cache, last_id_, got>>

(* The last index entry needs no key to separate from.                         *)
LastEntry(r) ==
    IF ~r.pending_index_entry THEN r
    ELSE [r EXCEPT !.index_block = Append(@, IndexEntry(r, FindShortSuccessor(r.last_key))),
                   !.pending_index_entry = FALSE]

WriteFilter(r, fail) == IF r.status = "ok" /\ options.filter_policy THEN Written(r, 1, fail = "filter") ELSE r
WriteMetaindex(r, fail) == IF r.status = "ok" THEN Written(r, 1, fail = "metaindex") ELSE r
WriteIndex(r, fail) == IF r.status = "ok"
                       THEN LET l == LastEntry(r) IN Written(l, Len(l.index_block), fail = "index") ELSE r

(* Slip: the footer is written whatever failed before it.                      *)
FooterAnyway(r, fail) == Written([r EXCEPT !.status = "ok"], 1, fail = "footer")

WriteFooter(r, fail) == IF r.status = "ok" THEN Written(r, 1, fail = "footer") ELSE r

Finish(fail) ==
    /\ ~rep.closed
    /\ LET flushed == Flushed(rep, fail)
           filter == WriteFilter(flushed, fail)
           meta == WriteMetaindex(filter, fail)
           index == WriteIndex(meta, fail)
           footer == WriteFooter(index, fail)
       IN  /\ rep' = [footer EXCEPT !.closed = TRUE]
           /\ file' = [WithBlock(file, rep, fail) EXCEPT
                          !.filter = IF options.filter_policy THEN FinishFilters(flushed.filter_block) ELSE @,
                          !.metaindex = filter.offset,
                          !.index = index.index_block,
                          !.footer = footer.status = "ok"]
    /\ UNCHANGED <<options, added, table, cache, last_id_, got>>

Abandon == /\ ~rep.closed /\ rep' = [rep EXCEPT !.closed = TRUE]
           /\ UNCHANGED <<options, added, file, table, cache, last_id_, got>>

(* A piece of the file goes bad.                                               *)
Damage == /\ rep.closed /\ file.damaged = {}
          /\ \E p \in ({"filter", "metaindex", "index", "footer"} \X {0})
                      \union ({"data"} \X {file.data[n].offset : n \in DOMAIN file.data}) :
                file' = [file EXCEPT !.damaged = {p}]
          /\ UNCHANGED <<options, rep, added, table, cache, last_id_, got>>

Good(p) == <<p, 0>> \notin file.damaged
GoodBlock(offset) == <<"data", offset>> \notin file.damaged
-----------------------------------------------------------------------------
NewId(last) == last + 1

(* "Do not propagate errors since meta info is not needed for operation."      *)
ReadMeta == IF options.filter_policy /\ Good("metaindex") /\ Good("filter") THEN file.filter ELSE NoFilter

(* A footer with the magic number at the end.                                  *)
FooterReads == file.footer /\ Good("footer")

Open == /\ rep.closed /\ ~table.open
        /\ FooterReads /\ Good("index")
        /\ table' = [open |-> TRUE, cache_id |-> NewId(last_id_), filter |-> ReadMeta]
        /\ last_id_' = NewId(last_id_)
        /\ UNCHANGED <<options, rep, added, file, cache, got>>

(* The first index entry at or past the key: 0 if none.                        *)
IndexSeek(key) == LET past == {n \in DOMAIN file.index : ~Less(file.index[n].key, key)}
                  IN  IF past = {} THEN 0 ELSE CHOOSE n \in past : \A m \in past : n <= m

BlockAt(offset) == CHOOSE b \in {file.data[n] : n \in DOMAIN file.data} : b.offset = offset

Cached(offset) == {c \in cache : c.id = table.cache_id /\ c.offset = offset}

(* The key a search in a block stops at, as a set of at most one.              *)
BlockSeek(keys, key) == LET past == {n \in DOMAIN keys : ~Less(keys[n], key)}
                        IN  {keys[n] : n \in {m \in past : \A k \in past : m <= k}}

Answer(key, found, status) == got' = [asked |-> {key}, found |-> found, status |-> status]

(* The filter says no, or the index ends before the key.                       *)
GetNothing(key) ==
    /\ table.open
    /\ LET n == IndexSeek(key)
       IN  n # 0 => /\ table.filter # NoFilter
                    /\ ~KeyMayMatch(table.filter, file.index[n].handle, key)
    /\ Answer(key, {}, "ok")
    /\ UNCHANGED <<options, rep, added, file, table, cache, last_id_>>

(* BlockReader, then a search in the block.  fills: the block may be cached    *)
(* (fill_cache, and not mapped); failed: the read fails.                       *)
GetFromBlock(key, fills, failed) ==
    /\ table.open /\ IndexSeek(key) # 0
    /\ LET offset == file.index[IndexSeek(key)].handle
           block == BlockAt(offset)
       IN  /\ table.filter # NoFilter => KeyMayMatch(table.filter, offset, key)
           /\ \/ /\ \E c \in Cached(offset) : Answer(key, BlockSeek(c.keys, key), "ok")
                 /\ UNCHANGED cache
              \/ /\ Cached(offset) = {} /\ ~failed /\ GoodBlock(offset)
                 /\ Answer(key, BlockSeek(block.keys, key), "ok")
                 /\ cache' = IF fills THEN cache \union {[id |-> table.cache_id, offset |-> offset, keys |-> block.keys]}
                             ELSE cache
              \/ /\ Cached(offset) = {} /\ (failed \/ ~GoodBlock(offset))
                 /\ Answer(key, {}, "error")
                 /\ UNCHANGED cache
    /\ UNCHANGED <<options, rep, added, file, table, last_id_>>

(* LRUCache::Insert of another block, over the capacity of the cache, drops a  *)
(* block that nobody holds; which one is the subject of module LRUCache.       *)
Evict == /\ \E c \in cache : cache' = cache \ {c}
         /\ UNCHANGED <<options, rep, added, file, table, last_id_, got>>

(* The table is closed (its blocks stay in the cache) and another is built.    *)
CloseTable == /\ table.open /\ last_id_ < MaxTables
              /\ rep' = NewBuilder(options.filter_policy) /\ added' = <<>> /\ file' = NewFile
              /\ table' = NoTable /\ got' = NoResult
              /\ UNCHANGED <<options, cache, last_id_>>

Next == \/ \E fail \in Pieces : Finish(fail) \/ Flush(fail) \/ \E key \in TableKeys : Add(key, fail)
        \/ Abandon \/ Damage \/ Open \/ Evict \/ CloseTable
        \/ \E key \in LookupKeys : GetNothing(key) \/ \E fills, failed \in BOOLEAN : GetFromBlock(key, fills, failed)

Spec == Init /\ [][Next]_vars
-----------------------------------------------------------------------------
Added == {added[n] : n \in DOMAIN added}

ApproximateOffsetOf(key) == LET n == IndexSeek(key) IN IF n = 0 THEN file.metaindex ELSE file.index[n].handle

(* InternalGet without an error finds a key that was added, with or without    *)
(* filter and cache and after any failures, and no other key is taken for one. *)
GetRight == \A key \in got.asked : got.status = "ok" => (key \in got.found <=> key \in Added)

(* An index entry is at or past every key of its block and before every key of *)
(* the later ones.                                                             *)
IndexSeparates == \A n \in DOMAIN rep.index_block : \A m \in DOMAIN file.data : \A k \in DOMAIN file.data[m].keys :
    LET entry == rep.index_block[n]
        key == file.data[m].keys[k]
    IN  IF file.data[m].offset <= entry.handle THEN ~Less(entry.key, key) ELSE Less(entry.key, key)

(* A file that opens holds all of its keys, each in a block the index knows.   *)
OpensOnlyWhole == table.open =>
    \A key \in Added : \E n \in DOMAIN file.index : \E m \in DOMAIN file.data :
        file.data[m].offset = file.index[n].handle /\ \E k \in DOMAIN file.data[m].keys : file.data[m].keys[k] = key

(* The filter of a block's offset knows every key of the block.                *)
FilterCovers == (file.footer /\ options.filter_policy) =>
    \A m \in DOMAIN file.data : \A k \in DOMAIN file.data[m].keys :
        KeyMayMatch(file.filter, file.data[m].offset, file.data[m].keys[k])

(* "The approximate offset in the file where the data for key begins": it      *)
(* never falls as keys grow, and is exact for a key in the table.              *)
OffsetsGrow == table.open =>
    /\ \A a, b \in LookupKeys : Less(a, b) => ApproximateOffsetOf(a) <= ApproximateOffsetOf(b)
    /\ \A m \in DOMAIN file.data : \A k \in DOMAIN file.data[m].keys :
           ApproximateOffsetOf(file.data[m].keys[k]) = file.data[m].offset
=============================================================================
