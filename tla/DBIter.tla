------------------------------- MODULE DBIter -------------------------------
(* leveldb, db/db_iter.cc: what a user sees of internal keys at a snapshot.    *)
(* History gives update n of the database its user key and type; the internal  *)
(* key of update n is a number that grows with the user key and falls with n.  *)
EXTENDS Integers, FiniteSets

(* leveldb, table/merger.cc: one ordered view of several sources, the          *)
(* memtables and tables of a database.  Internal keys are numbers in the order *)
(* of the comparator, and no two sources have the same one; 0 is no position.  *)
CONSTANT Children      \* 1..n_

kForward == "forward"
kReverse == "reverse"

Least(S) == IF S = {} THEN 0 ELSE CHOOSE e \in S : \A f \in S : e <= f
Greatest(S) == IF S = {} THEN 0 ELSE CHOOSE e \in S : \A f \in S : e >= f

(* A source with the set S of keys, behind an IteratorWrapper.                 *)
ChildSeek(S, target) == Least({e \in S : e >= target})
ChildNext(S, at) == Least({e \in S : e > at})
ChildPrev(S, at) == Greatest({e \in S : e < at})

(* An iterator: the position of every child, current_ (0: nullptr), direction_ *)
NewMergingIterator == [at |-> [c \in Children |-> 0], current |-> 0, direction |-> kForward]

Valid(m) == m.current # 0
KeyOf(m) == m.at[m.current]

FindSmallest(m) ==
    LET valid == {c \in Children : m.at[c] # 0}
    IN  [m EXCEPT !.current = IF valid = {} THEN 0 ELSE CHOOSE c \in valid : \A d \in valid : m.at[c] <= m.at[d]]

FindLargest(m) ==
    LET valid == {c \in Children : m.at[c] # 0}
    IN  [m EXCEPT !.current = IF valid = {} THEN 0 ELSE CHOOSE c \in valid : \A d \in valid : m.at[c] >= m.at[d]]

SeekToFirst(src, m) ==
    [FindSmallest([m EXCEPT !.at = [c \in Children |-> Least(src[c])]]) EXCEPT !.direction = kForward]

SeekToLast(src, m) ==
    [FindLargest([m EXCEPT !.at = [c \in Children |-> Greatest(src[c])]]) EXCEPT !.direction = kReverse]

Seek(src, m, target) ==
    [FindSmallest([m EXCEPT !.at = [c \in Children |-> ChildSeek(src[c], target)]])
        EXCEPT !.direction = kForward]

(* "Ensure that all children are positioned after key()."                      *)
After(src, m, c) ==
    LET e == ChildSeek(src[c], KeyOf(m)) IN IF e = KeyOf(m) THEN ChildNext(src[c], e) ELSE e

(* "Ensure that all children are positioned before key()."                     *)
BeforeKey(src, m, c) ==
    LET e == ChildSeek(src[c], KeyOf(m)) IN IF e = 0 THEN Greatest(src[c]) ELSE ChildPrev(src[c], e)

MergeNext(src, m) ==
    FindSmallest([m EXCEPT !.direction = kForward,
        !.at = [c \in Children |->
                   IF c = m.current THEN ChildNext(src[c], m.at[c])
                   ELSE IF m.direction = kForward THEN m.at[c] ELSE After(src, m, c)]])

MergePrev(src, m) ==
    FindLargest([m EXCEPT !.direction = kReverse,
        !.at = [c \in Children |->
                   IF c = m.current THEN ChildPrev(src[c], m.at[c])
                   ELSE IF m.direction = kReverse THEN m.at[c] ELSE BeforeKey(src, m, c)]])
-----------------------------------------------------------------------------

CONSTANTS Users,    \* user keys, 1..k
          Updates,  \* bound: updates in the database
          Damage    \* bound: damaged keys, 0 or 1

kTypeDeletion == "deletion"
kTypeValue == "value"

VARIABLES history,    \* update -> [user, type]
          source,     \* child -> internal keys it holds
          damaged,    \* internal keys that cannot be parsed
          sequence_,
          it,         \* the DBIter: iter_, direction_, valid_, saved_key_, saved_value_, status_
          view        \* the user key the iterator should be at, 0 if none

vars == <<history, source, damaged, sequence_, it, view>>

InternalKey(user, n) == user * (Updates + 1) - n
UserKey(e) == (e + Updates) \div (Updates + 1)
Sequence(e) == UserKey(e) * (Updates + 1) - e
Type(e) == history[Sequence(e)].type
AllKeys == {InternalKey(history[n].user, n) : n \in 1..Updates}

NoKey == 0
NewDBIterator == [iter |-> NewMergingIterator, direction |-> kForward, valid |-> FALSE,
                  saved_key |-> NoKey, saved_value |-> NoKey, status |-> "ok"]

Init == /\ history \in [1..Updates -> [user : Users, type : {kTypeDeletion, kTypeValue}]]
        /\ sequence_ \in 0..Updates
        /\ damaged \in {{}} \union {{e} : e \in {k \in AllKeys : Damage > 0}}
        /\ \E place \in [1..Updates -> Children] :
              source = [c \in Children |-> {InternalKey(history[n].user, n) : n \in {k \in 1..Updates : place[k] = c}}]
        /\ it = NewDBIterator /\ view = 0

(* ParseKey and "ikey.sequence <= sequence_".                                  *)
Usable(e) == e \notin damaged /\ Sequence(e) <= sequence_

(* ParseKey records a key it cannot parse.                                     *)
Parsed(i) == [i EXCEPT !.status = IF KeyOf(i.iter) \in damaged THEN "corruption" ELSE @]

Advance(i) == [i EXCEPT !.iter = MergeNext(source, @)]
Retreat(i) == [i EXCEPT !.iter = MergePrev(source, @)]
Nowhere(i) == [i EXCEPT !.valid = FALSE, !.saved_key = NoKey]

Hidden(e, skipping, skip) == skipping /\ UserKey(e) <= skip

(* The key to skip after a deletion.                                           *)
SkipDeleted(e, skip) == UserKey(e)

(* A loop that moves iter_: there are no more rounds than entries.             *)
Loop(Round(_), Stops(_), start) ==
    LET after[n \in 0..Updates] ==
          IF n = 0 THEN start
          ELSE LET before == after[n - 1] IN IF Stops(before) THEN before ELSE Round(before)
    IN  after[Updates]

(* FindNextUserEntry, from the first entry that is not deleted or hidden.      *)
FindNextUserEntry(from, skipping, skip) ==
    LET Entry(s) == KeyOf(s.i.iter)
        Found(s) == /\ Usable(Entry(s)) /\ Type(Entry(s)) # kTypeDeletion
                    /\ ~Hidden(Entry(s), s.skipping, s.skip)
        Stops(s) == ~Valid(s.i.iter) \/ Found(s)
        Round(s) == IF Usable(Entry(s)) /\ Type(Entry(s)) = kTypeDeletion
                    THEN [i |-> Advance(s.i), skipping |-> TRUE, skip |-> SkipDeleted(Entry(s), s.skip)]
                    ELSE [s EXCEPT !.i = Advance(Parsed(@))]
        end == Loop(Round, Stops, [i |-> from, skipping |-> skipping, skip |-> skip])
    IN  IF Valid(end.i.iter) THEN [end.i EXCEPT !.valid = TRUE, !.saved_key = NoKey] ELSE Nowhere(end.i)

(* "We encountered a non-deleted value in entries for previous keys"           *)
PassedIt(e, type, saved_key) == type # kTypeDeletion /\ UserKey(e) < saved_key

FindPrevUserEntry(from, type) ==
    LET Entry(s) == KeyOf(s.i.iter)
        Stops(s) == \/ ~Valid(s.i.iter)
                    \/ Usable(Entry(s)) /\ PassedIt(Entry(s), s.type, s.i.saved_key)
        Saved(s) == IF Type(Entry(s)) = kTypeDeletion
                    THEN [s.i EXCEPT !.saved_key = NoKey, !.saved_value = NoKey]
                    ELSE [s.i EXCEPT !.saved_key = UserKey(Entry(s)), !.saved_value = Sequence(Entry(s))]
        Round(s) == IF ~Usable(Entry(s)) THEN [s EXCEPT !.i = Retreat(Parsed(@))]
                    ELSE [i |-> Retreat(Saved(s)), type |-> Type(Entry(s))]
        end == Loop(Round, Stops, [i |-> from, type |-> type])
    IN  IF end.type = kTypeDeletion
        THEN [Nowhere(end.i) EXCEPT !.saved_value = NoKey, !.direction = kForward]
        ELSE [end.i EXCEPT !.valid = TRUE]

(* Scan backwards until the key changes.                                       *)
BackOut(i) == Loop(Retreat, LAMBDA j : ~Valid(j.iter) \/ UserKey(KeyOf(j.iter)) < j.saved_key, i)

(* Into the entries of the current key, from just before them.                 *)
Reenter(i) == IF Valid(i.iter) THEN Advance(i) ELSE [i EXCEPT !.iter = SeekToFirst(source, @)]
-----------------------------------------------------------------------------
(* What the database holds at the snapshot: the newest usable update of a key. *)
NewestUsable(u) == Greatest({n \in 1..Updates : history[n].user = u /\ Usable(InternalKey(u, n))})
Present == {u \in Users : NewestUsable(u) # 0 /\ history[NewestUsable(u)].type = kTypeValue}

Move(i, u) == /\ it' = i /\ view' = u
              /\ UNCHANGED <<history, source, damaged, sequence_>>

IterNext ==
    /\ it.valid
    /\ IF it.direction = kReverse
       THEN LET i == [Reenter(it) EXCEPT !.direction = kForward]
            IN  Move(IF Valid(i.iter) THEN FindNextUserEntry(i, TRUE, i.saved_key) ELSE Nowhere(i),
                     ChildNext(Present, view))
       ELSE LET skip == UserKey(KeyOf(it.iter))
            IN  Move(FindNextUserEntry([it EXCEPT !.saved_key = skip], TRUE, skip), ChildNext(Present, view))

IterPrev ==
    /\ it.valid
    /\ IF it.direction = kForward
       THEN LET i == BackOut(Retreat([it EXCEPT !.saved_key = UserKey(KeyOf(it.iter))]))
            IN  Move(IF Valid(i.iter)
                     THEN FindPrevUserEntry([i EXCEPT !.direction = kReverse], kTypeDeletion)
                     ELSE [Nowhere(i) EXCEPT !.saved_value = NoKey],
                     ChildPrev(Present, view))
       ELSE Move(FindPrevUserEntry(it, kTypeDeletion), ChildPrev(Present, view))

(* Forward from where iter_ was put, if it is anywhere.                        *)
Forward(i) == IF Valid(i.iter) THEN FindNextUserEntry(i, FALSE, NoKey) ELSE [i EXCEPT !.valid = FALSE]

IterSeek(target) ==
    Move(Forward([it EXCEPT !.direction = kForward, !.saved_value = NoKey, !.saved_key = NoKey,
                            !.iter = Seek(source, @, InternalKey(target, sequence_))]),
         ChildSeek(Present, target))

IterSeekToFirst ==
    Move(Forward([it EXCEPT !.direction = kForward, !.saved_value = NoKey, !.iter = SeekToFirst(source, @)]),
         Least(Present))

IterSeekToLast ==
    Move(FindPrevUserEntry([it EXCEPT !.direction = kReverse, !.saved_value = NoKey,
                                      !.iter = SeekToLast(source, @)], kTypeDeletion),
         Greatest(Present))

Next == \/ IterNext \/ IterPrev \/ IterSeekToFirst \/ IterSeekToLast
        \/ \E target \in Users : IterSeek(target)

Spec == Init /\ [][Next]_vars
-----------------------------------------------------------------------------
Key == IF it.direction = kForward THEN UserKey(KeyOf(it.iter)) ELSE it.saved_key
Value == IF it.direction = kForward THEN Sequence(KeyOf(it.iter)) ELSE it.saved_value

(* After any sequence of moves, with changes of direction, the iterator is at  *)
(* the key of the snapshot it should be at, with its newest visible value: no  *)
(* deleted or newer entry shows and none is passed over.                       *)
AtRightEntry == /\ it.valid <=> view # 0
                /\ it.valid => Key = view /\ Value = NewestUsable(view)

(* The two positions the class comment promises: on the very entry when        *)
(* moving forward, before all entries of the key when moving backwards.        *)
PositionInvariant ==
    it.valid => IF it.direction = kForward THEN Usable(KeyOf(it.iter)) /\ it.saved_key = NoKey
                ELSE Valid(it.iter) => UserKey(KeyOf(it.iter)) < it.saved_key

(* The merged iterator loses no source: forward, every other child is at its   *)
(* first key after the current one; backwards, at its last key before it.      *)
ChildrenInStep ==
    Valid(it.iter) => \A c \in Children \ {it.iter.current} :
        it.iter.at[c] = IF it.iter.direction = kForward THEN ChildNext(source[c], KeyOf(it.iter))
                        ELSE ChildPrev(source[c], KeyOf(it.iter))
=============================================================================
