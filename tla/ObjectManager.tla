--------------------------- MODULE ObjectManager ---------------------------
(***************************************************************************)
(* object_manager.c, as far as it is whole at this commit: objects under   *)
(* parents that may not be there yet, their attributes, the writing of the *)
(* manager to a file and the reading of such a file in two passes.  A      *)
(* write is one action for each call on a file and for each record that it *)
(* prints, and the process may end between any two of them; what it leaves *)
(* on disk is there for the next one.                                      *)
(***************************************************************************)
EXTENDS Integers, SequencesExt, FiniteSetsExt

CONSTANTS
    Root, ObjectIds,        \* (type, instance) pairs; Root is (0, 0)
    AttributeIds,
    AttributeValues,        \* [length, data]
    RootsParent,            \* (-1, -1)
    WalkOrders,             \* the orders that the walk of om_objects may have
    FirstFiles,             \* what a file om_<n> may have before the first write
    NamesCanFail,           \* an unlink or a rename may fail
    MaxWrites, MaxCreates,  \* bounds
    NoFile

\* A record of a file, which may have been cut short of one of its numbers.
Records == [acronym : {"OBJ", "AID"}, parent : ObjectIds \cup {RootsParent},
            id : ObjectIds \cup {RootsParent}, aid : AttributeIds \cup {0}, whole : BOOLEAN]

ASSUME ObjectsAssumption == Root \in ObjectIds /\ RootsParent \notin ObjectIds
ASSUME FilesAssumption == FirstFiles \subseteq Seq(Records)
ASSUME WalksAssumption == WalkOrders \subseteq Seq(ObjectIds)
ASSUME NamesAssumption == NamesCanFail \in BOOLEAN

FileNames == {"om", "BACKUP", "BACKUP_tmp"}

VARIABLES
    objects,        \* the objects in om_objects
    objectBlocks,   \* how many blocks for objects and attributes malloc has given
    busy,           \* a manager is in use: "no", "yes", or just "read" from its file
    files,          \* what is on disk
    saving,         \* how far om_write is: see NotSaving
    died,           \* history: the call that ended the last process, or "none"
    asked,          \* history: the parent each object was first created with
    first,          \* history: what the file had at the start
    creates, writes

omVars == <<objects, objectBlocks, busy, files, saving, died, asked, first, creates, writes>>
onDisk == <<files, saving, first, writes>>
inMemory == <<objects, objectBlocks, busy, died, asked, creates>>

\* The call that om_write makes next, the objects that its walk has still to
\* hand out, the attributes of the last one that are not printed yet, and what
\* was printed.
NotSaving == [at |-> "no", todo |-> << >>, aids |-> {}, text |-> << >>]

OMInit == /\ objects = << >>
          /\ objectBlocks = 0
          /\ busy = "no"
          /\ files \in [FileNames -> FirstFiles \cup {NoFile}]
          /\ files["BACKUP"] = NoFile /\ files["BACKUP_tmp"] = NoFile
          /\ saving = NotSaving
          /\ died = "none"
          /\ asked = << >>
          /\ first = files["om"]
          /\ creates = 0 /\ writes = 0

\* A record that is cut: short of a number, or within the last number, which
\* then reads as another one.  No number has that of the root before its end.
Cut(r) == {[r EXCEPT !.whole = FALSE]}
            \cup (IF r.acronym = "OBJ" THEN {[r EXCEPT !.id = o] : o \in ObjectIds \ {Root}}
                  ELSE {[r EXCEPT !.aid = a] : a \in AttributeIds})

\* What of the text is on disk when a process ends that has not closed its
\* file: stdio hands it on whenever its buffer is full.
Flushed(text) ==
    {SubSeq(text, 1, n) : n \in 0 .. Len(text)}
      \cup UNION {{Append(SubSeq(text, 1, n - 1), r) : r \in Cut(text[n])} : n \in 1 .. Len(text)}

\* The process ends, within a call of its own or for some other reason, and
\* another one may be started.
Crash(call) ==
    /\ objects' = << >> /\ objectBlocks' = 0 /\ busy' = "no"
    /\ asked' = << >>
    /\ died' = call
    /\ saving' = NotSaving
    /\ IF saving.at = "print"
       THEN \E left \in Flushed(saving.text) : files' = [files EXCEPT !["om"] = left]
       ELSE UNCHANGED files
    /\ UNCHANGED <<first, creates, writes>>

-----------------------------------------------------------------------------
\* f with the value at key, which it may have or not.
Put(f, key, value) == [k \in DOMAIN f \cup {key} |-> IF k = key THEN value ELSE f[k]]

\* The objects of m, a manager in the making or in use.
om_object_exists(m, o) == o \in DOMAIN m

\* Mutant: the parent is taken to be there.
CreateUnderAny(m, p, o) ==
    Put(m, o, [is_pointer |-> TRUE, parent |-> p, children |-> << >>, attributes |-> << >>])

\* The objects with o among them, as om_object_create_engine leaves them:
\* o is a child of its parent only if the parent is there before it.  An
\* object that is to be its own parent finds itself, as it is in the tree
\* already; the list that it is then added to is initialized afterwards.
om_object_create_engine(m, p, o) ==
    LET new == [is_pointer |-> p = o \/ om_object_exists(m, p), parent |-> p,
                children |-> << >>, attributes |-> << >>]
        above == IF om_object_exists(m, p) THEN [m EXCEPT ![p].children = <<o>> \o @] ELSE m
    IN  Put(above, o, new)

\* The root with no parent: a pointer that is NULL.
RootObject == [is_pointer |-> TRUE, parent |-> RootsParent,
               children |-> << >>, attributes |-> << >>]

\* get_ot_and_oi follows the pointer to the parent, also if it is NULL.
ParentCanBeRead(m, o) == om_object_exists(m, o) /\ o # Root

om_init == /\ busy = "no"
           /\ objects' = Put(<< >>, Root, RootObject)
           /\ objectBlocks' = 1
           /\ busy' = "yes"
           /\ died' = "none"
           /\ asked' = << >>
           /\ UNCHANGED <<onDisk, creates>>

\* The write lock is not given while om_write has the read lock.
CanChange == busy # "no" /\ saving.at = "no"

\* An object that is there is returned, or refused if its parent is another
\* one; to ask for the root is to read the parent it has not.  One that is its
\* own parent is added to a list that is not initialized, which may do.
om_object_create(p, o) ==
    /\ CanChange
    /\ creates < MaxCreates
    /\ IF om_object_exists(objects, o)
       THEN IF ParentCanBeRead(objects, o) THEN UNCHANGED <<inMemory, onDisk>>
            ELSE Crash("om_object_create")
       ELSE \/ /\ objects' = om_object_create_engine(objects, p, o)
               /\ objectBlocks' = objectBlocks + 1
               /\ asked' = Put(asked, o, p)
               /\ busy' = "yes"
               /\ creates' = creates + 1
               /\ UNCHANGED <<onDisk, died>>
            \/ p = o /\ Crash("om_object_create")

\* Memory is short: the engine returns NULL, or one of its assertions fails.
om_object_create_fails ==
    /\ CanChange
    /\ UNCHANGED <<inMemory, onDisk>> \/ Crash("om_object_create")

\* Reads only, but of an object that is there and has a parent; a reader, so
\* that it may run during a write.
om_parent_get(o) ==
    /\ busy # "no"
    /\ IF ParentCanBeRead(objects, o) THEN UNCHANGED <<inMemory, onDisk>>
       ELSE Crash("om_parent_get")

-----------------------------------------------------------------------------
get_attribute_pointer(o, aid) == aid \in DOMAIN objects[o].attributes

\* A value of the same length is written over the old one; any other needs a
\* block, and the old one is freed once there is a new one.
attribute_add_engine(o, aid, value) ==
    /\ objects' = [objects EXCEPT ![o].attributes = Put(@, aid, value)]
    /\ objectBlocks' = objectBlocks + (IF get_attribute_pointer(o, aid) THEN 0 ELSE 1)

om_attribute_add(o, aid, value) ==
    /\ CanChange
    /\ om_object_exists(objects, o)
    /\ attribute_add_engine(o, aid, value)
    /\ busy' = "yes"
    /\ UNCHANGED <<onDisk, died, asked, creates>>

om_attribute_remove(o, aid) ==
    /\ CanChange
    /\ om_object_exists(objects, o)
    /\ get_attribute_pointer(o, aid)
    /\ objects' = [objects EXCEPT ![o].attributes =
                     [a \in DOMAIN @ \ {aid} |-> @[a]]]
    /\ objectBlocks' = objectBlocks - 1
    /\ busy' = "yes"
    /\ UNCHANGED <<onDisk, died, asked, creates>>

-----------------------------------------------------------------------------
\* A name change, which is without effect if there is no such file, or if it
\* fails; nobody looks.
Renamed(from, to) ==
    IF files[from] = NoFile THEN {files}
    ELSE {[files EXCEPT ![to] = files[from], ![from] = NoFile]}
           \cup (IF NamesCanFail THEN {files} ELSE {})

\* om_write takes the read lock and removes the oldest backup,
om_write ==
    /\ CanChange
    /\ writes < MaxWrites
    /\ writes' = writes + 1
    /\ files' \in {[files EXCEPT !["BACKUP_tmp"] = NoFile]}
                   \cup (IF NamesCanFail THEN {files} ELSE {})
    /\ saving' = [saving EXCEPT !.at = "rename_backup"]
    /\ UNCHANGED <<inMemory, first>>

\* Mutant: the older backup is not moved out of the way.
rename_no_backup ==
    /\ saving.at = "rename_backup"
    /\ saving' = [saving EXCEPT !.at = "rename_om"]
    /\ UNCHANGED <<inMemory, files, first, writes>>

\* moves the backup to its place,
rename_backup ==
    /\ saving.at = "rename_backup"
    /\ files' \in Renamed("BACKUP", "BACKUP_tmp")
    /\ saving' = [saving EXCEPT !.at = "rename_om"]
    /\ UNCHANGED <<inMemory, first, writes>>

\* and the file to the backup's,
rename_om ==
    /\ saving.at = "rename_om"
    /\ files' \in Renamed("om", "BACKUP")
    /\ saving' = [saving EXCEPT !.at = "fopen"]
    /\ UNCHANGED <<inMemory, first, writes>>

\* and opens a new one, or returns -1.  The walk starts at the root of the AVL
\* tree, which need not be the root of the objects.
fopen_om ==
    /\ saving.at = "fopen"
    /\ UNCHANGED <<inMemory, first, writes>>
    /\ \/ saving' = NotSaving /\ UNCHANGED files
       \/ \E order \in WalkOrders :
            /\ IsInjective(order) /\ ToSet(order) = DOMAIN objects
            /\ files' = [files EXCEPT !["om"] = << >>]
            /\ saving' = [saving EXCEPT !.at = "print", !.todo = order]

\* An object is printed with its parent, which the root has not.  So every
\* write ends here, and never closes its file or returns 0.
om_write_one_object_tfn ==
    /\ saving.at = "print" /\ saving.aids = {} /\ saving.todo # << >>
    /\ LET o == Head(saving.todo)
           printed == [acronym |-> "OBJ", parent |-> objects[o].parent, id |-> o,
                       aid |-> 0, whole |-> TRUE]
       IN  IF o = Root THEN Crash("om_write")
           ELSE /\ saving' = [saving EXCEPT !.todo = Tail(@), !.text = Append(@, printed),
                                           !.aids = DOMAIN objects[o].attributes]
                /\ UNCHANGED <<inMemory, files, first, writes>>

\* Its attributes are printed in their order; their values are left out.
om_write_one_attribute ==
    /\ saving.at = "print"
    /\ UNCHANGED <<inMemory, files, first, writes>>
    /\ \E a \in saving.aids :
         /\ \A b \in saving.aids : a <= b
         /\ LET printed == [acronym |-> "AID", parent |-> RootsParent, id |-> RootsParent,
                            aid |-> a, whole |-> TRUE]
            IN  saving' = [saving EXCEPT !.text = Append(@, printed), !.aids = @ \ {a}]

-----------------------------------------------------------------------------
\* What a pass over the records of a file has got to: the objects, the one that
\* attributes are for, the parents asked for, and whether it goes on.
Fresh == [m |-> Put(<< >>, Root, RootObject), obj |-> RootsParent, asked |-> << >>, result |-> "ok"]

\* load_object: a record that lacks one of its numbers is no object.
load_object(s, r) ==
    IF ~r.whole \/ r.id = RootsParent THEN [s EXCEPT !.result = "failed"]
    ELSE IF ~om_object_exists(s.m, r.id)
    THEN [s EXCEPT !.m = om_object_create_engine(s.m, r.parent, r.id), !.obj = r.id,
                   !.asked = Put(@, r.id, r.parent)]
    ELSE IF ~ParentCanBeRead(s.m, r.id) THEN [s EXCEPT !.result = "crash"]
    ELSE IF s.m[r.id].parent = r.parent THEN [s EXCEPT !.obj = r.id]
    ELSE [s EXCEPT !.result = "failed"]

\* load_attribute_id: an attribute needs an object before it in the file; it
\* is added by a function that is gone.
load_attribute_id(s, r) ==
    IF ~r.whole \/ s.obj = RootsParent THEN [s EXCEPT !.result = "failed"]
    ELSE [s EXCEPT !.m[s.obj].attributes = Put(@, r.aid, [length |-> 0, data |-> "none"])]

Loaded(s, r) == IF s.result # "ok" THEN s
                ELSE IF r.acronym = "OBJ" THEN load_object(s, r) ELSE load_attribute_id(s, r)

Load(file) ==
    LET after[k \in 0 .. Len(file)] ==
          IF k = 0 THEN Fresh ELSE Loaded(after[k - 1], file[k])
    IN  after[Len(file)]

\* One block for each object and for each attribute of each.
BlocksOf(m) == Cardinality(DOMAIN m)
                 + SumFunction([o \in DOMAIN m |-> Cardinality(DOMAIN m[o].attributes)])

\* The second pass: a parent that is there now becomes a pointer; the parent
\* does not learn of the child.
om_resolve_all_parents(m) ==
    [o \in DOMAIN m |->
        IF om_object_exists(m, m[o].parent) THEN [m[o] EXCEPT !.is_pointer = TRUE] ELSE m[o]]

\* No second pass after a record that failed: the manager has those before it.
\* An object that is its own parent may end the process here, too.
om_read ==
    /\ busy = "no"
    /\ files["om"] # NoFile
    /\ UNCHANGED <<onDisk, creates>>
    /\ LET s == Load(files["om"])
       IN  \/ /\ s.result = "crash" \/ \E o \in DOMAIN s.asked : s.asked[o] = o
              /\ died' = "om_read"
              /\ UNCHANGED <<objects, objectBlocks, busy, asked>>
           \/ /\ s.result # "crash"
              /\ objects' = IF s.result = "ok" THEN om_resolve_all_parents(s.m) ELSE s.m
              /\ objectBlocks' = BlocksOf(s.m)
              /\ asked' = s.asked
              /\ busy' = IF s.result = "ok" THEN "read" ELSE "yes"
              /\ died' = "none"

process_ends == busy # "no" /\ Crash("none")

OMNext == \/ om_init \/ om_read \/ process_ends \/ om_object_create_fails
          \/ om_write \/ rename_backup \/ rename_om \/ fopen_om
          \/ om_write_one_object_tfn \/ om_write_one_attribute
          \/ \E p, o \in ObjectIds : om_object_create(p, o)
          \/ \E o \in ObjectIds :
               \/ om_parent_get(o)
               \/ \E aid \in AttributeIds :
                    \/ om_attribute_remove(o, aid)
                    \/ \E value \in AttributeValues : om_attribute_add(o, aid, value)

-----------------------------------------------------------------------------
OMTypeOK == /\ DOMAIN objects \subseteq ObjectIds
            /\ busy \in {"no", "yes", "read"}
            /\ busy # "no" <=> om_object_exists(objects, Root)
            /\ saving.at \in {"no", "rename_backup", "rename_om", "fopen", "print"}
            /\ saving.at # "no" => busy # "no"
            /\ died # "none" => busy = "no"
            /\ DOMAIN files = FileNames
            /\ DOMAIN asked \subseteq DOMAIN objects

\* Every object but the root has the parent it was first created with, however
\* often it is created again and in whatever order the records of a file come;
\* a pointer is to an object that is there; an object is a child of one other
\* at most, once, and of none but its parent; after a file was read no parent
\* that is there is left without its pointer (object_manager.c:917-922); and
\* the blocks are those of the objects and of their attributes.
ObjectsWellFormed ==
    /\ OMTypeOK
    /\ DOMAIN asked = DOMAIN objects \ {Root}
    /\ \A o \in DOMAIN asked : objects[o].parent = asked[o]
    /\ \A o \in DOMAIN objects \ {Root} :
         objects[o].is_pointer => om_object_exists(objects, objects[o].parent)
    /\ \A p \in DOMAIN objects :
         /\ IsInjective(objects[p].children)
         /\ \A o \in ToSet(objects[p].children) :
              om_object_exists(objects, o) /\ objects[o].parent = p /\ objects[o].is_pointer
    /\ busy = "read" =>
         \A o \in DOMAIN objects \ {Root} :
           om_object_exists(objects, objects[o].parent) => objects[o].is_pointer
    /\ objectBlocks = BlocksOf(objects)

\* What a file had before the first write is still on disk until the third
\* begins, wherever a write or its process ends (object_manager.c:942-946):
\* "does not matter if these fail" (object_manager.c:941) says of the changes of
\* names.  The third write removes it, although none of the first two may have
\* left anything but a part of a file.
FirstFileIsLeft ==
    first # NoFile /\ writes <= 2 => \E n \in FileNames : files[n] = first

\* The same, as long as the names can be changed.
BackupsHold == NamesCanFail \/ FirstFileIsLeft

\* "Writes out the object manager to a file" (object_manager.h:420): no write
\* ends the process.
WritesReturn == died # "om_write"
=============================================================================
