---------------------------- MODULE EventManager ----------------------------
(***************************************************************************)
(* event_manager.c: who is told of which events, of one object type or of  *)
(* all.  The manager is one made without a lock, so that the user's        *)
(* functions, which an announcement calls one after the other, may call    *)
(* the manager again.  Between two steps of an announcement a function of  *)
(* the user's runs, and whatever it calls is a step of its own.            *)
(***************************************************************************)
EXTENDS Integers, SequencesExt, FiniteSetsExt

CONSTANTS
    Types,          \* object types that have registrants of their own
    Registrants,    \* function and argument pairs, both as addresses
    IntSpan,        \* how many values an int has: 2^32 in the code
    MaxDepth        \* bound: announcements inside one another

ASSUME TypesAssumption == Types \subseteq Nat \ {0} /\ IsFiniteSet(Types)
ASSUME RegistrantsAssumption == Registrants \subseteq [f : Nat, arg : Nat]
ASSUME BoundsAssumption == IntSpan \in Nat \ {0} /\ MaxDepth \in Nat

ALL_OBJECT_TYPES == 0    \* and ROOT_OBJECT_TYPE
Kinds == {"object", "attribute"}
Specific == Kinds \X Types
Lists == Specific \cup (Kinds \X {ALL_OBJECT_TYPES})

VARIABLES
    lists,                     \* the registrants of each list, as they are linked
    containers,                \* the specific lists that the two indexes have
    should_not_be_modified,
    blocks,                    \* how many pairs and containers malloc has given
    stack,                     \* the announcements in progress, the innermost last
    nested,                    \* history: while they were, one inside them has returned
    fate                       \* "disturbed" and "crashed" end the program

eventVars == <<lists, containers, should_not_be_modified, blocks, stack, nested, fate>>
registrations == <<lists, containers, blocks>>
progress == <<should_not_be_modified, stack, nested>>

EventInit == /\ lists = [l \in Lists |-> << >>]
             /\ containers = {}
             /\ should_not_be_modified = FALSE
             /\ blocks = 0
             /\ stack = << >>
             /\ nested = FALSE
             /\ fate = "running"

-----------------------------------------------------------------------------
\* A difference of two addresses, as much of it as an int holds
AsInt(difference) ==
    LET low == difference % IntSpan
    IN  IF 2 * low >= IntSpan THEN low - IntSpan ELSE low

\* Mutant: the arguments are left out of the comparison.
CompareFunctionsOnly(p, q) == AsInt(p.f - q.f)

\* The functions come first, and the arguments if those are the same.
compare_f_and_args(p, q) ==
    IF AsInt(p.f - q.f) # 0 THEN AsInt(p.f - q.f) ELSE AsInt(p.arg - q.arg)

\* The place in a list at which a walk for r stops: the first pair that does
\* not come before r.
StopFor(l, r) ==
    LET at == SelectInSeq(lists[l], LAMBDA q : compare_f_and_args(q, r) >= 0)
    IN  IF at = 0 THEN Len(lists[l]) + 1 ELSE at

\* ordered_list_search with the pair as key
Present(l, r) == /\ StopFor(l, r) <= Len(lists[l])
                 /\ compare_f_and_args(lists[l][StopFor(l, r)], r) = 0

\* get_relevant_structures finds it without creating it.
Exists(l) == l[2] = ALL_OBJECT_TYPES \/ l \in containers

already_registered(l, r) == Exists(l) /\ Present(l, r)

\* A function of the user's runs, or the user calls from outside of any.
UserRuns == stack # << >> => Last(stack).at > 0

\* The lists that an announcement walks: that of all types, then that of the
\* event's own type, as far as there is one.
Walk(frame, part) ==
    LET l == <<frame.kind, IF part = "all" THEN ALL_OBJECT_TYPES ELSE frame.type>>
    IN  IF frame.kind \in Kinds /\ Exists(l) THEN lists[l] ELSE << >>

\* Changing the list that an announcement is in is where the code's behaviour
\* is no longer defined: an insertion may be told or not, a removal overwrites a
\* node and frees the next one.
AfterChange ==
    LET Walked(i) == Walk(stack[i], stack[i].part)
    IN  fate' = IF \E i \in DOMAIN stack : Walked(i)' # Walked(i)
                THEN "disturbed" ELSE "running"

\* Mutant: the flag is not looked at.
CanAlwaysBeModified == TRUE

CanBeModified == ~should_not_be_modified

-----------------------------------------------------------------------------
\* Only a specific list has a container, and one that it has is found.
create_f_and_arg_container(l) == {l} \cap Specific

\* thread_unsafe_generic_register_function, registering: a container is made
\* first where there is none, and stays if the pair then cannot be had.
RegisterNew(l, r) ==
    /\ ~already_registered(l, r)
    /\ lists' = [lists EXCEPT ![l] = InsertAt(@, StopFor(l, r), r)]
    /\ containers' = containers \cup create_f_and_arg_container(l)
    /\ blocks' = blocks + 1 + Cardinality(containers' \ containers)

\* Mutant: a pair that could not be added is not freed.
RegisterPresentLeaks(l, r) ==
    /\ already_registered(l, r)
    /\ blocks' = blocks + 1
    /\ UNCHANGED <<lists, containers>>

\* EEXIST, and the pair made for the insertion is freed.
RegisterPresent(l, r) ==
    /\ already_registered(l, r)
    /\ UNCHANGED registrations

\* ENOMEM: nothing could be had, or the container and not the pair or its node.
RegisterFails(l, r) ==
    /\ containers' \in {containers, containers \cup create_f_and_arg_container(l)}
    /\ blocks' = blocks + Cardinality(containers' \ containers)
    /\ UNCHANGED lists

register(l, r) ==
    /\ UserRuns /\ CanBeModified
    /\ RegisterNew(l, r) \/ RegisterPresent(l, r) \/ RegisterFails(l, r)
    /\ UNCHANGED progress
    /\ AfterChange

\* The containers without that of l, which the index then finds no more.
destroy_f_and_arg_container(l) == containers \ {l}

\* Mutant: the container of an empty list is kept.
UnRegisterKeeps(l, r) ==
    /\ UserRuns /\ CanBeModified
    /\ Exists(l)
    /\ lists' = [lists EXCEPT ![l] = IF Present(l, r) THEN RemoveAt(@, StopFor(l, r)) ELSE @]
    /\ blocks' = blocks - (IF Present(l, r) THEN 1 ELSE 0)
    /\ UNCHANGED <<containers, progress>>
    /\ AfterChange

\* Un-registering: a list left without pairs takes its container with it.
un_register(l, r) ==
    /\ UserRuns /\ CanBeModified
    /\ Exists(l)
    /\ lists' = [lists EXCEPT ![l] = IF Present(l, r) THEN RemoveAt(@, StopFor(l, r)) ELSE @]
    /\ containers' = IF lists'[l] = << >> THEN destroy_f_and_arg_container(l) ELSE containers
    /\ blocks' = blocks - (IF Present(l, r) THEN 1 ELSE 0)
                        - Cardinality(containers \ containers')
    /\ UNCHANGED progress
    /\ AfterChange

register_for_object_events(type, r) == register(<<"object", type>>, r)
register_for_attribute_events(type, r) == register(<<"attribute", type>>, r)
un_register_from_object_events(type, r) == un_register(<<"object", type>>, r)
un_register_from_attribute_events(type, r) == un_register(<<"attribute", type>>, r)

-----------------------------------------------------------------------------
\* announce_event, up to its first list.  The event may be of no known kind,
\* and of type 0, that of the root object, which also means all types.  It owes
\* a call to whom a list has when it comes to it; history: whom both lists had
\* when it began.
announce_event(kind, type) ==
    LET event == [kind |-> kind, type |-> type]
    IN  /\ UserRuns /\ Len(stack) < MaxDepth
        /\ should_not_be_modified' = TRUE
        /\ stack' = Append(stack, [kind |-> kind, type |-> type, part |-> "all", at |-> 0,
                                   told |-> << >>, owed |-> Walk(event, "all"),
                                   began |-> Walk(event, "all") \o Walk(event, "one")])
        /\ UNCHANGED <<registrations, nested, fate>>

AtEnd(frame) == frame.at = Len(Walk(frame, frame.part))

\* Mutant: the walk goes on to the next pair of the list before it calls.
NotifyAfterNext ==
    /\ stack # << >> /\ ~AtEnd(Last(stack))
    /\ LET f == Last(stack)
           list == Walk(f, f.part)
       IN  stack' = [stack EXCEPT ![Len(stack)].at = @ + 1,
                                  ![Len(stack)].told =
                                    IF f.at + 2 > Len(list) THEN @ ELSE Append(@, list[f.at + 2])]
    /\ UNCHANGED <<registrations, should_not_be_modified, nested, fate>>

\* notify_all_registrants: the function of the next pair is called.
NotifyNext ==
    /\ stack # << >> /\ ~AtEnd(Last(stack))
    /\ LET f == Last(stack)
       IN  stack' = [stack EXCEPT ![Len(stack)].at = @ + 1,
                                  ![Len(stack)].told = Append(@, Walk(f, f.part)[f.at + 1])]
    /\ UNCHANGED <<registrations, should_not_be_modified, nested, fate>>

NotifyOneType ==
    /\ stack # << >> /\ AtEnd(Last(stack)) /\ Last(stack).part = "all"
    /\ stack' = [stack EXCEPT ![Len(stack)].part = "one", ![Len(stack)].at = 0,
                              ![Len(stack)].owed = @ \o Walk(Last(stack), "one")]
    /\ UNCHANGED <<registrations, should_not_be_modified, nested, fate>>

\* The announcement returns and clears the flag, also when another one, whose
\* function made it, is still on its way.
AnnouncementEnds ==
    /\ stack # << >> /\ AtEnd(Last(stack)) /\ Last(stack).part = "one"
    /\ stack' = Front(stack)
    /\ should_not_be_modified' = FALSE
    /\ nested' = (Len(stack) > 1)
    /\ UNCHANGED <<registrations, fate>>

\* What the destruction of every list frees.
PairsIn(ls) == SumFunction([l \in Lists |-> Len(ls[l])])

\* event_manager_destroy, and an initialisation anew.  For each container the
\* index calls destroy_f_and_arg_container with the container as the manager
\* and NULL as the container, whose list is then read.
event_manager_destroy ==
    /\ stack = << >>
    /\ IF containers = {}
       THEN /\ lists' = [l \in Lists |-> << >>]
            /\ blocks' = blocks - PairsIn(lists)
            /\ UNCHANGED fate
       ELSE fate' = "crashed" /\ UNCHANGED <<lists, blocks>>
    /\ UNCHANGED <<containers, progress>>

EventNext == /\ fate = "running"
             /\ \/ \E type \in Types \cup {ALL_OBJECT_TYPES}, r \in Registrants :
                     \/ register_for_object_events(type, r)
                     \/ register_for_attribute_events(type, r)
                     \/ un_register_from_object_events(type, r)
                     \/ un_register_from_attribute_events(type, r)
                \/ \E kind \in Kinds \cup {"neither"}, type \in Types \cup {ALL_OBJECT_TYPES} :
                     announce_event(kind, type)
                \/ NotifyNext \/ NotifyOneType \/ AnnouncementEnds
                \/ event_manager_destroy

EventSpec == EventInit /\ [][EventNext]_eventVars

-----------------------------------------------------------------------------
Frames == [kind : Kinds \cup {"neither"}, type : Types \cup {ALL_OBJECT_TYPES},
           part : {"all", "one"}, at : Nat,
           told : Seq(Registrants), owed : Seq(Registrants), began : Seq(Registrants)]

EventTypeOK == /\ lists \in [Lists -> Seq(Registrants)]
               /\ containers \subseteq Specific
               /\ should_not_be_modified \in BOOLEAN
               /\ blocks \in Int
               /\ stack \in Seq(Frames)
               /\ nested \in BOOLEAN
               /\ fate \in {"running", "disturbed", "crashed"}

\* "uniquely add it to the list" (event_manager.c:325): a list has a pair once.
RegisteredOnce == \A l \in Lists : IsInjective(lists[l])

\* A search, which stops at the first pair that does not come before, finds
\* what is registered and nothing else, also after removals, and a list has a
\* pair once: so long as the comparison, cut down to an int, is an order of the
\* pairs.
RegistrationsExact ==
    /\ \A l \in Lists, r \in Registrants : already_registered(l, r) <=> r \in ToSet(lists[l])
    /\ RegisteredOnce

\* Whichever registrations failed half way, and wherever a pair was put: only a
\* list that has a container has pairs, and the memory is that of the pairs and
\* the containers.
BlocksExact ==
    /\ EventTypeOK
    /\ \A l \in Lists : lists[l] # << >> => Exists(l)
    /\ blocks = PairsIn(lists) + Cardinality(containers)

\* "lock the lists against any changes which the callback functions may
\* attempt" (event_manager.c:387): nothing changes a list under a walk, but
\* for one way.  An announcement made by a function of the user's clears the
\* flag when it returns, and the next such function may register.
WalksAreSafe == fate = "disturbed" => nested

\* An announcement that comes to its end has told, in order and nobody else,
\* every pair that was in the list of all types when it came to that, and then
\* every pair in the list of its own type when it came to that, once for each
\* registration (a pair of all types twice if the event is the root's), also
\* when it was made inside another one; and unless one inside has returned and
\* cleared the flag, those are the pairs that were registered when it began.
ToldAll == [][Len(stack') < Len(stack) =>
                /\ Last(stack).told = Last(stack).owed
                /\ nested \/ Last(stack).told = Last(stack).began]_eventVars

\* An empty list keeps its container only if a registration failed
\* (event_manager.c:355 "get rid of the container object too").
NoEmptyContainers ==
    [][\A l \in containers' :
         (lists'[l] = << >> /\ (l \notin containers \/ lists[l] # << >>))
           => \E r \in Registrants : RegisterFails(l, r)]_eventVars
=============================================================================
