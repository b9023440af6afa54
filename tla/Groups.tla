-------------------------------- MODULE Groups --------------------------------
(***************************************************************************)
(* Group membership with automatic binding: the commands of the groups     *)
(* cluster (tr_groups_server.c) and the bindings made and removed behind   *)
(* them (tr_bind.c), which edit the stack's binding table in place.        *)
(*                                                                         *)
(* That table is two arrays with counters, destinations that refer to      *)
(* sources by index.  The arrays are kept as memory, for the code also     *)
(* looks at entries past the counters.  A counter that wraps is followed   *)
(* by a move of 255 entries over the table: nothing is known of the        *)
(* program from then on.  Binding by the stack itself, and its table of    *)
(* groups, are library code.  Names, responses and the application's       *)
(* callbacks, which refuse nothing, are left out, and so are group ids out *)
(* of range, which are answered and change nothing.                        *)
(***************************************************************************)
EXTENDS Integers, FiniteSets

CONSTANTS
    Endpoints, Clusters, GroupsCluster, Groups, Devices,
    DstSize, SrcSize,      \* entries of the binding table
    MaxMembers             \* ZB_APS_GROUP_TABLE_SIZE

ASSUME GroupsAssumption ==
    /\ GroupsCluster \in Clusters /\ Groups \cap Devices = {}
    /\ DstSize \in 1..254 /\ SrcSize \in 1..254 /\ MaxMembers \in Nat

VARIABLES
    binding,   \* ZG->aps.binding
    members    \* the stack's table of groups

groupsVars == <<binding, members>>

WRAPPED == 255

(* Zeroed memory is no group binding, and no endpoint's.                    *)
Nothing == [to |-> "nothing", src |-> 1]
NoSource == [ep |-> "none", cluster |-> "none"]

Source == [ep : Endpoints, cluster : Clusters]
Destination == [to : Groups \cup Devices, src : 1..SrcSize]

GroupsTypeOK ==
    /\ binding \in [n : (0..DstSize) \cup {WRAPPED},
                    dst : [1..DstSize -> Destination \cup {Nothing}],
                    m : 0..SrcSize, src : [1..SrcSize -> Source \cup {NoSource}]]
    /\ members \subseteq Endpoints \X Groups

GroupsInit ==
    /\ binding = [n |-> 0, dst |-> [i \in 1..DstSize |-> Nothing],
                  m |-> 0, src |-> [i \in 1..SrcSize |-> NoSource]]
    /\ members = {}

Undefined == binding.n = WRAPPED

-----------------------------------------------------------------------------
IsBinding(b, e, ep, g) == e.to = g /\ b.src[e.src].ep = ep

(* tr_bind_check_groups_binding_exists: through whatever cluster.           *)
BindingExists(b, ep, g) == \E i \in 1..b.n : IsBinding(b, b.dst[i], ep, g)

(* zb_apsme_bind_request: nothing happens to a full table.                  *)
Bound(b, s, to) ==
    LET known == {i \in 1..b.m : b.src[i] = s}
        at == IF known = {} THEN b.m + 1 ELSE CHOOSE i \in known : TRUE
        new == [to |-> to, src |-> at]
    IN  IF b.n = DstSize \/ at > SrcSize \/ \E i \in 1..b.n : b.dst[i] = new THEN b
        ELSE [n |-> b.n + 1, dst |-> [b.dst EXCEPT ![b.n + 1] = new],
              m |-> IF at > b.m THEN at ELSE b.m, src |-> [b.src EXCEPT ![at] = s]]

(* A source leaves the table, and the indexes are corrected, that of the    *)
(* first entry even if there is none.                                       *)
WithoutSource(b, s) ==
    [b EXCEPT !.m = b.m - 1,
              !.src = [i \in 1..SrcSize |-> b.src[IF i \in s..(b.m - 1) THEN i + 1 ELSE i]],
              !.dst = [i \in 1..DstSize |->
                          IF (i <= b.n \/ i = 1) /\ b.dst[i].src > s
                          THEN [to |-> b.dst[i].to, src |-> b.dst[i].src - 1] ELSE b.dst[i]]]

(* The entry that comes at place i when only those of a set are kept.       *)
Nth(kept, i) == CHOOSE k \in kept : Cardinality({j \in kept : j <= k}) = i

(* zb_apsme_move_dst_bind_table, once for every entry not kept: the last    *)
(* entry stays behind in each of the places given up.                       *)
Keeping(b, kept) ==
    LET left == Cardinality(kept)
    IN  [b EXCEPT !.n = left,
                  !.dst = [i \in 1..DstSize |->
                              b.dst[IF i <= left THEN Nth(kept, i) ELSE IF i <= b.n THEN b.n ELSE i]]]

Others(b, ep, g) == {i \in 1..b.n : ~IsBinding(b, b.dst[i], ep, g)}

\* Plausible bug: the first entry goes instead of the one found.
WithoutFirst(b, ep, g) ==
    IF ~BindingExists(b, ep, g) THEN b
    ELSE IF b.n = 1 THEN WithoutSource(Keeping(b, {}), b.dst[1].src)
    ELSE Keeping(b, 2..b.n)

\* Plausible bug: the source goes with every binding removed.
WithoutGroupAndSource(b, ep, g) ==
    LET kept == Others(b, ep, g)
    IN  IF kept = 1..b.n THEN b ELSE WithoutSource(Keeping(b, kept), b.dst[b.n].src)

\* Plausible bug: the loop runs over the whole array.
WithoutGroupInMemory(b, ep, g) ==
    LET hits == {i \in 1..DstSize : IsBinding(b, b.dst[i], ep, g)}
    IN  IF Cardinality(hits) > b.n THEN [b EXCEPT !.n = WRAPPED] ELSE Keeping(b, Others(b, ep, g))

(* tr_bind_remove_group_binding: the first entry is looked at even if there *)
(* is none, and the source goes only if no binding at all is left.          *)
WithoutGroup(b, ep, g) ==
    IF b.n = 0 THEN IF IsBinding(b, b.dst[1], ep, g) THEN [b EXCEPT !.n = WRAPPED] ELSE b
    ELSE IF Others(b, ep, g) = {} THEN WithoutSource(Keeping(b, {}), b.dst[b.n].src)
    ELSE Keeping(b, Others(b, ep, g))

(* One turn of the loop of tr_bind_remove_all_groups_bindings: the entry    *)
(* may by now be past the end.                                              *)
WithoutEntry(b, i, ep) ==
    IF b.n # WRAPPED /\ b.dst[i].to \in Groups /\ b.src[b.dst[i].src].ep = ep
    THEN WithoutGroup(b, ep, b.dst[i].to) ELSE b

\* Plausible bug: forwards, while the table shrinks.
WithoutGroupsForwards(b, ep) ==
    LET after[k \in 0..b.n] == IF k = 0 THEN b ELSE WithoutEntry(after[k - 1], k, ep)
    IN  after[b.n]

(* tr_bind_remove_all_groups_bindings, backwards: after k turns.            *)
WithoutGroups(b, ep) ==
    LET after[k \in 0..b.n] == IF k = 0 THEN b ELSE WithoutEntry(after[k - 1], b.n + 1 - k, ep)
    IN  after[b.n]

-----------------------------------------------------------------------------
(* add_group_handler, once the group is to be added.                        *)
AddGroup(ep, g) ==
    /\ ~Undefined
    /\ members' = IF Cardinality(members) < MaxMembers THEN members \cup {<<ep, g>>} ELSE members
    /\ binding' = IF BindingExists(binding, ep, g) THEN binding
                  ELSE Bound(binding, [ep |-> ep, cluster |-> GroupsCluster], g)

(* remove_group_handler: member or not.                                     *)
RemoveGroup(ep, g) ==
    /\ ~Undefined
    /\ members' = members \ {<<ep, g>>}
    /\ binding' = WithoutGroup(binding, ep, g)

(* remove_all_groups_handler                                                *)
RemoveAllGroups(ep) ==
    /\ ~Undefined
    /\ members' = {mm \in members : mm[1] # ep}
    /\ binding' = WithoutGroups(binding, ep)

(* Another device binds and unbinds, by the stack.                          *)
Bind(s, to) ==
    /\ ~Undefined /\ UNCHANGED members
    /\ binding' = Bound(binding, s, to)

Unbind(i) ==
    /\ ~Undefined /\ i <= binding.n /\ UNCHANGED members
    /\ LET s == binding.dst[i].src
           kept == (1..binding.n) \ {i}
           b == Keeping(binding, kept)
       IN  binding' = IF \E k \in kept : binding.dst[k].src = s THEN b ELSE WithoutSource(b, s)

GroupsNext ==
    \/ \E ep \in Endpoints, g \in Groups : AddGroup(ep, g) \/ RemoveGroup(ep, g)
    \/ \E ep \in Endpoints : RemoveAllGroups(ep)
    \/ \E s \in Source, to \in Groups \cup Devices : Bind(s, to)
    \/ \E i \in 1..DstSize : Unbind(i)

GroupsSpec == GroupsInit /\ [][GroupsNext]_groupsVars

-----------------------------------------------------------------------------
(* Whatever is removed, by whom, and in which order, each destination       *)
(* refers to a source in the table, and no source is there twice.           *)
SourcesAreKnown ==
    ~Undefined =>
        /\ \A i \in 1..binding.n : binding.dst[i].src \in 1..binding.m
        /\ \A i, k \in 1..binding.m : binding.src[i] = binding.src[k] => i = k

(* The binding that entry i of a table stands for.                          *)
Entry(b, i) ==
    [ep |-> b.src[b.dst[i].src].ep, cluster |-> b.src[b.dst[i].src].cluster, to |-> b.dst[i].to]

Of(s, to) == [ep |-> s.ep, cluster |-> s.cluster, to |-> to]

BoundNow == {Entry(binding, i) : i \in 1..IF Undefined THEN 0 ELSE binding.n}

Table == INSTANCE Bindings WITH bound <- BoundNow

(* Each operation does to the set what its namesake there does; making a    *)
(* binding may also do nothing.                                             *)
EachAsItsNamesake ==
    /\ \A ep \in Endpoints, g \in Groups :
        /\ AddGroup(ep, g) =>
            Table!Bind(Of([ep |-> ep, cluster |-> GroupsCluster], g)) \/ UNCHANGED BoundNow
        /\ RemoveGroup(ep, g) => Table!RemoveGroup(ep, g)
    /\ \A ep \in Endpoints : RemoveAllGroups(ep) => Table!RemoveAllGroups(ep)
    /\ \A s \in Source, to \in Groups \cup Devices :
        Bind(s, to) => Table!Bind(Of(s, to)) \/ UNCHANGED BoundNow
    /\ \A i \in 1..DstSize : Unbind(i) => Table!Unbind(Entry(binding, i))

(* The arrays are a set of bindings, of which removing a group takes out    *)
(* exactly that group's, removing all of them those of groups, and          *)
(* unbinding the one named, until a counter wraps.                          *)
IsASetOfBindings ==
    /\ Table!Init
    /\ [][Undefined' \/ Table!Next]_BoundNow
    /\ [][UNCHANGED groupsVars \/ Undefined' \/ EachAsItsNamesake]_groupsVars

(* A group joined is bound, unless there is no room for the entry or for    *)
(* its source, and one left is not.                                         *)
BindingFollowsMembership ==
    [][/\ \A mm \in members' \ members :
            \/ binding'.n >= DstSize
            \/ /\ binding'.m >= SrcSize
               /\ \A i \in 1..binding'.m : binding'.src[i] # [ep |-> mm[1], cluster |-> GroupsCluster]
            \/ \E b \in BoundNow' : b.ep = mm[1] /\ b.to = mm[2]
       /\ \A mm \in members \ members' :
            ~\E b \in BoundNow' : b.ep = mm[1] /\ b.to = mm[2]]_groupsVars

(* "returns ZB_TRUE if binding removed, ZB_FALSE if binding does not exist" *)
(* (tr_bind.c:63): a Remove Group without a binding to remove changes       *)
(* nothing.  It does: the entry of the last one removed is still in memory. *)
RemovingNothingChangesNothing ==
    [][\A ep \in Endpoints, g \in Groups :
            RemoveGroup(ep, g) /\ ~BindingExists(binding, ep, g) => UNCHANGED binding]_groupsVars

(* The counter wraps only when there is nothing left to remove: any binding *)
(* to a device keeps the loops inside the table.                            *)
DeviceBindingProtects ==
    [][(\E b \in BoundNow : b.to \in Devices) => ~Undefined']_groupsVars

=============================================================================
