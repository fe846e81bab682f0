-------------------------------- MODULE Vacm --------------------------------
(***************************************************************************)
(* The tables of access control (snmplib/vacm.c): the families of subtrees *)
(* that make a view, and the entries that say which view a group of users  *)
(* may use.  Both are changed while the agent runs; here for one view and  *)
(* one group.                                                              *)
(***************************************************************************)
EXTENDS Naturals, Sequences, FiniteSets, SequencesExt

CONSTANTS Families,     \* [subtree, wild: places the mask leaves open, included]
          Accesses,     \* [prefix, exact, model, level]; model AnyModel: any
          AnyModel,
          Subtrees,     \* OIDs that are looked up
          Deepest,      \* OIDs longer than any family, which are looked up too
          Contexts, Models, Levels

ASSUME VacmAssumption ==
    /\ \A f \in Families : f.subtree \in Seq(Nat) /\ f.wild \subseteq DOMAIN f.subtree
    /\ \A a \in Accesses : a.prefix \in Seq(Nat) /\ a.level \in Nat
    /\ Subtrees \subseteq Seq(Nat) /\ Deepest \subseteq Seq(Nat)
    /\ \A o \in Deepest, f \in Families : Len(o) >= Len(f.subtree)
    /\ AnyModel \notin Models

VARIABLES view, access

controlVars == <<view, access>>

ControlInit == view = {} /\ access = {}

\* vacm_createViewEntry; the key is the subtree, whatever its mask.
CreateView(f) ==
    /\ \A g \in view : g.subtree # f.subtree
    /\ view' = view \cup {f}
    /\ UNCHANGED access

\* vacm_destroyViewEntry
DestroyView(f) == f \in view /\ view' = view \ {f} /\ UNCHANGED access

AccessKey(a) == <<a.prefix, a.model, a.level>>

\* vacm_createAccessEntry and vacm_destroyAccessEntry
CreateAccess(a) ==
    /\ \A b \in access : AccessKey(b) # AccessKey(a)
    /\ access' = access \cup {a}
    /\ UNCHANGED view

DestroyAccess(a) == a \in access /\ access' = access \ {a} /\ UNCHANGED view

ControlNext ==
    \/ \E f \in Families : CreateView(f) \/ DestroyView(f)
    \/ \E a \in Accesses : CreateAccess(a) \/ DestroyAccess(a)

ControlSpec == ControlInit /\ [][ControlNext]_controlVars

-----------------------------------------------------------------------------
(* Looking up.                                                             *)

\* snmp_oid_compare
OidLess(a, b) ==
    \/ \E k \in DOMAIN a \cap DOMAIN b :
         a[k] < b[k] /\ \A j \in 1 .. k - 1 : a[j] = b[j]
    \/ Len(a) < Len(b) /\ \A k \in DOMAIN a : a[k] = b[k]

\* A family and an OID agree in all places that both have and the mask tells.
Agrees(f, oid) ==
    \A k \in (DOMAIN f.subtree \cap DOMAIN oid) \ f.wild : f.subtree[k] = oid[k]

Longer(f, g) ==
    Len(f.subtree) > Len(g.subtree)
        \/ (Len(f.subtree) = Len(g.subtree) /\ OidLess(g.subtree, f.subtree))

BestFamily(families) ==
    CHOOSE f \in families : \A g \in families \ {f} : Longer(f, g)

Covering(oid) == {f \in view : Len(f.subtree) <= Len(oid) /\ Agrees(f, oid)}

\* netsnmp_view_get (VACM_MODE_FIND): the family that decides about an OID.
InView(oid) == Covering(oid) # {} /\ BestFamily(Covering(oid)).included

\* Mutant: a family below the subtree is compared only if none covers it.
InsideUncovered(oid) ==
    {f \in view : Covering(oid) = {} /\ Len(f.subtree) > Len(oid) /\ Agrees(f, oid)}

Inside(oid) == {f \in view : Len(f.subtree) > Len(oid) /\ Agrees(f, oid)}

\* netsnmp_view_subtree_check: what is known of everything below an OID.
SubtreeCheck(oid) ==
    LET shorter == Covering(oid)
        longer == {f.included : f \in Inside(oid)}
    IN  IF \/ Cardinality(longer) = 2
           \/ longer # {} /\ longer # {shorter # {} /\ BestFamily(shorter).included}
        THEN "unknown"
        ELSE IF shorter # {} /\ BestFamily(shorter).included THEN "success"
        ELSE "notInView"

\* The entries that match, in the order of accessList.
MatchingEntries(context, model, level) ==
    SetToSortSeq({a \in access :
                     /\ a.model \in {model, AnyModel}
                     /\ level >= a.level
                     /\ IF a.exact THEN a.prefix = context ELSE IsPrefix(a.prefix, context)},
        LAMBDA a, b :
            \/ Len(a.prefix) < Len(b.prefix)
            \/ Len(a.prefix) = Len(b.prefix) /\ OidLess(a.prefix, b.prefix)
            \/ a.prefix = b.prefix /\ a.model = AnyModel /\ b.model # AnyModel
            \/ a.prefix = b.prefix /\ a.model = b.model /\ a.level < b.level)

\* _vacm_choose_best
Better(candidate, current) ==
    \/ current.model = AnyModel /\ candidate.model # AnyModel
    \/ ~current.exact /\ candidate.exact
    \/ ~current.exact /\ Len(current.prefix) < Len(candidate.prefix)
    \/ current.level < candidate.level

\* vacm_getAccessEntry, for requests that some entry matches.
AccessEntry(list) ==
    FoldLeft(LAMBDA best, a : IF Better(a, best) THEN a ELSE best, list[1], Tail(list))

-----------------------------------------------------------------------------
(* Properties.                                                             *)

\* A verdict on a subtree holds for every OID below it, however families of
\* other types, lengths and masks overlap: an agent may skip a subtree by it.
VerdictHolds ==
    \A s \in Subtrees : \A o \in {p \in Deepest : IsPrefix(s, p)} :
        /\ SubtreeCheck(s) = "success" => InView(o)
        /\ SubtreeCheck(s) = "notInView" => ~InView(o)

\* The rules that vacm.c:890-912 gives in the words of RFC 3415: the model of
\* the message is preferred, then an exact context, then the longest prefix,
\* then the highest level.
ByTheRules(entries) ==
    LET Prefer(set, P(_)) == IF \E a \in set : P(a) THEN {a \in set : P(a)} ELSE set
        a == Prefer(entries, LAMBDA e : e.model # AnyModel)
        b == Prefer(a, LAMBDA e : e.exact)
        c == Prefer(b, LAMBDA e : \A f \in b : Len(e.prefix) >= Len(f.prefix))
    IN  Prefer(c, LAMBDA e : \A f \in c : e.level >= f.level)

\* Of the entries that match a message, the one that these rules select is used.
RulesAreFollowed ==
    \A context \in Contexts, model \in Models, level \in Levels :
        LET list == MatchingEntries(context, model, level)
        IN  list # <<>> => AccessEntry(list) \in ByTheRules(ToSet(list))

=============================================================================
