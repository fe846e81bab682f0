------------------------------ MODULE SnmpWalk ------------------------------
(***************************************************************************)
(* SnmpRequest::snmpWalk (mibBrowser/snmp_request.cpp): GETNEXT after      *)
(* GETNEXT below one OID, on top of the calls SyncCall promises.           *)
(*                                                                         *)
(* An OID is the sequence of its sub-identifiers.  The code compares OIDs  *)
(* as dotted decimal text; StartsWith is what that comparison means.  The  *)
(* agent answers GETNEXT with the successor in its MIB, which may lose or  *)
(* gain an instance during the walk; at the end of its view an SNMPv1      *)
(* agent answers with the error noSuchName, a later one with the same OID  *)
(* and the value endOfMibView.                                             *)
(***************************************************************************)
EXTENDS SyncCall, Sequences, SequencesExt

CONSTANTS Objects,      \* OIDs the agent may serve
          Start,        \* the OID whose subtree is asked for
          Blank,        \* those whose value getParseValue turns into no text
          Versions,     \* values of v1 to consider
          Changing      \* the agent's MIB changes while it is walked

ASSUME SnmpWalkAssumption ==
    /\ Objects \subseteq Seq(Nat) /\ IsFiniteSet(Objects)
    /\ Blank \subseteq Objects
    /\ Start \in Seq(Nat) \ {<<>>}
    /\ Versions \subseteq BOOLEAN /\ Changing \in BOOLEAN

VARIABLES v1,           \* the session speaks SNMPv1
          loc,          \* "loop", "asked", "done" or "thrown"
          currentOid,   \* currentSnmpOid: what the next GETNEXT names
          walked,       \* OIDs whose line was appended to result
          mib,          \* what the agent serves now
          steady        \* history: what it has served since the walk began

wvars == <<phase, n, outcome, v1, loc, currentOid, walked, mib, steady>>

-----------------------------------------------------------------------------
(* Object identifiers and values (snmplib/snmp_api.c, snmp_request.cpp).   *)

\* snmp_oid_compare: a prefix comes first, otherwise the first difference decides.
Precedes(a, b) ==
    \/ IsStrictPrefix(a, b)
    \/ \E i \in 1 .. Len(a) :
         /\ i <= Len(b)
         /\ SubSeq(a, 1, i - 1) = SubSeq(b, 1, i - 1)
         /\ a[i] < b[i]

\* getParseValue has a text for every value but an octet string of length zero
\* and one of a type it does not know, as endOfMibView.
HasText(o) == o \notin Blank

-----------------------------------------------------------------------------
(* The agent (external).                                                   *)

Later(o) == {p \in mib : Precedes(o, p)}

\* Its answer to GETNEXT o; `value' is FALSE if the value has no text.
EndOfMib(o) == [errstat |-> v1, oid |-> o, value |-> FALSE]

GetNext(o) ==
    IF Later(o) = {} THEN EndOfMib(o)
    ELSE LET next == CHOOSE p \in Later(o) : \A q \in Later(o) \ {p} : Precedes(p, q)
         IN  [errstat |-> FALSE, oid |-> next, value |-> HasText(next)]

-----------------------------------------------------------------------------
(* QString::startsWith on dotted decimal texts.                            *)

\* The decimal text of a starts that of b; a sub-identifier has 32 bits, and so
\* up to ten digits.
DigitsStart(a, b) == a = b \/ \E d \in 1 .. 9 : b >= 10 ^ d /\ a = b \div 10 ^ d

\* Mutant: the text comparison read as a comparison of lengths only.
StartsWithAny(oid, prefix) == Len(oid) >= Len(prefix)

StartsWith(oid, prefix) ==
    /\ Len(oid) >= Len(prefix)
    /\ Front(prefix) = SubSeq(oid, 1, Len(prefix) - 1)
    /\ DigitsStart(Last(prefix), oid[Len(prefix)])

-----------------------------------------------------------------------------
WInit ==
    /\ CInit
    /\ v1 \in Versions
    /\ loc = "loop"
    /\ currentOid = Start
    /\ walked = <<>>
    /\ mib \in IF Changing THEN SUBSET Objects ELSE {Objects}
    /\ steady = mib

\* Top of the while loop: a GETNEXT PDU for currentSnmpOid is sent.
Ask ==
    /\ loc = "loop"
    /\ Begin
    /\ loc' = "asked"
    /\ UNCHANGED <<v1, currentOid, walked, mib, steady>>

\* A line is appended only if the value's text is not empty.
Append1(r) == IF r.value THEN Append(walked, r.oid) ELSE walked

\* Mutant: the loop repeats the GETNEXT of the first OID.
ProceedFromStart(r) ==
    \/ /\ r.errstat \/ ~StartsWith(r.oid, Start)
       /\ loc' = "done"
       /\ UNCHANGED <<currentOid, walked>>
    \/ /\ ~r.errstat /\ StartsWith(r.oid, Start)
       /\ loc' = "loop"
       /\ walked' = Append1(r)
       /\ UNCHANGED currentOid

\* Mutant: an answer is compared with the one before it, not with the first OID.
ProceedBelowCurrent(r) ==
    /\ loc' = IF ~r.errstat /\ StartsWith(r.oid, currentOid) THEN "loop" ELSE "done"
    /\ IF loc' = "loop"
       THEN currentOid' = r.oid /\ walked' = Append1(r)
       ELSE UNCHANGED <<currentOid, walked>>

\* STAT_SUCCESS with an answer: noSuchName, an OID equal to the first one or
\* one that does not start with it ends the loop.
Proceed(r) ==
    \/ /\ r.errstat
       /\ loc' = "done"
       /\ UNCHANGED <<currentOid, walked>>
    \/ /\ ~r.errstat /\ r.oid = Start
       /\ loc' = "done"
       /\ currentOid' = r.oid
       /\ walked' = Append1(r)
    \/ /\ ~r.errstat /\ r.oid # Start /\ StartsWith(r.oid, Start)
       /\ loc' = "loop"
       /\ currentOid' = r.oid
       /\ walked' = Append1(r)
    \/ /\ ~r.errstat /\ ~StartsWith(r.oid, Start)
       /\ loc' = "done"
       /\ currentOid' = r.oid
       /\ UNCHANGED walked

Answered ==
    /\ loc = "asked"
    /\ Finish
    /\ outcome'.status = "STAT_SUCCESS"
    /\ Proceed(GetNext(currentOid))
    /\ UNCHANGED <<v1, mib, steady>>

\* Timeout or error: snmpWalk throws, what it gathered is dropped.
WalkThrows ==
    /\ loc = "asked"
    /\ Finish
    /\ outcome'.status # "STAT_SUCCESS"
    /\ loc' = "thrown"
    /\ UNCHANGED <<v1, currentOid, walked, mib, steady>>

\* The agent loses or gains an instance.
Change ==
    /\ Changing
    /\ loc \in {"loop", "asked"}
    /\ \E o \in Objects : mib' = IF o \in mib THEN mib \ {o} ELSE mib \cup {o}
    /\ steady' = steady \cap mib'
    /\ UNCHANGED <<phase, n, outcome, v1, loc, currentOid, walked>>

WNext == Ask \/ Answered \/ WalkThrows \/ Change

WSpec == WInit /\ [][WNext]_wvars /\ WF_wvars(Ask) /\ WF_wvars(Answered \/ WalkThrows)

-----------------------------------------------------------------------------
(* Properties.                                                             *)

Subtree(o) == {p \in Objects : IsStrictPrefix(o, p)}

\* The sibling of Start numbered k.
Sibling(k) == [Start EXCEPT ![Len(Start)] = k]

\* However the MIB changes meanwhile, the lines of a walk come in MIB order and
\* without repetition, although the loop never compares an answer with the one
\* before it, and name instances below the OID asked for, or one of its siblings
\* whose number begins with the same digits or something below that: a text
\* comparison cannot tell these apart, and nothing else gets a line.
WalkInOrder ==
    /\ \A i \in 1 .. Len(walked) :
         \E k \in {walked[i][Len(Start)]} :
            /\ DigitsStart(Last(Start), k) /\ IsPrefix(Sibling(k), walked[i])
            /\ walked[i] \in Objects \ {Start}
    /\ \A i, j \in 1 .. Len(walked) : i < j => Precedes(walked[i], walked[j])

\* A walk that ends normally has a line for every instance that was there all
\* the time and has a text: losing the instance just read does not lose those
\* after it, and one without a text does not end the walk.
WalkComplete ==
    loc = "done" => (Subtree(Start) \cap steady) \ Blank \subseteq ToSet(walked)

\* A walk of an SNMPv1 agent ends, also while instances come and go: every
\* answer names an OID after the one asked for, or is an error.
FirstVersionEnds == v1 => <>(loc \in {"done", "thrown"})

\* snmp_request.cpp:527 takes an answer with the same OID for the end of the
\* MIB and breaks the loop: a walk of an unchanging MIB ends.
WalkEnds == <>(loc \in {"done", "thrown"})

=============================================================================
