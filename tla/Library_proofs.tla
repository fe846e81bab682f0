-------------------------- MODULE Library_proofs ----------------------------
(***************************************************************************)
(* Proofs about three parts of the library, each for every value of its    *)
(* constants: the persistent files, the callbacks of an event, and the     *)
(* messages cut out of a stream.                                           *)
(***************************************************************************)
EXTENDS PersistentStore, Callbacks, StreamBuffer, Induction

-----------------------------------------------------------------------------
(* The persistent files.                                                   *)

\* What a start reads is a function of the file and of the backups.
ReadFrom(m, b) ==
    LET count == Cardinality({j \in Slots : \A k \in 0 .. j : b[k].exists})
    IN  [n \in 1 .. count + 1 |-> IF n <= count THEN b[n - 1] ELSE m]

BootsIn(read) ==
    LET written == {n \in DOMAIN read : read[n].boots # 0}
    IN  IF written = {} THEN 0 ELSE read[Max(written)].boots

EngineIn(read) == \E n \in DOMAIN read : read[n].engine

NextBootsOf(read) == IF EngineIn(read) /\ BootsIn(read) # 0 THEN BootsIn(read) + 1 ELSE 1

-----------------------------------------------------------------------------
(* The inductive invariant.                                                *)

File == [exists : BOOLEAN, boots : Nat, engine : BOOLEAN, users : SUBSET Users]

History == [served : Nat, serving : BOOLEAN, spoilt : BOOLEAN,
            whole : BOOLEAN, tidy : BOOLEAN, unsure : BOOLEAN, reread : BOOLEAN,
            stores : Nat, refused : Nat, crashes : Nat]

StoreTypeOK ==
    /\ main \in File
    /\ backup \in [Slots -> File]
    /\ pc \in Locations /\ cleaned \in Nat
    /\ stopping \in BOOLEAN /\ needed \in BOOLEAN /\ oldEngineID \in BOOLEAN
    /\ boots \in Nat /\ users \in SUBSET Users
    /\ history \in History

\* The lines of a store that are in the file, if every one of them was written.
LinesWritten ==
    history.whole =>
        /\ pc \in {"boots", "engine", "users", "clean", "serve"} => main.exists
        /\ pc \in {"engine", "users", "clean"} => main.boots = boots
        /\ pc \in {"users", "clean", "serve"} => main.engine
        /\ pc = "clean" => users \subseteq main.users

\* Refused lines and renames are noted.
InOneStore ==
    ~history.unsure =>
        (pc \in {"header", "boots", "engine", "users", "clean", "serve"} => history.whole)

\* What a store that begins a new file and removes every backup leaves behind.
TidyStore ==
    /\ ~main.exists => main.users = {}
    /\ pc # "clean" => cleaned = 0
    /\ history.tidy =>
         /\ pc \in {"header", "boots", "engine", "users"} => main.users = {}
         /\ history.whole /\ pc = "clean" =>
              main.users = users /\ \A j \in Slots : j < cleaned => ~backup[j].exists
         /\ history.whole /\ pc = "serve" =>
              /\ \A j \in Slots : ~backup[j].exists
              /\ ~needed => main.users = users

\* The engineBoots that the next start has to exceed.
LastBoots == IF history.serving THEN boots ELSE history.served

BootsGrow ==
    /\ pc # "down" => boots > 0
    /\ history.serving => pc # "down"
    /\ ~history.spoilt =>
         /\ pc # "down" => boots > history.served
         /\ pc # "down" /\ ~oldEngineID => history.served = 0
         /\ ~history.unsure /\ pc = "serve" =>
              main.boots > history.served /\ (~history.reread => main.boots = boots)
         /\ /\ ~history.unsure /\ ~history.reread
            /\ pc \in {"down", "save", "header", "boots", "engine", "users"}
            => NextBoots > LastBoots

StoreInv == StoreTypeOK /\ LinesWritten /\ InOneStore /\ TidyStore /\ BootsGrow

-----------------------------------------------------------------------------
(* Lemmas about what a start reads.                                        *)

\* The number of backups, without the rest of the assumption.
LEMMA SlotsNat == Backups \in Nat
BY PersistentStoreAssumption

\* Max and Min are what their names say.
LEMMA MaxIs ==
    ASSUME NEW n \in Nat, NEW T, T \subseteq 0 .. n, T # {}
    PROVE  Max(T) \in T /\ \A k \in T : k <= Max(T)
<1>1. PICK m \in T : \A k \in T : k <= m
  BY GreatestOf
<1>2. \A k \in T : k \in Nat
  OBVIOUS
<1>3. m \in T /\ \A k \in T : m >= k
  BY <1>1, <1>2
<1>4. Max(T) \in T /\ \A k \in T : Max(T) >= k
  BY <1>3 DEF Max
<1> QED  BY <1>2, <1>4

\* The operator Min of a set of slots.
LEMMA MinIs ==
    ASSUME NEW T, T \subseteq Nat, T # {}
    PROVE  Min(T) \in T /\ \A k \in T : Min(T) <= k
<1>1. PICK m \in T : \A k \in T : m <= k
  BY LeastOf
<1>2. Min(T) \in T /\ \A k \in T : Min(T) <= k
  BY <1>1 DEF Min
<1> QED  BY <1>2

\* c backups are read, up to the first that is missing.
ReadsFirst(b, c) ==
    /\ \A k \in 0 .. c - 1 : b[k].exists
    /\ c <= Backups => ~b[c].exists

\* Up to some slot all backups exist, and that one does not.
LEMMA FirstMissing ==
    ASSUME NEW b
    PROVE  \E c \in 0 .. Backups + 1 : ReadsFirst(b, c)
<1> DEFINE T == {k \in Nat : k = Backups + 1 \/ (k \in Slots /\ ~b[k].exists)}
<1>1. Backups + 1 \in T /\ T \subseteq Nat /\ Backups \in Nat
  BY SlotsNat
<1> HIDE DEF T
<1>2. PICK c \in T : \A k \in T : c <= k
  BY <1>1, LeastOf
<1> USE DEF T
<1>3. c \in 0 .. Backups + 1
  BY <1>1, <1>2 DEF Slots
<1>4. \A k \in 0 .. c - 1 : b[k].exists
  BY <1>1, <1>2, <1>3 DEF Slots
<1>5. c <= Backups => ~b[c].exists
  BY <1>1, <1>2, <1>3 DEF Slots
<1> QED  BY <1>3, <1>4, <1>5 DEF ReadsFirst

\* What is read are the backups before the first missing one, then the file.
LEMMA ReadIs ==
    ASSUME NEW m, NEW b, NEW c \in 0 .. Backups + 1, ReadsFirst(b, c)
    PROVE  ReadFrom(m, b) = [n \in 1 .. c + 1 |-> IF n <= c THEN b[n - 1] ELSE m]
<1> DEFINE T == {j \in Slots : \A k \in 0 .. j : b[k].exists}
<1>1. Backups \in Nat /\ c \in Nat
  BY SlotsNat
<1>2. T = 0 .. c - 1
  <2>1. ASSUME NEW j \in 0 .. c - 1  PROVE j \in T
    <3>1. j \in Slots
      BY <1>1 DEF Slots
    <3>2. \A k \in 0 .. j : k \in 0 .. c - 1
      BY <1>1
    <3> QED  BY <3>1, <3>2 DEF ReadsFirst
  <2>2. ASSUME NEW j \in T  PROVE j \in 0 .. c - 1
    <3>1. j \in Nat /\ j <= Backups /\ \A k \in 0 .. j : b[k].exists
      BY <1>1 DEF Slots
    <3>2. ~(c <= j)
      BY <1>1, <3>1 DEF ReadsFirst
    <3> QED  BY <1>1, <3>1, <3>2
  <2> QED  BY <2>1, <2>2
<1>3. Cardinality(T) = c
  <2> HIDE DEF T
  <2>1. Cardinality(0 .. c - 1) = IF 0 > c - 1 THEN 0 ELSE (c - 1) - 0 + 1
    BY <1>1, FS_Interval
  <2> QED  BY <1>1, <1>2, <2>1
<1> QED  BY <1>3 DEF ReadFrom

\* The engineBoots of the last file that has some.
LEMMA BootsInIs ==
    ASSUME NEW c \in Nat, NEW read \in [1 .. c + 1 -> File]
    PROVE  /\ BootsIn(read) \in Nat
           /\ read[c + 1].boots # 0 => BootsIn(read) = read[c + 1].boots
           /\ (\A n \in 1 .. c + 1 : read[n].boots = 0) => BootsIn(read) = 0
           /\ \A n \in 1 .. c + 1 :
                /\ read[n].boots # 0
                /\ \A k \in 1 .. c + 1 : k > n => read[k].boots = 0
                => BootsIn(read) = read[n].boots
<1> DEFINE T == {n \in 1 .. c + 1 : read[n].boots # 0}
<1>1. BootsIn(read) = IF T = {} THEN 0 ELSE read[Max(T)].boots
  <2>1. DOMAIN read = 1 .. c + 1
    OBVIOUS
  <2> QED  BY <2>1 DEF BootsIn
<1>2. T # {} => Max(T) \in T /\ \A k \in T : k <= Max(T)
  <2>1. T \subseteq 0 .. c + 1 /\ c + 1 \in Nat
    OBVIOUS
  <2> HIDE DEF T
  <2> QED  BY <2>1, MaxIs
<1>3. \A n \in 1 .. c + 1 : read[n].boots \in Nat
  BY DEF File
<1>4. BootsIn(read) \in Nat
  BY <1>1, <1>2, <1>3
<1>5. ASSUME NEW n \in 1 .. c + 1, read[n].boots # 0,
             \A k \in 1 .. c + 1 : k > n => read[k].boots = 0
      PROVE  BootsIn(read) = read[n].boots
  <2>1. n \in T
    BY <1>5
  <2>2. Max(T) \in T /\ n <= Max(T)
    BY <1>2, <2>1
  <2>3. ~(Max(T) > n)
    BY <1>5, <2>2
  <2>4. Max(T) = n
    BY <2>2, <2>3
  <2> QED  BY <1>1, <2>1, <2>4
<1>6. (\A n \in 1 .. c + 1 : read[n].boots = 0) => BootsIn(read) = 0
  BY <1>1
<1>7. read[c + 1].boots # 0 => BootsIn(read) = read[c + 1].boots
  <2>1. c + 1 \in 1 .. c + 1 /\ \A k \in 1 .. c + 1 : ~(k > c + 1)
    OBVIOUS
  <2> QED  BY <1>5, <2>1
<1> QED  BY <1>4, <1>5, <1>6, <1>7

\* A file with engineBoots and the engineID decides, whatever the backups say.
LEMMA FileDecides ==
    ASSUME NEW m \in File, NEW b \in [Slots -> File], m.boots # 0
    PROVE  /\ BootsIn(ReadFrom(m, b)) = m.boots
           /\ m.engine => NextBootsOf(ReadFrom(m, b)) = m.boots + 1
<1>1. PICK c \in 0 .. Backups + 1 : ReadsFirst(b, c)
  BY FirstMissing
<1> DEFINE read == ReadFrom(m, b)
<1>2. /\ c \in Nat /\ Backups \in Nat /\ c <= Backups + 1
      /\ read = [n \in 1 .. c + 1 |-> IF n <= c THEN b[n - 1] ELSE m]
  BY <1>1, ReadIs, SlotsNat
<1> HIDE DEF read
<1>3. read \in [1 .. c + 1 -> File] /\ read[c + 1] = m /\ c + 1 \in DOMAIN read
  BY <1>2 DEF Slots
<1>4. BootsIn(read) = m.boots
  BY <1>2, <1>3, BootsInIs
<1>5. m.engine => EngineIn(read)
  BY <1>3 DEF EngineIn
<1> QED  BY <1>4, <1>5 DEF NextBootsOf, read

\* The engineBoots of the files, and so the next ones,
LEMMA BootsTyped ==
    ASSUME NEW m \in File, NEW b \in [Slots -> File]
    PROVE  BootsIn(ReadFrom(m, b)) \in Nat
<1>1. PICK c \in 0 .. Backups + 1 : ReadsFirst(b, c)
  BY FirstMissing
<1> DEFINE read == ReadFrom(m, b)
<1>2. /\ c \in Nat /\ Backups \in Nat /\ c <= Backups + 1
      /\ read = [n \in 1 .. c + 1 |-> IF n <= c THEN b[n - 1] ELSE m]
  BY <1>1, ReadIs, SlotsNat
<1> HIDE DEF read
<1>3. read \in [1 .. c + 1 -> File]
  BY <1>2 DEF Slots
<1>4. BootsIn(read) \in Nat
  BY <1>2, <1>3, BootsInIs
<1> QED  BY <1>4 DEF read

\* are positive.
LEMMA NextBootsPositive ==
    ASSUME NEW m \in File, NEW b \in [Slots -> File]
    PROVE  NextBootsOf(ReadFrom(m, b)) \in Nat \ {0}
BY BootsTyped DEF NextBootsOf

\* A line more in the file: never less of the engineID, and the same engineBoots
\* or those of the line.
LEMMA LineMore ==
    ASSUME NEW m \in File, NEW more \in File, NEW b \in [Slots -> File],
           m.engine => more.engine
    PROVE  /\ more.boots = m.boots =>
                NextBootsOf(ReadFrom(more, b)) >= NextBootsOf(ReadFrom(m, b))
           /\ more.boots # 0 => \/ NextBootsOf(ReadFrom(more, b)) = more.boots + 1
                                \/ NextBootsOf(ReadFrom(m, b)) = 1
<1>1. PICK c \in 0 .. Backups + 1 : ReadsFirst(b, c)
  BY FirstMissing
<1> DEFINE old == ReadFrom(m, b)
           new == ReadFrom(more, b)
<1>2. /\ c \in Nat /\ Backups \in Nat /\ c <= Backups + 1
      /\ old = [n \in 1 .. c + 1 |-> IF n <= c THEN b[n - 1] ELSE m]
      /\ new = [n \in 1 .. c + 1 |-> IF n <= c THEN b[n - 1] ELSE more]
  BY <1>1, ReadIs, SlotsNat
<1>3. NextBootsOf(old) \in Nat \ {0} /\ NextBootsOf(new) \in Nat \ {0}
  BY NextBootsPositive
<1>4. more.boots # 0 => BootsIn(new) = more.boots
  BY FileDecides
<1> HIDE DEF old, new
<1>5. /\ old \in [1 .. c + 1 -> File] /\ new \in [1 .. c + 1 -> File]
      /\ old[c + 1] = m /\ new[c + 1] = more
      /\ \A n \in 1 .. c + 1 : n # c + 1 => new[n] = old[n]
      /\ DOMAIN old = 1 .. c + 1 /\ DOMAIN new = 1 .. c + 1
  BY <1>2 DEF Slots
<1>6. EngineIn(old) => EngineIn(new)
  BY <1>5 DEF EngineIn
<1>7. more.boots = m.boots => BootsIn(new) = BootsIn(old)
  <2> SUFFICES ASSUME more.boots = m.boots  PROVE BootsIn(new) = BootsIn(old)
    OBVIOUS
  <2>1. \A n \in 1 .. c + 1 : new[n].boots = old[n].boots
    BY <1>5
  <2> DEFINE T(read) == {n \in 1 .. c + 1 : read[n].boots # 0}
  <2>2. T(new) = T(old)
    BY <2>1
  <2>3. /\ BootsIn(new) = IF T(new) = {} THEN 0 ELSE new[Max(T(new))].boots
        /\ BootsIn(old) = IF T(old) = {} THEN 0 ELSE old[Max(T(old))].boots
    BY <1>5 DEF BootsIn
  <2>4. T(old) # {} => Max(T(old)) \in 1 .. c + 1
    <3>1. T(old) \subseteq 0 .. c + 1 /\ c + 1 \in Nat
      BY <1>2
    <3>2. T(old) # {} => Max(T(old)) \in T(old)
      <4> HIDE DEF T
      <4> QED  BY <3>1, MaxIs
    <3> QED  BY <3>2
  <2> HIDE DEF T
  <2> QED  BY <2>1, <2>2, <2>3, <2>4
<1>8. more.boots = m.boots => NextBootsOf(new) >= NextBootsOf(old)
  <2>1. BootsIn(old) \in Nat
    BY <1>2, <1>5, BootsInIs
  <2> QED  BY <1>6, <1>7, <2>1 DEF NextBootsOf
<1>9. more.boots # 0 => NextBootsOf(new) = more.boots + 1 \/ NextBootsOf(old) = 1
  BY <1>4, <1>6 DEF NextBootsOf
<1> QED  BY <1>8, <1>9 DEF old, new

\* The file becomes the first backup that is missing: with none behind that a start
\* reads the same.
LEMMA Moved ==
    ASSUME NEW m \in File, NEW b \in [Slots -> File], m.exists,
           NEW c \in Slots, ~b[c].exists, \A k \in Slots : ~b[k].exists => c <= k,
           \A k \in Slots : k > c => ~b[k].exists
    PROVE  NextBootsOf(ReadFrom(Absent, [b EXCEPT ![c] = m])) = NextBootsOf(ReadFrom(m, b))
<1> DEFINE moved == [b EXCEPT ![c] = m]
           old == ReadFrom(m, b)
           new == ReadFrom(Absent, moved)
<1>1. c \in Nat /\ Backups \in Nat /\ c <= Backups /\ \A k \in Slots : k \in Nat
  BY SlotsNat DEF Slots
<1>2. /\ moved \in [Slots -> File] /\ moved[c] = m
      /\ \A k \in Slots : k # c => moved[k] = b[k]
  OBVIOUS
<1>3. Absent \in File /\ Absent.boots = 0 /\ ~Absent.exists /\ ~Absent.engine
  BY DEF Absent, File
<1> HIDE DEF moved
<1>6. ReadsFirst(b, c)
  BY <1>1 DEF ReadsFirst, Slots
<1>7. ReadsFirst(moved, c + 1)
  <2>1. \A k \in 0 .. c : k \in Slots
    BY <1>1 DEF Slots
  <2>2. \A k \in 0 .. c : moved[k].exists
    BY <1>1, <1>2, <2>1
  <2>3. c + 1 <= Backups => c + 1 \in Slots /\ c + 1 > c
    BY <1>1 DEF Slots
  <2>4. c + 1 <= Backups => ~moved[c + 1].exists
    BY <1>1, <1>2, <2>3
  <2> QED  BY <1>1, <2>2, <2>4 DEF ReadsFirst
<1>8. /\ old = [n \in 1 .. c + 1 |-> IF n <= c THEN b[n - 1] ELSE m]
      /\ new = [n \in 1 .. (c + 1) + 1 |-> IF n <= c + 1 THEN moved[n - 1] ELSE Absent]
  <2>1. c \in 0 .. Backups + 1 /\ c + 1 \in 0 .. Backups + 1
    BY <1>1
  <2> QED  BY <1>6, <1>7, <2>1, ReadIs
<1> HIDE DEF old, new
<1>9. /\ old \in [1 .. c + 1 -> File] /\ new \in [1 .. (c + 1) + 1 -> File]
      /\ new[c + 2] = Absent /\ \A n \in 1 .. c + 1 : new[n] = old[n]
      /\ DOMAIN old = 1 .. c + 1 /\ DOMAIN new = 1 .. (c + 1) + 1
  <2>1. \A n \in 1 .. c + 1 : n - 1 \in Slots /\ (n # c + 1 => n - 1 # c)
    BY <1>1 DEF Slots
  <2>2. \A n \in 1 .. c + 1 : old[n] \in File
    BY <1>1, <1>8, <2>1
  <2>3. \A n \in 1 .. c + 1 : new[n] = old[n]
    BY <1>1, <1>2, <1>8, <2>1
  <2>4. new[c + 2] = Absent
    BY <1>1, <1>8
  <2>5. \A n \in 1 .. (c + 1) + 1 : n \in 1 .. c + 1 \/ n = c + 2
    BY <1>1
  <2>6. \A n \in 1 .. (c + 1) + 1 : new[n] \in File
    BY <1>3, <2>2, <2>3, <2>4, <2>5
  <2> QED  BY <1>8, <2>2, <2>3, <2>4, <2>6
<1>10. \A n \in 1 .. (c + 1) + 1 : n \in 1 .. c + 1 \/ n = c + 2
  BY <1>1
<1>11. EngineIn(new) <=> EngineIn(old)
  <2>1. \A n \in 1 .. c + 1 : n \in 1 .. (c + 1) + 1
    BY <1>1
  <2> QED  BY <1>3, <1>9, <1>10, <2>1 DEF EngineIn
<1>12. BootsIn(new) = BootsIn(old)
  <2> DEFINE T == {n \in 1 .. c + 1 : old[n].boots # 0}
  <2>1. {n \in DOMAIN new : new[n].boots # 0} = T
    <3>1. \A n \in 1 .. c + 1 : n \in 1 .. (c + 1) + 1
      BY <1>1
    <3> QED  BY <1>3, <1>9, <1>10, <3>1
  <2>2. {n \in DOMAIN old : old[n].boots # 0} = T
    BY <1>9
  <2>3. T # {} => Max(T) \in 1 .. c + 1
    <3>1. T \subseteq 0 .. c + 1 /\ c + 1 \in Nat
      BY <1>1
    <3>2. T # {} => Max(T) \in T
      <4> HIDE DEF T
      <4> QED  BY <3>1, MaxIs
    <3> QED  BY <3>2
  <2> HIDE DEF T
  <2> QED  BY <1>9, <2>1, <2>2, <2>3 DEF BootsIn
<1>13. NextBootsOf(new) = NextBootsOf(old)
  BY <1>11, <1>12 DEF NextBootsOf
<1> QED  BY <1>13 DEF moved, old, new

\* What the next start reads is typed.
LEMMA ReadTyped ==
    ASSUME NEW m \in File, NEW b \in [Slots -> File]
    PROVE  \A n \in DOMAIN ReadFrom(m, b) : ReadFrom(m, b)[n] \in File
<1>1. PICK c \in 0 .. Backups + 1 : ReadsFirst(b, c)
  BY FirstMissing
<1>2. /\ c \in Nat /\ Backups \in Nat /\ c <= Backups + 1
      /\ ReadFrom(m, b) = [n \in 1 .. c + 1 |-> IF n <= c THEN b[n - 1] ELSE m]
  BY <1>1, ReadIs, SlotsNat
<1>3. \A n \in 1 .. c + 1 : n <= c => n - 1 \in Slots
  BY <1>2 DEF Slots
<1> QED  BY <1>2, <1>3

\* The operators of the model are those functions of the present files,
LEMMA ReadNow ==
    /\ Read = ReadFrom(main, backup) /\ NextBoots = NextBootsOf(ReadFrom(main, backup))
    /\ BootsRead = BootsIn(ReadFrom(main, backup))
BY DEF Read, ReadFrom, NextBoots, NextBootsOf, EngineRead, EngineIn, BootsRead, BootsIn

\* and those of the next ones.
LEMMA ReadThen ==
    /\ Read' = ReadFrom(main', backup') /\ NextBoots' = NextBootsOf(ReadFrom(main', backup'))
    /\ BootsRead' = BootsIn(ReadFrom(main', backup'))
BY DEF Read, ReadFrom, NextBoots, NextBootsOf, EngineRead, EngineIn, BootsRead, BootsIn

\* Without backups only the file is read.
LEMMA FileAlone ==
    ASSUME \A j \in Slots : ~backup[j].exists
    PROVE  UsersRead = main.users
<1>1. Backups \in Nat /\ 0 \in Slots
  BY SlotsNat DEF Slots
<1>2. PICK c \in 0 .. Backups + 1 : ReadsFirst(backup, c)
  BY FirstMissing
<1>3. Read = [n \in 1 .. c + 1 |-> IF n <= c THEN backup[n - 1] ELSE main]
  BY <1>2, ReadIs, ReadNow
<1>4. c = 0
  BY <1>1, <1>2 DEF ReadsFirst
<1>5. DOMAIN Read = {1} /\ Read[1] = main
  BY <1>3, <1>4
<1> QED  BY <1>5 DEF UsersRead

-----------------------------------------------------------------------------
(* The invariant holds at first and is preserved by every action.          *)

\* A machine without files satisfies the invariant.
LEMMA StoreInitInv == StoreInit => StoreInv
<1> SUFFICES ASSUME StoreInit  PROVE StoreInv
  OBVIOUS
<1> USE DEF StoreInit
<1>1. Absent \in File
  BY DEF Absent, File
<1>2. StoreTypeOK
  BY <1>1 DEF History, StoreTypeOK, Locations
<1>3. NextBoots > LastBoots /\ main.users = {}
  <2>1. NextBootsOf(ReadFrom(main, backup)) \in Nat \ {0}
    BY <1>2, NextBootsPositive DEF StoreTypeOK
  <2> QED  BY <2>1, ReadNow DEF LastBoots, Absent
<1>4. LinesWritten /\ InOneStore /\ TidyStore /\ BootsGrow
  BY <1>3 DEF LinesWritten, InOneStore, TidyStore, BootsGrow
<1> QED  BY <1>2, <1>4 DEF StoreInv

\* A step between two places of the program that disturbs no file.
LEMMA FilesStay ==
    ASSUME StoreInv, UNCHANGED <<main, backup>>
    PROVE  /\ NextBoots' = NextBoots /\ NextBoots \in Nat \ {0}
           /\ UsersRead \in SUBSET Users /\ EngineRead \in BOOLEAN /\ BootsRead \in Nat
           /\ ~EngineRead => NextBoots = 1
<1>1. NextBoots \in Nat \ {0}
  BY NextBootsPositive, ReadNow DEF History, StoreInv, StoreTypeOK
<1>2. NextBoots' = NextBoots
  BY ReadNow, ReadThen
<1>3. UsersRead \in SUBSET Users
  <2>1. \A n \in DOMAIN Read : Read[n] \in File
    BY ReadTyped, ReadNow DEF History, StoreInv, StoreTypeOK
  <2> QED  BY <2>1 DEF UsersRead, File
<1>4. BootsRead \in Nat
  BY BootsTyped, ReadNow DEF StoreInv, StoreTypeOK
<1>5. EngineRead \in BOOLEAN /\ (~EngineRead => NextBoots = 1)
  BY DEF EngineRead, NextBoots
<1> QED  BY <1>1, <1>2, <1>3, <1>4, <1>5

\* A start reads more than was ever served, and stores it before it serves.
LEMMA StepStart ==
    ASSUME StoreInv, Start
    PROVE  StoreInv'
<1>1. /\ NextBoots' = NextBoots /\ NextBoots \in Nat \ {0}
      /\ UsersRead \in SUBSET Users /\ EngineRead \in BOOLEAN
      /\ ~EngineRead => NextBoots = 1
      /\ boots' = NextBoots /\ users' = UsersRead /\ oldEngineID' = EngineRead
  BY FilesStay DEF Start, FilesRead
<1>2. StoreTypeOK'
  BY <1>1 DEF History, StoreInv, StoreTypeOK, Start, Locations
<1>3. LinesWritten'
  BY DEF StoreInv, LinesWritten, Start
<1>4. TidyStore'
  BY DEF StoreInv, TidyStore, Start, History, StoreTypeOK
<1>5. InOneStore'
  BY <1>1 DEF InOneStore, Start
<1>6. ~history.serving /\ LastBoots = history.served
  BY DEF StoreInv, BootsGrow, Start, LastBoots
<1>7. ~history'.serving /\ LastBoots' = history'.served /\ history'.served = history.served
  BY <1>6 DEF History, StoreInv, StoreTypeOK, LastBoots, Start
<1>8. ~history'.spoilt => NextBoots > history.served
  BY <1>6 DEF History, StoreInv, StoreTypeOK, BootsGrow, Start
<1>9. BootsGrow'
  BY <1>1, <1>7, <1>8 DEF History, StoreInv, StoreTypeOK, BootsGrow, Start
<1> QED  BY <1>2, <1>3, <1>4, <1>5, <1>9 DEF StoreInv

\* While it serves, nothing is written; a store begins with the renaming.
LEMMA StepServe ==
    ASSUME StoreInv, ChangeUsers \/ StoreIfNeeded \/ Shutdown
    PROVE  StoreInv'
<1>1. /\ NextBoots' = NextBoots /\ NextBoots \in Nat \ {0}
      /\ pc = "serve" /\ pc' \in {"serve", "save"}
      /\ UNCHANGED <<main, backup, cleaned, boots, oldEngineID, history>>
      /\ users' \in SUBSET Users /\ needed' \in BOOLEAN /\ stopping' \in BOOLEAN
      /\ needed' \/ pc' = "save"
  BY FilesStay DEF ChangeUsers, StoreIfNeeded, Shutdown, StoreInv, StoreTypeOK
<1>2. StoreTypeOK'
  BY <1>1 DEF History, StoreInv, StoreTypeOK, Locations
<1>3. LinesWritten'
  BY <1>1 DEF StoreInv, LinesWritten
<1>4. InOneStore' /\ TidyStore'
  BY <1>1 DEF StoreInv, LinesWritten, InOneStore, TidyStore
<1>5. ~history.unsure /\ ~history.spoilt /\ ~history.reread => NextBoots > LastBoots
  <2> SUFFICES ASSUME ~history.unsure, ~history.spoilt, ~history.reread
               PROVE  NextBoots > LastBoots
    OBVIOUS
  <2>1. main.boots = boots /\ boots > history.served /\ boots > 0 /\ main.engine
    BY <1>1 DEF StoreInv, BootsGrow, InOneStore, LinesWritten
  <2>2. NextBoots = boots + 1
    BY <2>1, FileDecides, ReadNow DEF History, StoreInv, StoreTypeOK
  <2> QED  BY <2>1, <2>2 DEF LastBoots, History, StoreInv, StoreTypeOK
<1>6. LastBoots' = LastBoots
  BY <1>1 DEF LastBoots
<1>7. BootsGrow'
  BY <1>1, <1>5, <1>6 DEF StoreInv, BootsGrow
<1> QED  BY <1>2, <1>3, <1>4, <1>7 DEF StoreInv

\* SIGHUP counts engineBoots on and marks them as not stored.
LEMMA StepReconfigure ==
    ASSUME StoreInv, Reconfigure
    PROVE  StoreInv'
<1>1. /\ UsersRead \in SUBSET Users /\ BootsRead \in Nat
      /\ pc = "serve" /\ UNCHANGED <<main, backup, pc, cleaned, stopping, oldEngineID, needed>>
      /\ users' = users \cup UsersRead
      /\ boots' = IF ~oldEngineID THEN 1 ELSE IF BootsRead = 0 THEN boots ELSE BootsRead + 1
      /\ boots \in Nat \ {0}
  BY FilesStay DEF Reconfigure, StoreInv, StoreTypeOK, BootsGrow
<1>2. /\ history' \in History
      /\ history'.served = history.served /\ history'.serving = history.serving
      /\ history'.whole = history.whole /\ history'.tidy = history.tidy
      /\ history'.unsure = history.unsure /\ history'.reread
      /\ ~history'.spoilt => ~history.spoilt /\ ~history.unsure
  BY DEF History, StoreInv, StoreTypeOK, Reconfigure
<1>3. StoreTypeOK' /\ boots' > 0
  BY <1>1, <1>2 DEF StoreInv, StoreTypeOK
<1>4. LinesWritten' /\ InOneStore'
  BY <1>1, <1>2 DEF StoreInv, LinesWritten, InOneStore
\* With no backup it reads again the users it has.
<1>5. TidyStore'
  <2>1. (\A j \in Slots : ~backup[j].exists) /\ main.users = users => users' = users
    BY <1>1, FileAlone
  <2> QED  BY <1>1, <1>2, <2>1 DEF StoreInv, TidyStore
<1>6. ~history'.spoilt =>
        /\ main.boots > history.served /\ main.boots # 0
        /\ ~oldEngineID => history.served = 0
  BY <1>1, <1>2 DEF History, StoreInv, StoreTypeOK, BootsGrow, File
<1>7. ~history'.spoilt => boots' > history.served
  <2>1. main.boots # 0 => BootsRead = main.boots
    BY FileDecides, ReadNow DEF StoreInv, StoreTypeOK
  <2>2. main.boots \in Nat /\ history.served \in Nat
    BY DEF StoreInv, StoreTypeOK, File, History
  <2> QED  BY <1>1, <1>6, <2>1, <2>2
<1>8. BootsGrow'
  BY <1>1, <1>2, <1>3, <1>6, <1>7 DEF StoreInv, BootsGrow
<1> QED  BY <1>3, <1>4, <1>5, <1>8 DEF StoreInv

\* A store under way: from here on the next start would exceed the last engineBoots.
LEMMA NextExceeds ==
    ASSUME StoreInv, ~history.spoilt, ~history.unsure, ~history.reread
    PROVE  NextBoots > LastBoots
<1>1. CASE pc \in {"clean", "serve"}
  <2>1. main.boots = boots /\ boots > history.served /\ boots > 0 /\ main.engine
    BY <1>1 DEF StoreInv, BootsGrow, InOneStore, LinesWritten
  <2>2. NextBoots = boots + 1
    BY <2>1, FileDecides, ReadNow DEF History, StoreInv, StoreTypeOK
  <2> QED  BY <2>1, <2>2 DEF LastBoots, History, StoreInv, StoreTypeOK
<1>2. CASE pc \notin {"clean", "serve"}
  BY <1>2 DEF History, StoreInv, StoreTypeOK, Locations, BootsGrow
<1> QED  BY <1>1, <1>2

\* A crash leaves the files as they are.
LEMMA StepCrash ==
    ASSUME StoreInv, Crash
    PROVE  StoreInv'
<1>1. NextBoots' = NextBoots
  BY FilesStay DEF Crash
<1>2. StoreTypeOK'
  <2>1. history \in History /\ boots \in Nat
    BY DEF History, StoreInv, StoreTypeOK
  <2>2. history.crashes + 1 \in Nat /\ (IF history.serving THEN boots ELSE history.served) \in Nat
    BY <2>1 DEF History
  <2>3. history' = [served |-> IF history.serving THEN boots ELSE history.served,
                    serving |-> FALSE, spoilt |-> history.spoilt, whole |-> history.whole,
                    tidy |-> history.tidy, unsure |-> history.unsure,
                    reread |-> history.reread, stores |-> history.stores,
                    refused |-> history.refused, crashes |-> history.crashes + 1]
    BY <2>1 DEF Crash, History
  <2>4. history' \in History
    BY <2>1, <2>2, <2>3 DEF History
  <2> QED  BY <2>4 DEF History, StoreInv, StoreTypeOK, Crash, Locations
<1>3. LinesWritten' /\ InOneStore' /\ TidyStore'
  BY DEF Crash, LinesWritten, InOneStore, TidyStore, StoreInv
<1>4. /\ LastBoots' = LastBoots /\ ~history'.serving /\ pc' = "down"
      /\ history'.spoilt = history.spoilt /\ history'.unsure = history.unsure
      /\ history'.reread = history.reread
  BY DEF History, StoreInv, StoreTypeOK, Crash, LastBoots
<1>5. BootsGrow'
  BY <1>1, <1>4, NextExceeds DEF BootsGrow
<1> QED  BY <1>2, <1>3, <1>5 DEF StoreInv

\* The file becomes the first free backup: what is read stays the same, or it is
\* known to have come before an older one.
LEMMA StepRename ==
    ASSUME StoreInv, Rename
    PROVE  StoreInv'
<1> DEFINE free == {j \in Slots : ~backup[j].exists}
<1>1. /\ main \in File /\ backup \in [Slots -> File] /\ Absent \in File
      /\ pc = "save" /\ pc' = "header"
      /\ UNCHANGED <<cleaned, stopping, boots, users, oldEngineID, needed>>
      /\ boots > 0 /\ NextBoots \in Nat \ {0}
  <2>1. NextBoots \in Nat \ {0}
    BY NextBootsPositive, ReadNow DEF History, StoreInv, StoreTypeOK
  <2> QED  BY <2>1 DEF History, StoreInv, StoreTypeOK, Rename, BootsGrow, Absent, File
<1>2. PICK refused \in {0, 1}, wrong \in BOOLEAN :
        /\ Storing(refused, wrong)
        /\ \/ UNCHANGED <<main, backup>>
           \/ /\ main.exists /\ free # {}
              /\ backup' = [backup EXCEPT ![Min(free)] = main]
              /\ main' = Absent
              /\ ~wrong => \A j \in Slots : j > Min(free) => ~backup[j].exists
           \/ wrong /\ main' \in {Absent, main} /\ UNCHANGED backup
  <2> DEFINE behind == \E j \in Slots : j > Min(free) /\ backup[j].exists
  <2>1. CASE Storing(0, FALSE) /\ UNCHANGED <<main, backup>>
    BY <2>1
  <2>2. CASE /\ main.exists /\ free # {}
             /\ backup' = [backup EXCEPT ![Min(free)] = main] /\ main' = Absent
             /\ Storing(0, behind)
    <3>1. behind \in BOOLEAN
      OBVIOUS
    <3>2. ~behind => \A j \in Slots : j > Min(free) => ~backup[j].exists
      OBVIOUS
    <3> HIDE DEF behind, free
    <3> QED  BY <2>2, <3>1, <3>2
  <2>3. CASE Storing(1, TRUE) /\ main' \in {Absent, main} /\ UNCHANGED backup
    BY <2>3
  <2> QED  BY <2>1, <2>2, <2>3 DEF Rename
<1>3. free # {} => /\ Min(free) \in Slots /\ ~backup[Min(free)].exists
                   /\ \A k \in Slots : ~backup[k].exists => Min(free) <= k
  <2>1. free \subseteq Nat
    BY DEF Slots
  <2> HIDE DEF free
  <2>2. free # {} => Min(free) \in free /\ \A k \in free : Min(free) <= k
    BY <2>1, MinIs
  <2> QED  BY <2>2 DEF free
<1>4. main' \in File /\ backup' \in [Slots -> File]
  BY <1>1, <1>2, <1>3
<1>5. StoreTypeOK'
  <2>1. history \in History
    BY DEF History, StoreInv, StoreTypeOK
  <2>2. history' = [served |-> history.served, serving |-> history.serving,
                    spoilt |-> history.spoilt, whole |-> TRUE, tidy |-> ~main'.exists,
                    unsure |-> history.unsure \/ wrong, reread |-> history.reread,
                    stores |-> history.stores + 1, refused |-> history.refused + refused,
                    crashes |-> history.crashes]
    BY <1>2, <2>1 DEF Storing, History
  <2>3. history' \in History
    BY <1>4, <2>1, <2>2 DEF History, File
  <2> QED  BY <1>1, <1>4, <2>3 DEF History, StoreInv, StoreTypeOK, Locations
<1>6. LinesWritten'
  BY <1>1 DEF LinesWritten
\* With none behind it the file is the last of the backups.
<1>7. ~wrong => NextBoots' = NextBoots
  <2>1. CASE UNCHANGED <<main, backup>>
    BY <2>1, ReadNow, ReadThen
  <2>2. CASE /\ main.exists /\ free # {} /\ main' = Absent
             /\ backup' = [backup EXCEPT ![Min(free)] = main]
             /\ ~wrong => \A j \in Slots : j > Min(free) => ~backup[j].exists
    <3> HIDE DEF free
    <3>1. ~wrong =>
            NextBootsOf(ReadFrom(main', backup')) = NextBootsOf(ReadFrom(main, backup))
      BY <1>1, <1>3, <2>2, Moved
    <3> QED  BY <3>1, ReadNow, ReadThen
  <2> QED  BY <1>2, <2>1, <2>2
<1>8. /\ history'.served = history.served /\ history'.serving = history.serving
      /\ history'.spoilt = history.spoilt /\ history'.reread = history.reread
      /\ history'.whole /\ history'.tidy = ~main'.exists
      /\ ~history'.unsure => ~history.unsure /\ ~wrong
  BY <1>2 DEF Storing, History, StoreInv, StoreTypeOK
<1>9. LastBoots' = LastBoots
  BY <1>1, <1>8 DEF LastBoots
<1>10. InOneStore'
  BY <1>1, <1>8 DEF InOneStore
<1>11. TidyStore'
  <2>1. ~main'.exists => main'.users = {}
    BY <1>2 DEF StoreInv, TidyStore, Absent
  <2> QED  BY <1>1, <1>8, <2>1 DEF StoreInv, TidyStore
<1>12. BootsGrow'
  <2>1. ~history'.spoilt /\ ~history'.unsure /\ ~history'.reread => NextBoots' > LastBoots'
    BY <1>1, <1>7, <1>8, <1>9 DEF StoreInv, BootsGrow
  <2> QED  BY <1>1, <1>8, <2>1 DEF StoreInv, BootsGrow
<1> QED  BY <1>5, <1>6, <1>10, <1>11, <1>12 DEF StoreInv

\* A line is appended, or is not and the store is not whole.
LEMMA StepLine ==
    ASSUME StoreInv, NEW more \in File,
           NEW next \in {"boots", "engine", "users", "clean"},
           Append1(more, next),
           pc \in {"header", "boots", "engine", "users"},
           main.engine => more.engine,
           more.boots = main.boots \/ more.boots = boots,
           history.whole /\ main' = more => LinesWritten',
           more.exists, next # "clean" => more.users = main.users,
           next = "clean" => pc = "users" /\ more.users = main.users \cup users
    PROVE  StoreInv'
<1>1. /\ main \in File /\ main' \in File /\ backup \in [Slots -> File] /\ pc' = next
      /\ UNCHANGED <<backup, cleaned, stopping, boots, users, oldEngineID, needed>>
      /\ boots > 0 /\ boots \in Nat /\ users \in SUBSET Users
      /\ history.served \in Nat
  BY DEF History, StoreInv, StoreTypeOK, Append1, BootsGrow
<1>2. /\ history' \in History
      /\ history'.served = history.served /\ history'.serving = history.serving
      /\ history'.spoilt = history.spoilt /\ history'.reread = history.reread
      /\ history'.tidy = history.tidy
      /\ \/ main' = more /\ history' = history
         \/ main' = main /\ ~history'.whole /\ history'.unsure
  <2>1. history \in History
    BY DEF StoreInv, StoreTypeOK
  <2>2. CASE main' = more /\ UNCHANGED history
    BY <2>1, <2>2
  <2>3. CASE /\ history' = [history EXCEPT !.refused = @ + 1, !.whole = FALSE,
                                           !.unsure = TRUE]
             /\ UNCHANGED main
    <3>1. history' = [served |-> history.served, serving |-> history.serving,
                      spoilt |-> history.spoilt, whole |-> FALSE, tidy |-> history.tidy,
                      unsure |-> TRUE, reread |-> history.reread,
                      stores |-> history.stores, refused |-> history.refused + 1,
                      crashes |-> history.crashes]
      BY <2>1, <2>3 DEF History
    <3>2. history' \in History
      BY <2>1, <3>1 DEF History
    <3> QED  BY <2>3, <3>1, <3>2
  <2> QED  BY <2>2, <2>3 DEF Append1
<1>3. StoreTypeOK'
  BY <1>1, <1>2 DEF History, StoreInv, StoreTypeOK, Locations
<1>4. LinesWritten'
  BY <1>2 DEF LinesWritten
<1>5. TidyStore'
  <2>1. cleaned = 0 /\ \A j \in Slots : ~(j < 0)
    BY DEF StoreInv, TidyStore, Slots
  <2> QED  BY <1>1, <1>2, <2>1 DEF StoreInv, TidyStore
<1>6. InOneStore'
  BY <1>1, <1>2 DEF StoreInv, InOneStore
<1>7. LastBoots' = LastBoots /\ LastBoots \in Nat
  BY <1>1, <1>2 DEF LastBoots
<1>8. NextBoots \in Nat \ {0} /\ NextBoots' \in Nat \ {0}
  BY <1>1, NextBootsPositive, ReadNow, ReadThen
<1>9. ASSUME ~history'.spoilt, ~history'.unsure, ~history'.reread
      PROVE  NextBoots' > LastBoots'
  <2>1. main' = more /\ NextBoots > LastBoots /\ boots > history.served
    BY <1>2, <1>9 DEF StoreInv, BootsGrow
  <2>2. CASE more.boots = main.boots
    <3>1. NextBoots' >= NextBoots
      BY <1>1, <2>1, <2>2, LineMore, ReadNow, ReadThen
    <3> QED  BY <1>7, <1>8, <2>1, <3>1
  <2>3. CASE more.boots = boots
    <3>1. NextBoots' = boots + 1 \/ NextBoots = 1
      BY <1>1, <2>1, <2>3, LineMore, ReadNow, ReadThen
    <3>2. boots >= LastBoots
      BY <1>1, <2>1 DEF LastBoots
    <3> QED  BY <1>1, <1>7, <1>8, <2>1, <3>1, <3>2
  <2> QED  BY <2>2, <2>3
<1>10. BootsGrow'
  BY <1>1, <1>2, <1>9 DEF StoreInv, BootsGrow
<1> QED  BY <1>3, <1>4, <1>5, <1>6, <1>10 DEF StoreInv

\* Each line that is written is read back, behind the backups.
LEMMA StepLines ==
    ASSUME StoreInv, StoreHeader \/ StoreBoots \/ StoreEngine \/ StoreUsers
    PROVE  StoreInv'
<1>1. /\ main \in File /\ boots \in Nat /\ users \in SUBSET Users
      /\ main = [exists |-> main.exists, boots |-> main.boots, engine |-> main.engine,
                 users |-> main.users]
      /\ LinesWritten
  BY DEF StoreInv, StoreTypeOK, File
<1> USE DEF Appended
<1>2. CASE StoreHeader
  <2> DEFINE more == [exists |-> TRUE, boots |-> main.boots, engine |-> main.engine,
                      users |-> main.users]
  <2>1. Append1(more, "boots") /\ more \in File /\ pc = "header" /\ pc' = "boots"
    BY <1>1, <1>2 DEF StoreHeader, Append1, File
  <2>2. history.whole /\ main' = more => LinesWritten'
    BY <2>1 DEF LinesWritten
  <2>3. /\ (main.engine => more.engine) /\ more.boots = main.boots
        /\ more.exists /\ more.users = main.users
    OBVIOUS
  <2> HIDE DEF more
  <2> QED  BY <2>1, <2>2, <2>3, StepLine
<1>3. CASE StoreBoots
  <2> DEFINE more == [exists |-> TRUE, boots |-> boots, engine |-> main.engine,
                      users |-> main.users]
  <2>1. /\ Append1(more, "engine") /\ more \in File /\ pc = "boots" /\ pc' = "engine"
        /\ boots' = boots
    BY <1>1, <1>3 DEF StoreBoots, Append1, File
  <2>2. history.whole /\ main' = more => LinesWritten'
    BY <2>1 DEF LinesWritten
  <2>3. /\ (main.engine => more.engine) /\ more.boots = boots
        /\ more.exists /\ more.users = main.users
    OBVIOUS
  <2> HIDE DEF more
  <2> QED  BY <2>1, <2>2, <2>3, StepLine
<1>4. CASE StoreEngine
  <2> DEFINE more == [exists |-> TRUE, boots |-> main.boots, engine |-> TRUE,
                      users |-> main.users]
  <2>1. /\ Append1(more, "users") /\ more \in File /\ pc = "engine" /\ pc' = "users"
        /\ boots' = boots
    BY <1>1, <1>4 DEF StoreEngine, Append1, File
  <2>2. history.whole /\ main' = more => LinesWritten'
    BY <1>1, <2>1 DEF LinesWritten
  <2>3. /\ (main.engine => more.engine) /\ more.boots = main.boots
        /\ more.exists /\ more.users = main.users
    OBVIOUS
  <2> HIDE DEF more
  <2> QED  BY <2>1, <2>2, <2>3, StepLine
<1>5. CASE StoreUsers
  <2> DEFINE more == [exists |-> TRUE, boots |-> main.boots, engine |-> main.engine,
                      users |-> main.users \cup users]
  <2>1. /\ Append1(more, "clean") /\ more \in File /\ pc = "users" /\ pc' = "clean"
        /\ boots' = boots /\ users' = users
    BY <1>1, <1>5 DEF StoreUsers, Append1, File
  <2>2. history.whole /\ main' = more => LinesWritten'
    BY <1>1, <2>1 DEF LinesWritten
  <2>3. /\ (main.engine => more.engine) /\ more.boots = main.boots
        /\ more.exists /\ more.users = main.users \cup users
    OBVIOUS
  <2> HIDE DEF more
  <2> QED  BY <2>1, <2>2, <2>3, StepLine
<1> QED  BY <1>2, <1>3, <1>4, <1>5

\* Once the file is whole a backup less changes nothing that is read from it, and a
\* refused removal is noted.
LEMMA StepUnlink ==
    ASSUME StoreInv, Unlink
    PROVE  StoreInv'
<1> DEFINE first == Min(Remaining)
<1>1. /\ pc = "clean" /\ Remaining # {} /\ main.exists
      /\ UNCHANGED <<main, pc, stopping, boots, users, oldEngineID, needed>>
      /\ cleaned' = first + 1
      /\ \/ backup' = [backup EXCEPT ![first] = Absent] /\ history' = history
         \/ backup' = backup /\ ~history'.tidy
      /\ Absent \in File
  BY DEF Unlink, Remaining, Absent, File, StoreInv, StoreTypeOK, History
<1>2. /\ history' \in History
      /\ history'.served = history.served /\ history'.serving = history.serving
      /\ history'.spoilt = history.spoilt /\ history'.whole = history.whole
      /\ history'.unsure = history.unsure /\ history'.reread = history.reread
  <2>1. history \in History
    BY DEF StoreInv, StoreTypeOK
  <2>2. CASE UNCHANGED history
    BY <2>1, <2>2
  <2>3. CASE history' = [history EXCEPT !.refused = @ + 1, !.tidy = FALSE]
    <3>1. history' = [served |-> history.served, serving |-> history.serving,
                      spoilt |-> history.spoilt, whole |-> history.whole, tidy |-> FALSE,
                      unsure |-> history.unsure, reread |-> history.reread,
                      stores |-> history.stores, refused |-> history.refused + 1,
                      crashes |-> history.crashes]
      BY <2>1, <2>3 DEF History
    <3>2. history' \in History
      BY <2>1, <3>1 DEF History
    <3> QED  BY <3>1, <3>2
  <2> QED  BY <2>2, <2>3 DEF Unlink
<1>3. first \in Slots /\ first \in Nat /\ \A k \in Remaining : first <= k
  <2>1. Remaining \subseteq Slots /\ Remaining \subseteq Nat
    BY DEF Remaining, Slots
  <2>2. first \in Remaining /\ \A k \in Remaining : first <= k
    BY <1>1, <2>1, MinIs
  <2> QED  BY <2>1, <2>2
<1> HIDE DEF first
<1>4. StoreTypeOK'
  BY <1>1, <1>2, <1>3 DEF StoreInv, StoreTypeOK
<1>5. LinesWritten' /\ InOneStore'
  BY <1>1, <1>2 DEF StoreInv, LinesWritten, InOneStore
<1>6. BootsGrow'
  BY <1>1, <1>2 DEF StoreInv, BootsGrow
<1>7. TidyStore'
  <2>1. CASE backup' = backup /\ ~history'.tidy
    BY <1>1, <2>1 DEF StoreInv, TidyStore
  <2>2. CASE backup' = [backup EXCEPT ![first] = Absent] /\ history' = history
    <3>1. ASSUME NEW j \in Slots, j < first + 1,
                 \A k \in Slots : k < cleaned => ~backup[k].exists
          PROVE  ~backup'[j].exists
      <4>1. j \in Nat /\ cleaned \in Nat /\ backup \in [Slots -> File]
        BY DEF Slots, StoreInv, StoreTypeOK
      <4>2. CASE j = first
        BY <1>3, <2>2, <4>1, <4>2 DEF Absent
      <4>3. CASE j # first
        <5>1. j \notin Remaining
          BY <1>3, <3>1, <4>1, <4>3
        <5>2. ~backup[j].exists
          BY <1>1, <3>1, <4>1, <5>1 DEF Remaining
        <5> QED  BY <2>2, <4>1, <4>3, <5>2
      <4> QED  BY <4>2, <4>3
    <3> QED  BY <1>1, <2>2, <3>1 DEF StoreInv, TidyStore
  <2> QED  BY <1>1, <2>1, <2>2
<1> QED  BY <1>4, <1>5, <1>6, <1>7 DEF StoreInv

\* The end of a store: the files are whole, or something is known to have failed.
LEMMA StepStored ==
    ASSUME StoreInv, Stored
    PROVE  StoreInv'
<1>1. /\ StoreTypeOK /\ history \in History /\ boots \in Nat
      /\ pc = "clean" /\ UNCHANGED <<main, backup>>
      /\ cleaned' = 0 /\ needed' = FALSE /\ stopping' = FALSE
      /\ pc' = IF stopping THEN "down" ELSE "serve"
  BY DEF StoreInv, StoreTypeOK, Stored, StoreEnds
<1>2. /\ history' \in History
      /\ history'.served = IF stopping THEN boots ELSE history.served
      /\ history'.serving = ~stopping
      /\ history'.whole = history.whole /\ history'.spoilt = history.spoilt
      /\ history'.tidy = history.tidy
      /\ history'.unsure = (history.unsure /\ ~history.whole)
      /\ history'.reread = (history.reread /\ ~history.whole)
  <2> DEFINE h == [served |-> IF stopping THEN boots ELSE history.served,
                   serving |-> ~stopping, spoilt |-> history.spoilt,
                   whole |-> history.whole, tidy |-> history.tidy,
                   unsure |-> history.unsure /\ ~history.whole,
                   reread |-> history.reread /\ ~history.whole,
                   stores |-> history.stores, refused |-> history.refused,
                   crashes |-> history.crashes]
  <2>1. CASE history.whole
    <3>1. history' = h
      BY <1>1, <2>1 DEF Stored, StoreEnds, History, StoreTypeOK
    <3> QED  BY <1>1, <3>1 DEF History, StoreTypeOK
  <2>2. CASE ~history.whole
    <3>1. history' = h
      BY <1>1, <2>2 DEF Stored, StoreEnds, History, StoreTypeOK
    <3> QED  BY <1>1, <3>1 DEF History, StoreTypeOK
  <2> QED  BY <2>1, <2>2
<1>3. IF stopping THEN boots' = 0 /\ users' = {} /\ oldEngineID' = FALSE
                  ELSE UNCHANGED <<boots, users, oldEngineID>>
  BY DEF Stored, StoreEnds
<1>4. StoreTypeOK'
  <2>1. boots' \in Nat /\ users' \in SUBSET Users /\ oldEngineID' \in BOOLEAN
    <3>1. stopping \in BOOLEAN /\ users \in SUBSET Users /\ oldEngineID \in BOOLEAN
      BY <1>1 DEF StoreTypeOK
    <3>2. {} \in SUBSET Users /\ 0 \in Nat
      OBVIOUS
    <3>3. CASE stopping
      BY <1>3, <3>2, <3>3
    <3>4. CASE ~stopping
      BY <1>1, <1>3, <3>1, <3>4
    <3> QED  BY <3>3, <3>4
  <2>2. pc' \in Locations
    BY <1>1 DEF Locations
  <2> QED  BY <1>1, <1>2, <2>1, <2>2 DEF StoreTypeOK
<1>5. history.whole =>
        /\ main.exists /\ main.boots = boots /\ main.engine
        /\ history.tidy => /\ main.users = users
                           /\ \A j \in Slots : ~backup[j].exists
  <2>1. \A j \in Slots : j < cleaned \/ cleaned <= j
    BY <1>1 DEF StoreTypeOK, Slots
  <2>2. Remaining = {}
    BY DEF Stored
  <2> QED  BY <1>1, <2>1, <2>2 DEF StoreInv, LinesWritten, TidyStore, Remaining
<1>6. LinesWritten'
  BY <1>1, <1>2, <1>5 DEF LinesWritten
\* The files are right after a whole store, whatever was refused before.
<1>7. ~history'.unsure => history.whole
  BY <1>1, <1>2 DEF StoreInv, InOneStore
<1>8. InOneStore'
  BY <1>1, <1>2, <1>7 DEF InOneStore
<1>9. /\ boots > 0 /\ (~history.spoilt => boots > history.served)
      /\ ~history.spoilt /\ ~oldEngineID => history.served = 0
  BY <1>1 DEF StoreInv, BootsGrow
<1>10. history.whole => NextBoots' = boots + 1
  BY <1>1, <1>5, <1>9, FileDecides, ReadThen DEF StoreTypeOK
<1>11. stopping => LastBoots' = boots
  BY <1>2 DEF LastBoots
<1>12. BootsGrow'
  <2>1. CASE stopping
    <3>1. pc' = "down" /\ ~history'.serving
      BY <1>1, <1>2, <2>1
    <3>2. ~history'.unsure => NextBoots' > LastBoots'
      BY <1>1, <1>7, <1>10, <1>11, <2>1
    <3> QED  BY <3>1, <3>2 DEF BootsGrow
  <2>2. CASE ~stopping
    BY <1>1, <1>2, <1>3, <1>5, <1>7, <1>9, <2>2 DEF BootsGrow
  <2> QED  BY <2>1, <2>2
<1>13. TidyStore'
  BY <1>1, <1>2, <1>3, <1>5 DEF StoreInv, TidyStore
<1> QED  BY <1>4, <1>6, <1>8, <1>12, <1>13 DEF StoreInv

\* Every step preserves the invariant.
LEMMA StoreStepInv == StoreInv /\ [StoreNext]_storeVars => StoreInv'
<1> SUFFICES ASSUME StoreInv, [StoreNext]_storeVars  PROVE StoreInv'
  OBVIOUS
<1>1. CASE Start
  BY <1>1, StepStart
<1>2. CASE Crash
  BY <1>2, StepCrash
<1>3. CASE Rename
  BY <1>3, StepRename
<1>4. CASE StoreHeader \/ StoreBoots \/ StoreEngine \/ StoreUsers
  BY <1>4, StepLines
<1>5. CASE Unlink
  BY <1>5, StepUnlink
<1>6. CASE Stored
  BY <1>6, StepStored
<1>7. CASE ChangeUsers \/ StoreIfNeeded \/ Shutdown
  BY <1>7, StepServe
<1>8. CASE Reconfigure
  BY <1>8, StepReconfigure
<1>9. CASE UNCHANGED storeVars
  <2>1. NextBoots' = NextBoots /\ LastBoots' = LastBoots
    BY <1>9, FilesStay DEF storeVars, LastBoots
  <2>2. StoreTypeOK' /\ LinesWritten' /\ InOneStore' /\ TidyStore'
    BY <1>9 DEF storeVars, StoreInv, StoreTypeOK, LinesWritten, InOneStore, TidyStore
  <2>3. BootsGrow'
    BY <1>9, <2>1 DEF storeVars, StoreInv, BootsGrow
  <2> QED  BY <2>2, <2>3 DEF StoreInv
<1> QED  BY <1>1, <1>2, <1>3, <1>4, <1>5, <1>6, <1>7, <1>8, <1>9 DEF StoreNext

-----------------------------------------------------------------------------
(* The theorems.                                                           *)

\* Of the files as a whole: what is in them after every call of snmp_store, when any
\* rename, line or removal may be refused and the process may crash before each.
THEOREM StoreInvariant == StoreSpec => []StoreInv
<1> QED  BY StoreInitInv, StoreStepInv, PTL DEF StoreSpec

\* For any number of backups, stores, refusals and crashes the agent never serves twice
\* with the same engineBoots, unless it read its files after a rename or a line that was
\* refused, after the file was renamed in front of a backup or after a SIGHUP, with no
\* whole store between.  A removal that is refused does not spoil it by itself.
THEOREM BootsGoOn == StoreSpec => []BootsNeverReused
<1>1. StoreInv => BootsNeverReused
  BY DEF StoreInv, BootsGrow, BootsNeverReused
<1> QED  BY <1>1, StoreInvariant, PTL

\* After a whole store that began a new file, and whose removals of backups all
\* succeeded, a start or a SIGHUP reads the users of the agent and no others.
THEOREM RemovedStayAway == StoreSpec => []NoUserComesBack
<1>1. StoreInv => NoUserComesBack
  BY FileAlone DEF StoreInv, TidyStore, NoUserComesBack
<1> QED  BY <1>1, StoreInvariant, PTL

\* A whole store decides what the next start reads, from its last line on and
\* whatever backups are still there.
THEOREM ReadBack == StoreSpec => []WholeStoreIsReadBack
<1>1. StoreInv => WholeStoreIsReadBack
  <2> SUFFICES ASSUME StoreInv, pc = "clean", history.whole
               PROVE  BootsRead = boots /\ users \subseteq UsersRead
    BY DEF WholeStoreIsReadBack
  <2>1. /\ main \in File /\ backup \in [Slots -> File]
        /\ main.boots = boots /\ boots # 0 /\ users \subseteq main.users
    BY DEF StoreInv, StoreTypeOK, LinesWritten, BootsGrow
  <2>2. BootsRead = boots
    BY <2>1, FileDecides, ReadNow
  <2>3. \E n \in DOMAIN Read : Read[n] = main
    <3>1. PICK c \in 0 .. Backups + 1 : ReadsFirst(backup, c)
      BY FirstMissing
    <3>2. Read = [n \in 1 .. c + 1 |-> IF n <= c THEN backup[n - 1] ELSE main]
      BY <3>1, ReadIs, ReadNow
    <3>3. c + 1 \in 1 .. c + 1 /\ ~(c + 1 <= c)
      BY SlotsNat
    <3>4. c + 1 \in DOMAIN Read /\ Read[c + 1] = main
      BY <3>2, <3>3
    <3> QED  BY <3>4
  <2>4. users \subseteq UsersRead
    BY <2>1, <2>3 DEF UsersRead
  <2> QED  BY <2>2, <2>4
<1> QED  BY <1>1, StoreInvariant, PTL

-----------------------------------------------------------------------------
(* The callbacks of an event.                                              *)

Node == [id : Nat, fn : Hooks \cup {None}, priority : Priorities]

CallRecord == [at : Nat, called : Seq(Nat), begun : SUBSET Nat]

\* The list is in the order of priorities, and within one of registration.
Precedes(m, n) ==
    \/ m.priority < n.priority
    \/ m.priority = n.priority /\ m.id < n.id

InOrder(l) == \A i, j \in DOMAIN l : i < j => Precedes(l[i], l[j])

NumbersOnce(l, n) ==
    /\ \A k \in DOMAIN l : l[k].id \in 1 .. n
    /\ \A i, j \in DOMAIN l : l[i].id = l[j].id => i = j

EventTypeOK ==
    /\ list \in Seq(Node) /\ nodes \in Nat
    /\ running \in Seq(CallRecord)

\* What a call has done of a list l, whose n first nodes were made.
CallOK(call, l, n) ==
    /\ call.called # <<>> /\ call.at = call.called[Len(call.called)]
    /\ call.begun \subseteq 1 .. n
    /\ \A i \in DOMAIN call.called : call.called[i] \in 1 .. n
    /\ \A i, j \in DOMAIN call.called, k, m \in DOMAIN l :
         i < j /\ l[k].id = call.called[i] /\ l[m].id = call.called[j] => k < m
    /\ \A k, m \in DOMAIN l :
         m <= k /\ l[k].id = call.at /\ l[m].fn # None /\ l[m].id \in call.begun =>
           \E i \in DOMAIN call.called : call.called[i] = l[m].id

CallsOK == \A r \in DOMAIN running : CallOK(running[r], list, nodes)

EventInv == EventTypeOK /\ InOrder(list) /\ NumbersOnce(list, nodes) /\ CallsOK

\* Of the n first nodes, those in l2 are in l, in the same order.
Embedded(l2, l, n) ==
    \E from \in [{k \in DOMAIN l2 : l2[k].id \in 1 .. n} -> DOMAIN l] :
        /\ \A k \in DOMAIN from :
             /\ l2[k].id = l[from[k]].id /\ l2[k].priority = l[from[k]].priority
             /\ l2[k].fn # None => l[from[k]].fn # None
        /\ \A k, m \in DOMAIN from : k < m => from[k] < from[m]

\* What a call has done is so in the list that a registration or an unregistration leaves.
LEMMA CallStays ==
    ASSUME NEW call, NEW l \in Seq(Node), NEW l2 \in Seq(Node), NEW n \in Nat, NEW n2 \in Nat,
           n <= n2, CallOK(call, l, n), Embedded(l2, l, n), call.called \in Seq(Nat)
    PROVE  CallOK(call, l2, n2)
<1> DEFINE Old == {k \in DOMAIN l2 : l2[k].id \in 1 .. n}
<1>1. PICK from \in [Old -> DOMAIN l] :
          /\ \A k \in Old : /\ l2[k].id = l[from[k]].id
                            /\ l2[k].fn # None => l[from[k]].fn # None
          /\ \A k, m \in Old : k < m => from[k] < from[m]
  BY DEF Embedded
<1>2. /\ DOMAIN l \subseteq Nat /\ Old \subseteq Nat /\ Old \subseteq DOMAIN l2
      /\ \A k \in Old : from[k] \in DOMAIN l
  BY <1>1
<1>3. \A k \in DOMAIN l2 : l2[k].id \in 1 .. n => k \in Old
  OBVIOUS
<1>4. /\ \A i \in DOMAIN call.called : call.called[i] \in 1 .. n
      /\ call.begun \subseteq 1 .. n
      /\ call.called # <<>> /\ call.at = call.called[Len(call.called)]
  BY DEF CallOK
<1>5. call.at \in 1 .. n
  <2>1. Len(call.called) \in DOMAIN call.called
    BY <1>4
  <2> QED  BY <1>4, <2>1
<1>6. \A i \in DOMAIN call.called : call.called[i] \in 1 .. n2
  BY <1>4
<1>7. call.begun \subseteq 1 .. n2
  BY <1>4
<1> HIDE DEF Old
<1>8. ASSUME NEW i \in DOMAIN call.called, NEW j \in DOMAIN call.called,
             NEW k \in DOMAIN l2, NEW m \in DOMAIN l2,
             i < j, l2[k].id = call.called[i], l2[m].id = call.called[j]
      PROVE  k < m
  <2>1. k \in Old /\ m \in Old
    BY <1>3, <1>4, <1>8
  <2>2. from[k] < from[m]
    <3>1. l[from[k]].id = call.called[i] /\ l[from[m]].id = call.called[j]
      BY <1>1, <1>8, <2>1
    <3> QED  BY <1>2, <1>8, <2>1, <3>1 DEF CallOK
  <2>3. CASE m <= k
    <3>1. m = k \/ m < k
      BY <1>2, <2>1, <2>3
    <3>2. m = k \/ from[m] < from[k]
      BY <1>1, <2>1, <3>1
    <3> QED  BY <1>2, <2>1, <2>2, <3>2
  <2> QED  BY <1>2, <2>1, <2>3
<1>9. ASSUME NEW k \in DOMAIN l2, NEW m \in DOMAIN l2, m <= k,
             l2[k].id = call.at, l2[m].fn # None, l2[m].id \in call.begun
      PROVE  \E i \in DOMAIN call.called : call.called[i] = l2[m].id
  <2>1. k \in Old /\ m \in Old
    BY <1>3, <1>4, <1>5, <1>9
  <2>2. from[m] <= from[k]
    <3>1. m = k \/ m < k
      BY <1>2, <1>9, <2>1
    <3>2. m = k \/ from[m] < from[k]
      BY <1>1, <2>1, <3>1
    <3> QED  BY <1>2, <2>1, <3>2
  <2>3. l[from[k]].id = call.at /\ l[from[m]].fn # None /\ l[from[m]].id = l2[m].id
    BY <1>1, <1>9, <2>1
  <2> QED  BY <1>2, <1>9, <2>1, <2>2, <2>3 DEF CallOK
<1> QED  BY <1>4, <1>6, <1>7, <1>8, <1>9 DEF CallOK

\* An unregistration leaves the list in order.
LEMMA ListStays ==
    ASSUME NEW l \in Seq(Node), NEW l2 \in Seq(Node), NEW n \in Nat,
           InOrder(l), NumbersOnce(l, n), Embedded(l2, l, n),
           \A k \in DOMAIN l2 : l2[k].id \in 1 .. n
    PROVE  InOrder(l2) /\ NumbersOnce(l2, n)
<1>1. {k \in DOMAIN l2 : l2[k].id \in 1 .. n} = DOMAIN l2
  OBVIOUS
<1>2. PICK from \in [DOMAIN l2 -> DOMAIN l] :
          /\ \A k \in DOMAIN l2 : /\ l2[k].id = l[from[k]].id
                                  /\ l2[k].priority = l[from[k]].priority
          /\ \A k, m \in DOMAIN l2 : k < m => from[k] < from[m]
  BY <1>1 DEF Embedded
<1>3. InOrder(l2)
  <2> SUFFICES ASSUME NEW i \in DOMAIN l2, NEW j \in DOMAIN l2, i < j
               PROVE  Precedes(l2[i], l2[j])
    BY DEF InOrder
  <2>1. Precedes(l[from[i]], l[from[j]])
    BY <1>2 DEF InOrder
  <2> QED  BY <1>2, <2>1 DEF Precedes
<1>4. ASSUME NEW i \in DOMAIN l2, NEW j \in DOMAIN l2, l2[i].id = l2[j].id
      PROVE  i = j
  <2>1. from[i] = from[j]
    BY <1>2, <1>4 DEF NumbersOnce
  <2>2. i \in Nat /\ j \in Nat /\ from[i] \in Nat
    BY <1>2
  <2>3. ~ (i < j) /\ ~ (j < i)
    BY <1>2, <2>1, <2>2
  <2> QED  BY <2>2, <2>3
<1> QED  BY <1>3, <1>4 DEF NumbersOnce

\* The place of a new node is behind those of a priority up to its own.
LEMMA PlaceIs ==
    ASSUME EventTypeOK, InOrder(list), NEW priority \in Priorities
    PROVE  /\ Place(priority) \in 0 .. Len(list)
           /\ \A k \in DOMAIN list : k <= Place(priority) <=> list[k].priority <= priority
<1> DEFINE T == {k \in DOMAIN list : list[k].priority <= priority}
<1>1. /\ Len(list) \in Nat /\ DOMAIN list = 1 .. Len(list) /\ priority \in Int
      /\ \A k \in DOMAIN list : list[k].priority \in Int
  <2>1. list \in Seq(Node) /\ Priorities \subseteq Int
    BY CallbacksAssumption DEF EventTypeOK
  <2>2. \A k \in DOMAIN list : list[k] \in Node
    BY <2>1
  <2>3. \A node \in Node : node.priority \in Priorities
    BY DEF Node
  <2>4. \A k \in DOMAIN list : list[k].priority \in Int
    BY <2>1, <2>2, <2>3
  <2>5. Len(list) \in Nat /\ DOMAIN list = 1 .. Len(list) /\ priority \in Int
    BY <2>1
  <2> QED  BY <2>4, <2>5
<1>2. \A i, j \in DOMAIN list : i < j /\ j \in T => i \in T
  BY <1>1 DEF InOrder, Precedes
<1>3. \E m \in 0 .. Len(list) : T = 1 .. m
  <2>1. CASE T = {}
    BY <1>1, <2>1
  <2>2. CASE T # {}
    <3>1. T \subseteq 0 .. Len(list)
      BY <1>1
    <3> HIDE DEF T
    <3>2. PICK m \in T : \A k \in T : k <= m
      BY <1>1, <2>2, <3>1, GreatestOf
    <3>3. T \subseteq DOMAIN list
      BY DEF T
    <3>4. \A k \in 1 .. m : k \in DOMAIN list /\ (k < m \/ k = m)
      BY <1>1, <3>2, <3>3
    <3>5. \A k \in 1 .. m : k \in T
      BY <1>2, <3>2, <3>3, <3>4
    <3>6. \A k \in T : k \in 1 .. m
      BY <1>1, <3>2, <3>3
    <3>7. T = 1 .. m
      BY <3>5, <3>6
    <3> QED  BY <1>1, <3>1, <3>7
  <2> QED  BY <2>1, <2>2
<1>4. PICK m \in 0 .. Len(list) : T = 1 .. m
  BY <1>3
<1>5. Cardinality(1 .. m) = m
  <2>1. m \in Int /\ 1 \in Int /\ (1 <= m \/ m = 0)
    BY <1>1
  <2>2. CASE m = 0
    <3>1. 1 .. m = {}
      BY <2>2
    <3> QED  BY <2>2, <3>1, FS_EmptySet
  <2>3. CASE 1 <= m
    <3>1. Cardinality(1 .. m) = m - 1 + 1
      BY <2>1, <2>3, FS_Interval
    <3> QED  BY <1>1, <3>1
  <2> QED  BY <2>1, <2>2, <2>3
<1>6. Place(priority) = m
  BY <1>4, <1>5 DEF Place
<1> QED  BY <1>1, <1>4, <1>6

\* InsertAt, place by place.
LEMMA InsertAtIs ==
    ASSUME NEW S, NEW s \in Seq(S), NEW p \in 0 .. Len(s), NEW e \in S
    PROVE  /\ InsertAt(s, p + 1, e) \in Seq(S)
           /\ Len(InsertAt(s, p + 1, e)) = Len(s) + 1
           /\ \A k \in 1 .. Len(s) + 1 :
                InsertAt(s, p + 1, e)[k] = IF k <= p THEN s[k]
                                           ELSE IF k = p + 1 THEN e ELSE s[k - 1]
<1> DEFINE front == SubSeq(s, 1, p)
           back == SubSeq(s, p + 1, Len(s))
<1>1. /\ Len(s) \in Nat /\ p \in Nat /\ p <= Len(s)
      /\ front \in Seq(S) /\ Len(front) = p /\ \A k \in 1 .. p : front[k] = s[k]
  OBVIOUS
<1>2. /\ back \in Seq(S) /\ Len(back) = Len(s) - p
      /\ \A k \in 1 .. Len(s) - p : back[k] = s[k + p]
  OBVIOUS
<1>3. InsertAt(s, p + 1, e) = front \o <<e>> \o back
  <2>1. (p + 1) - 1 = p
    OBVIOUS
  <2> QED  BY <2>1 DEF InsertAt
<1> HIDE DEF front, back
<1>4. /\ front \o <<e>> \in Seq(S) /\ Len(front \o <<e>>) = p + 1
      /\ \A k \in 1 .. p + 1 : (front \o <<e>>)[k] = IF k <= p THEN s[k] ELSE e
  BY <1>1
<1> DEFINE head == front \o <<e>>
           out == head \o back
<1>5. out \in Seq(S) /\ Len(out) = Len(s) + 1
  <2>1. head \in Seq(S) /\ Len(head) = p + 1
    BY <1>4
  <2> HIDE DEF head
  <2>2. back \in Seq(S)
    BY <1>2
  <2>3. \A a, b \in Seq(S) : a \o b \in Seq(S) /\ Len(a \o b) = Len(a) + Len(b)
    OBVIOUS
  <2>4. out \in Seq(S) /\ Len(out) = Len(head) + Len(back)
    BY <2>1, <2>2, <2>3
  <2> QED  BY <1>1, <1>2, <2>1, <2>4
<1>6. ASSUME NEW k \in 1 .. Len(s) + 1
      PROVE  out[k] = IF k <= p THEN s[k] ELSE IF k = p + 1 THEN e ELSE s[k - 1]
  <2>1. CASE k <= p + 1
    <3>1. out[k] = head[k]
      <4>1. head \in Seq(S) /\ Len(head) = p + 1
        BY <1>4
      <4> HIDE DEF head
      <4> QED  BY <1>1, <1>2, <2>1, <4>1
    <3> QED  BY <1>1, <1>4, <2>1, <3>1
  <2>2. CASE k > p + 1
    <3>1. out[k] = back[k - (p + 1)] /\ k - (p + 1) \in 1 .. Len(s) - p
      <4>1. head \in Seq(S) /\ Len(head) = p + 1
        BY <1>4
      <4> HIDE DEF head
      <4> QED  BY <1>1, <1>2, <2>2, <4>1
    <3> QED  BY <1>1, <1>2, <2>2, <3>1
  <2> HIDE DEF out
  <2> QED  BY <1>1, <2>1, <2>2
<1>7. InsertAt(s, p + 1, e) = out
  BY <1>3
<1> HIDE DEF out
<1> QED  BY <1>5, <1>6, <1>7

\* A registration while the event is called leaves each call what it has done.
LEMMA RegisterKeeps ==
    ASSUME EventInv, NEW f \in Hooks, NEW priority \in Priorities,
           RegisterCallback(f, priority)
    PROVE  EventInv'
<1> DEFINE p == Place(priority)
           node == [id |-> nodes + 1, fn |-> f, priority |-> priority]
           len == Len(list)
<1>1. /\ EventTypeOK /\ InOrder(list) /\ NumbersOnce(list, nodes) /\ CallsOK
      /\ list \in Seq(Node) /\ nodes \in Nat /\ len \in Nat /\ DOMAIN list = 1 .. len
      /\ running \in Seq(CallRecord)
  BY DEF EventInv, EventTypeOK
<1>2. /\ nodes' = nodes + 1 /\ running' = running /\ list' = InsertAt(list, p + 1, node)
  BY DEF RegisterCallback
<1>3. p \in 0 .. len /\ \A k \in 1 .. len : k <= p <=> list[k].priority <= priority
  BY <1>1, PlaceIs
<1>4. /\ node \in Node /\ node.id = nodes + 1 /\ node.priority = priority
      /\ priority \in Int /\ \A k \in 1 .. len : list[k].priority \in Int
  <2>1. list \in Seq(Node) /\ Priorities \subseteq Int /\ nodes + 1 \in Nat
    BY <1>1, CallbacksAssumption
  <2>2. \A k \in 1 .. len : list[k] \in Node
    BY <1>1
  <2>3. \A n \in Node : n.priority \in Priorities
    BY DEF Node
  <2>4. \A k \in 1 .. len : list[k].priority \in Int
    BY <2>1, <2>2, <2>3
  <2>5. node \in Node /\ node.id = nodes + 1 /\ node.priority = priority
    BY <2>1 DEF Node
  <2>6. priority \in Int
    BY <2>1
  <2> QED  BY <2>4, <2>5, <2>6
<1> HIDE DEF p, node
<1>5. /\ list' \in Seq(Node) /\ Len(list') = len + 1
      /\ \A k \in 1 .. len + 1 :
           list'[k] = IF k <= p THEN list[k] ELSE IF k = p + 1 THEN node ELSE list[k - 1]
  <2>1. list \in Seq(Node) /\ node \in Node /\ p \in 0 .. Len(list)
    BY <1>1, <1>3, <1>4
  <2>2. /\ InsertAt(list, p + 1, node) \in Seq(Node)
        /\ Len(InsertAt(list, p + 1, node)) = Len(list) + 1
        /\ \A k \in 1 .. Len(list) + 1 :
             InsertAt(list, p + 1, node)[k] = IF k <= p THEN list[k]
                                              ELSE IF k = p + 1 THEN node ELSE list[k - 1]
    BY <2>1, InsertAtIs
  <2> QED  BY <1>2, <2>2
<1>6. DOMAIN list' = 1 .. len + 1
  BY <1>1, <1>5
<1> DEFINE from == [k \in 1 .. len + 1 |-> IF k <= p THEN k ELSE k - 1]
<1>7. ASSUME NEW k \in 1 .. len + 1, k # p + 1
      PROVE  list'[k] = list[from[k]] /\ from[k] \in 1 .. len
  BY <1>1, <1>3, <1>5, <1>7
<1>8. list'[p + 1] = node /\ p + 1 \in 1 .. len + 1
  BY <1>1, <1>3, <1>5
<1>9. \A k, m \in 1 .. len + 1 : k < m /\ k # p + 1 /\ m # p + 1 => from[k] < from[m]
  BY <1>1, <1>3
<1>10. \A k \in 1 .. len + 1 : k # p + 1 => (k <= p <=> from[k] <= p)
  BY <1>1, <1>3
<1> HIDE DEF from, len
<1>11. InOrder(list')
  <2> SUFFICES ASSUME NEW i \in 1 .. len + 1, NEW j \in 1 .. len + 1, i < j
               PROVE  Precedes(list'[i], list'[j])
    BY <1>6 DEF InOrder
  <2>1. CASE i # p + 1 /\ j # p + 1
    <3>1. Precedes(list[from[i]], list[from[j]])
      BY <1>1, <1>7, <1>9, <2>1 DEF InOrder
    <3> QED  BY <1>7, <2>1, <3>1
  <2>2. CASE i = p + 1
    <3>1. j # p + 1 /\ ~ (j <= p)
      BY <1>1, <1>3, <2>2
    <3>2. from[j] \in 1 .. len /\ ~ (from[j] <= p) /\ list'[j] = list[from[j]]
      BY <1>7, <1>10, <3>1
    <3>3. ~ (list[from[j]].priority <= priority) /\ list[from[j]].priority \in Int
      BY <1>3, <1>4, <3>2
    <3>4. list'[i] = node /\ node.priority = priority /\ list'[j] = list[from[j]]
      BY <1>4, <1>8, <2>2, <3>2
    <3>5. priority < list[from[j]].priority
      BY <1>4, <3>3
    <3> QED  BY <3>4, <3>5 DEF Precedes
  <2>3. CASE j = p + 1
    <3>1. i # p + 1 /\ i <= p
      BY <1>1, <1>3, <2>3
    <3>2. from[i] \in 1 .. len /\ from[i] <= p /\ list'[i] = list[from[i]]
      BY <1>7, <1>10, <3>1
    <3>3. list[from[i]].priority <= priority /\ list[from[i]].priority \in Int
      BY <1>3, <1>4, <3>2
    <3>4. list[from[i]].id < node.id
      BY <1>1, <1>4, <3>2 DEF NumbersOnce
    <3> QED  BY <1>4, <1>8, <2>3, <3>2, <3>3, <3>4 DEF Precedes
  <2> QED  BY <2>1, <2>2, <2>3
<1>12. \A k \in 1 .. len + 1 : IF k = p + 1 THEN list'[k].id = nodes + 1
                                           ELSE list'[k].id \in 1 .. nodes
  BY <1>1, <1>4, <1>7, <1>8 DEF NumbersOnce
<1>13. NumbersOnce(list', nodes')
  <2>1. \A k \in 1 .. len + 1 : list'[k].id \in 1 .. nodes'
    BY <1>1, <1>2, <1>12
  <2>2. ASSUME NEW i \in 1 .. len + 1, NEW j \in 1 .. len + 1, list'[i].id = list'[j].id
        PROVE  i = j
    <3>1. CASE i = p + 1 \/ j = p + 1
      BY <1>1, <1>12, <2>2, <3>1
    <3>2. CASE i # p + 1 /\ j # p + 1
      <4>1. from[i] = from[j]
        BY <1>1, <1>7, <2>2, <3>2 DEF NumbersOnce
      <4>2. from[i] \in 1 .. len /\ i \in 1 .. len + 1
        BY <1>7, <3>2
      <4> QED  BY <1>1, <1>9, <3>2, <4>1, <4>2
    <3> QED  BY <3>1, <3>2
  <2> QED  BY <1>6, <2>1, <2>2 DEF NumbersOnce
<1>14. Embedded(list', list, nodes)
  <2> DEFINE Old == {k \in DOMAIN list' : list'[k].id \in 1 .. nodes}
             f2 == [k \in Old |-> from[k]]
  <2>1. \A k \in Old : k \in 1 .. len + 1 /\ k # p + 1
    BY <1>1, <1>6, <1>12
  <2>2. f2 \in [Old -> DOMAIN list]
    BY <1>1, <1>7, <2>1
  <2>3. \A k \in Old : list'[k] = list[f2[k]]
    BY <1>7, <2>1
  <2>4. \A k, m \in Old : k < m => f2[k] < f2[m]
    BY <1>9, <2>1
  <2>5. DOMAIN f2 = Old
    OBVIOUS
  <2> HIDE DEF f2
  <2>6. /\ \A k \in DOMAIN f2 :
             /\ list'[k].id = list[f2[k]].id /\ list'[k].priority = list[f2[k]].priority
             /\ list'[k].fn # None => list[f2[k]].fn # None
        /\ \A k, m \in DOMAIN f2 : k < m => f2[k] < f2[m]
    BY <2>3, <2>4, <2>5
  <2> QED  BY <2>2, <2>6 DEF Embedded
<1>15. CallsOK'
  <2> SUFFICES ASSUME NEW r \in DOMAIN running
               PROVE  CallOK(running[r], list', nodes')
    BY <1>2 DEF CallsOK
  <2>1. CallOK(running[r], list, nodes)
    BY <1>1 DEF CallsOK
  <2>2. running[r] \in CallRecord
    BY <1>1
  <2>3. running[r].called \in Seq(Nat)
    BY <2>2 DEF CallRecord
  <2> QED  BY <1>1, <1>2, <1>5, <1>14, <2>1, <2>3, CallStays
<1> QED  BY <1>1, <1>2, <1>5, <1>11, <1>13, <1>15 DEF EventInv, EventTypeOK

\* So does an unregistration, whether it frees the nodes or only empties them.
LEMMA UnregisterKeeps ==
    ASSUME EventInv, NEW f \in Hooks, UnregisterCallback(f)
    PROVE  EventInv'
<1>1. /\ EventTypeOK /\ InOrder(list) /\ NumbersOnce(list, nodes) /\ CallsOK
      /\ list \in Seq(Node) /\ nodes \in Nat /\ DOMAIN list = 1 .. Len(list)
      /\ running \in Seq(CallRecord)
  BY DEF EventInv, EventTypeOK
<1>2. nodes' = nodes /\ running' = running
  BY DEF UnregisterCallback
<1>3. /\ list' \in Seq(Node) /\ \A k \in DOMAIN list' : list'[k].id \in 1 .. nodes
      /\ \E from \in [DOMAIN list' -> DOMAIN list] :
            /\ \A k \in DOMAIN list' :
                 /\ list'[k].id = list[from[k]].id /\ list'[k].priority = list[from[k]].priority
                 /\ list'[k].fn # None => list[from[k]].fn # None
            /\ \A k, m \in DOMAIN list' : k < m => from[k] < from[m]
  <2>1. CASE Locked = 1
    <3> DEFINE places == {k \in DOMAIN list : list[k].fn # f}
               out == Chosen(list, places)
               len == Len(out)
               full == Len(list)
    <3>1. list' = out
      BY <2>1 DEF UnregisterCallback
    <3> HIDE DEF places
    <3>2. out \in Seq(Node) /\ IsChosen(out, list, full, places)
      BY <1>1, ChosenIs
    <3> HIDE DEF out
    <3>3. PICK place \in [1 .. len -> 1 .. full] :
              /\ \A a, b \in 1 .. len : a < b => place[a] < place[b]
              /\ \A a \in 1 .. len : out[a] = list[place[a]]
      BY <3>2 DEF IsChosen
    <3>4. DOMAIN out = 1 .. len /\ DOMAIN list = 1 .. full
      BY <1>1, <3>2
    <3> HIDE DEF len, full
    <3>5. \A a \in 1 .. len : out[a] = list[place[a]] /\ place[a] \in 1 .. full
      BY <3>3
    <3>6. \A a \in 1 .. len : out[a].id \in 1 .. nodes
      BY <1>1, <3>4, <3>5 DEF NumbersOnce
    <3> QED  BY <3>1, <3>2, <3>3, <3>4, <3>5, <3>6
  <2>2. CASE Locked # 1
    <3>1. list' = [k \in DOMAIN list |-> IF list[k].fn = f
                                         THEN [list[k] EXCEPT !.fn = None] ELSE list[k]]
      BY <2>2 DEF UnregisterCallback
    <3>2. ASSUME NEW k \in DOMAIN list
          PROVE  /\ list'[k] \in Node /\ list'[k].id = list[k].id
                 /\ list'[k].priority = list[k].priority
                 /\ list'[k].fn # None => list[k].fn # None
      <4>1. list[k] \in Node
        BY <1>1
      <4>2. list[k].fn = f => f # None
        BY CallbacksAssumption
      <4> QED  BY <3>1, <4>1, <4>2 DEF Node
    <3>3. DOMAIN list' = DOMAIN list /\ list' \in Seq(Node)
      BY <1>1, <3>1, <3>2
    <3> DEFINE from == [k \in DOMAIN list |-> k]
    <3>4. from \in [DOMAIN list -> DOMAIN list] /\ \A k \in DOMAIN list : from[k] = k
      OBVIOUS
    <3>5. \A k \in DOMAIN list' : list'[k].id \in 1 .. nodes
      BY <1>1, <3>2, <3>3 DEF NumbersOnce
    <3> HIDE DEF from
    <3> QED  BY <3>2, <3>3, <3>4, <3>5
  <2> QED  BY <2>1, <2>2
<1>4. Embedded(list', list, nodes)
  <2>1. {k \in DOMAIN list' : list'[k].id \in 1 .. nodes} = DOMAIN list'
    BY <1>3
  <2>2. PICK from \in [DOMAIN list' -> DOMAIN list] :
            /\ \A k \in DOMAIN list' :
                 /\ list'[k].id = list[from[k]].id /\ list'[k].priority = list[from[k]].priority
                 /\ list'[k].fn # None => list[from[k]].fn # None
            /\ \A k, m \in DOMAIN list' : k < m => from[k] < from[m]
    BY <1>3
  <2>3. DOMAIN from = DOMAIN list'
    BY <2>2
  <2> QED  BY <2>1, <2>2, <2>3 DEF Embedded
<1>5. InOrder(list') /\ NumbersOnce(list', nodes')
  BY <1>1, <1>2, <1>3, <1>4, ListStays
<1>6. CallsOK'
  <2> SUFFICES ASSUME NEW r \in DOMAIN running
               PROVE  CallOK(running[r], list', nodes')
    BY <1>2 DEF CallsOK
  <2>1. CallOK(running[r], list, nodes)
    BY <1>1 DEF CallsOK
  <2>2. running[r] \in CallRecord
    BY <1>1
  <2>3. running[r].called \in Seq(Nat)
    BY <2>2 DEF CallRecord
  <2> QED  BY <1>1, <1>2, <1>3, <1>4, <2>1, <2>3, CallStays
<1> QED  BY <1>1, <1>2, <1>3, <1>5, <1>6 DEF EventInv, EventTypeOK

\* The next callback to call, or the end of the list.
LEMMA FirstFromIs ==
    ASSUME list \in Seq(Node), NEW k \in Nat \ {0}
    PROVE  \/ /\ FirstFrom(k) = 0
              /\ \A m \in DOMAIN list : k <= m => list[m].fn = None
           \/ /\ FirstFrom(k) \in DOMAIN list /\ k <= FirstFrom(k)
              /\ list[FirstFrom(k)].fn # None
              /\ \A m \in DOMAIN list : k <= m /\ m < FirstFrom(k) => list[m].fn = None
<1> DEFINE live == {m \in k .. Len(list) : list[m].fn # None}
<1>1. Len(list) \in Nat /\ DOMAIN list = 1 .. Len(list)
  OBVIOUS
<1>2. \A m \in DOMAIN list : k <= m => m \in k .. Len(list)
  BY <1>1
<1>3. live \subseteq DOMAIN list /\ live \subseteq Nat /\ \A m \in live : k <= m /\ list[m].fn # None
  BY <1>1
<1>4. FirstFrom(k) = IF live = {} THEN 0 ELSE CHOOSE m \in live : \A n \in live : m <= n
  BY DEF FirstFrom
<1>5. \A m \in k .. Len(list) : list[m].fn # None => m \in live
  OBVIOUS
<1> HIDE DEF live
<1>6. CASE live = {}
  BY <1>2, <1>4, <1>5, <1>6
<1>7. CASE live # {}
  <2>1. \E m \in live : \A n \in live : m <= n
    BY <1>3, <1>7, LeastOf
  <2>2. FirstFrom(k) \in live /\ \A n \in live : FirstFrom(k) <= n
    BY <1>4, <1>7, <2>1
  <2>3. \A m \in DOMAIN list : k <= m /\ m < FirstFrom(k) => m \notin live
    BY <1>1, <1>3, <2>2
  <2> QED  BY <1>2, <1>3, <1>5, <2>2, <2>3
<1> QED  BY <1>6, <1>7

\* A call begins at the first node that has a callback.
LEMMA CallKeeps ==
    ASSUME EventInv, CallCallbacks
    PROVE  EventInv'
<1> DEFINE first == FirstFrom(1)
           node == list[first]
           call == [at |-> node.id, called |-> <<node.id>>, begun |-> Live(list)]
<1>1. /\ EventTypeOK /\ InOrder(list) /\ NumbersOnce(list, nodes) /\ CallsOK
      /\ list \in Seq(Node) /\ nodes \in Nat /\ running \in Seq(CallRecord)
      /\ \A k \in DOMAIN list : k \in Nat
  BY DEF EventInv, EventTypeOK
<1>2. list' = list /\ nodes' = nodes
  BY DEF CallCallbacks
<1>3. CASE first = 0
  <2>1. running' = running
    BY <1>3 DEF CallCallbacks
  <2> QED  BY <1>1, <1>2, <2>1 DEF EventInv, EventTypeOK, CallsOK
<1>4. CASE first # 0
  <2>1. running' = <<call>> \o running
    BY <1>4 DEF CallCallbacks
  <2>2. /\ first \in DOMAIN list
        /\ \A m \in DOMAIN list : 1 <= m /\ m < first => list[m].fn = None
    BY <1>1, <1>4, FirstFromIs
  <2>3. node.id \in 1 .. nodes /\ node.id \in Nat
    BY <1>1, <2>2 DEF NumbersOnce
  <2>4. Live(list) \subseteq 1 .. nodes
    BY <1>1 DEF Live, NumbersOnce
  <2> DEFINE id == node.id
  <2>5. /\ call.at = id /\ call.called = <<id>> /\ call.begun = Live(list)
        /\ call \in CallRecord
    BY <1>1, <2>3, <2>4 DEF CallRecord
  <2>6. /\ call.called # <<>> /\ DOMAIN call.called = {1} /\ Len(call.called) = 1
        /\ call.called[1] = id
    BY <2>5
  <2> HIDE DEF call, node
  <2>7. \A k \in DOMAIN list : list[k].id = id => k = first
    BY <1>1, <2>2 DEF NumbersOnce, node
  <2>8. CallOK(call, list, nodes)
    <3>1. \A k, m \in DOMAIN list :
            m <= k /\ list[k].id = call.at /\ list[m].fn # None => m = first
      <4> SUFFICES ASSUME NEW k \in DOMAIN list, NEW m \in DOMAIN list, m <= k,
                          list[k].id = call.at, list[m].fn # None
                   PROVE  m = first
        OBVIOUS
      <4>1. k = first /\ m \in 1 .. Len(list) /\ first \in 1 .. Len(list)
        BY <1>1, <2>2, <2>5, <2>7
      <4>2. ~ (m < first)
        BY <2>2, <4>1
      <4> QED  BY <4>1, <4>2
    <3>2. \A k, m \in DOMAIN list :
            m <= k /\ list[k].id = call.at /\ list[m].fn # None /\ list[m].id \in call.begun =>
              \E i \in DOMAIN call.called : call.called[i] = list[m].id
      BY <2>6, <3>1 DEF node
    <3>3. \A i, j \in DOMAIN call.called : ~ (i < j)
      BY <2>6
    <3> QED  BY <2>3, <2>4, <2>5, <2>6, <3>2, <3>3 DEF CallOK
  <2>9. /\ running' \in Seq(CallRecord) /\ Len(running') = Len(running) + 1
        /\ running'[1] = call
        /\ \A r \in 1 .. Len(running') : r # 1 =>
              r - 1 \in 1 .. Len(running) /\ running'[r] = running[r - 1]
    BY <1>1, <2>1, <2>5
  <2>10. CallsOK'
    <3> SUFFICES ASSUME NEW r \in 1 .. Len(running')
                 PROVE  CallOK(running'[r], list, nodes)
      BY <1>2, <2>9 DEF CallsOK
    <3>1. CASE r = 1
      BY <2>8, <2>9, <3>1
    <3>2. CASE r # 1
      <4>1. r - 1 \in DOMAIN running /\ running'[r] = running[r - 1]
        BY <1>1, <2>9, <3>2
      <4> QED  BY <1>1, <4>1 DEF CallsOK
    <3> QED  BY <3>1, <3>2
  <2> QED  BY <1>1, <1>2, <2>9, <2>10 DEF EventInv, EventTypeOK
<1> QED  BY <1>3, <1>4

\* Where a call stands in the list.
LEMMA StandsAt ==
    ASSUME EventInv, NotLost, running # <<>>
    PROVE  LET here == CHOOSE k \in DOMAIN list : list[k].id = running[1].at
           IN  /\ here \in DOMAIN list /\ list[here].id = running[1].at
               /\ here + 1 \in Nat \ {0}
               /\ \A k \in DOMAIN list : list[k].id = running[1].at => k = here
<1> DEFINE here == CHOOSE k \in DOMAIN list : list[k].id = running[1].at
<1>1. \E k \in DOMAIN list : list[k].id = running[1].at
  BY DEF NotLost, Ids
<1>2. here \in DOMAIN list /\ list[here].id = running[1].at
  BY <1>1
<1>3. list \in Seq(Node) /\ NumbersOnce(list, nodes)
  BY DEF EventInv, EventTypeOK
<1> HIDE DEF here
<1>4. \A k \in DOMAIN list : list[k].id = running[1].at => k = here
  BY <1>2, <1>3 DEF NumbersOnce
<1>5. here + 1 \in Nat \ {0}
  BY <1>2, <1>3
<1> QED  BY <1>2, <1>4, <1>5 DEF here

\* A callback that returns hands on to the next node that has one, and none is passed by.
LEMMA ReturnKeeps ==
    ASSUME EventInv, NotLost, CallbackReturns
    PROVE  EventInv'
<1> DEFINE call == running[1]
           here == CHOOSE k \in DOMAIN list : list[k].id = call.at
           next == FirstFrom(here + 1)
           id == list[next].id
           then == [call EXCEPT !.at = id, !.called = Append(@, id)]
<1>1. /\ EventTypeOK /\ InOrder(list) /\ NumbersOnce(list, nodes) /\ CallsOK
      /\ list \in Seq(Node) /\ nodes \in Nat /\ running \in Seq(CallRecord)
      /\ \A k \in DOMAIN list : k \in Nat
  BY DEF EventInv, EventTypeOK
<1>2. list' = list /\ nodes' = nodes /\ running # <<>>
  BY DEF CallbackReturns
<1>3. /\ here \in DOMAIN list /\ list[here].id = call.at /\ here + 1 \in Nat \ {0}
      /\ \A k \in DOMAIN list : list[k].id = call.at => k = here
  BY <1>2, StandsAt
<1>4. 1 \in DOMAIN running /\ call \in CallRecord
  BY <1>1, <1>2
<1>5. CASE next = 0
  <2>1. running' = Tail(running)
    BY <1>5 DEF CallbackReturns
  <2>2. /\ running' \in Seq(CallRecord)
        /\ \A r \in DOMAIN running' : r + 1 \in DOMAIN running /\ running'[r] = running[r + 1]
    BY <1>1, <1>2, <2>1
  <2>3. CallsOK'
    BY <1>1, <1>2, <2>2 DEF CallsOK
  <2> QED  BY <1>1, <1>2, <2>2, <2>3 DEF EventInv, EventTypeOK
<1>6. CASE next # 0
  <2>1. running' = [running EXCEPT ![1].at = id, ![1].called = Append(@, id)]
    BY <1>6 DEF CallbackReturns
  <2>2. /\ next \in DOMAIN list /\ here + 1 <= next
        /\ \A m \in DOMAIN list : here + 1 <= m /\ m < next => list[m].fn = None
    <3> HIDE DEF here
    <3> QED  BY <1>1, <1>3, <1>6, FirstFromIs
  <2>3. id \in 1 .. nodes /\ id \in Nat
    BY <1>1, <2>2 DEF NumbersOnce
  <2> HIDE DEF next, here, id
  <2>4. /\ call.called \in Seq(Nat) /\ call.at \in Nat /\ call.begun \in SUBSET Nat
    BY <1>4 DEF CallRecord
  <2>5. /\ then.at = id /\ then.called = Append(call.called, id) /\ then.begun = call.begun
        /\ then \in CallRecord
    <3>1. Append(call.called, id) \in Seq(Nat)
      BY <2>3, <2>4
    <3>2. ASSUME NEW c \in CallRecord, NEW x \in Nat, Append(c.called, x) \in Seq(Nat)
          PROVE  LET d == [c EXCEPT !.at = x, !.called = Append(@, x)]
                 IN  /\ d.at = x /\ d.called = Append(c.called, x) /\ d.begun = c.begun
                     /\ d \in CallRecord
      BY <3>2 DEF CallRecord
    <3> HIDE DEF call
    <3> QED  BY <1>4, <2>3, <3>1, <3>2
  <2>6. /\ running' \in Seq(CallRecord) /\ DOMAIN running' = DOMAIN running
        /\ running'[1] = then
        /\ \A r \in DOMAIN running : r # 1 => running'[r] = running[r]
    <3>1. running' = [running EXCEPT ![1] = then]
      BY <1>4, <2>1 DEF CallRecord
    <3> HIDE DEF then
    <3> QED  BY <1>1, <1>4, <2>5, <3>1
  <2>7. CallOK(call, list, nodes)
    BY <1>1, <1>4 DEF CallsOK
  <2> DEFINE len == Len(call.called)
  <2>8. /\ len \in Nat /\ DOMAIN call.called = 1 .. len
        /\ then.called # <<>> /\ Len(then.called) = len + 1
        /\ DOMAIN then.called = 1 .. len + 1
        /\ then.called[len + 1] = id
        /\ \A i \in 1 .. len : then.called[i] = call.called[i]
    BY <2>3, <2>4, <2>5
  <2>9. /\ len \in 1 .. len /\ call.called[len] = call.at
        /\ \A i \in 1 .. len : call.called[i] \in 1 .. nodes
        /\ call.begun \subseteq 1 .. nodes
    BY <2>4, <2>7, <2>8 DEF CallOK
  <2> HIDE DEF call, then, len
  <2>10. \A i \in 1 .. len + 1 : i \in 1 .. len \/ i = len + 1
    BY <2>8
  <2>11. \A i \in 1 .. len, k \in DOMAIN list : list[k].id = call.called[i] => k <= here
    <3> SUFFICES ASSUME NEW i \in 1 .. len, NEW k \in DOMAIN list, list[k].id = call.called[i]
                 PROVE  k <= here
      OBVIOUS
    <3>1. CASE i = len
      <4>1. k = here
        BY <1>3, <2>9, <3>1
      <4> QED  BY <1>1, <4>1
    <3>2. CASE i < len
      <4>1. list[here].id = call.called[len]
        BY <1>3, <2>9
      <4>2. k < here
        BY <1>3, <2>7, <2>8, <2>9, <3>2, <4>1 DEF CallOK
      <4> QED  BY <1>1, <1>3, <4>2
    <3> QED  BY <2>8, <3>1, <3>2
  <2>12. \A k \in DOMAIN list : list[k].id = id => k = next
    BY <1>1, <2>2 DEF NumbersOnce, id
  <2>13. ASSUME NEW i \in 1 .. len + 1, NEW j \in 1 .. len + 1,
                NEW k \in DOMAIN list, NEW m \in DOMAIN list,
                i < j, list[k].id = then.called[i], list[m].id = then.called[j]
         PROVE  k < m
    <3>1. i \in 1 .. len
      BY <2>8, <2>13
    <3>2. CASE j \in 1 .. len
      BY <2>7, <2>8, <2>13, <3>1, <3>2 DEF CallOK
    <3>3. CASE j = len + 1
      <4>1. m = next
        BY <2>8, <2>12, <2>13, <3>3
      <4>2. k <= here
        BY <2>8, <2>11, <2>13, <3>1
      <4> QED  BY <1>1, <1>3, <2>2, <4>1, <4>2
    <3> QED  BY <2>10, <3>2, <3>3
  <2>14. ASSUME NEW k \in DOMAIN list, NEW m \in DOMAIN list, m <= k, list[k].id = id,
                list[m].fn # None, list[m].id \in call.begun
         PROVE  \E i \in 1 .. len + 1 : then.called[i] = list[m].id
    <3>1. m <= next
      BY <2>12, <2>14
    <3>2. CASE m <= here
      <4>1. \E i \in 1 .. len : call.called[i] = list[m].id
        BY <1>3, <2>7, <2>8, <2>14, <3>2 DEF CallOK
      <4> QED  BY <2>8, <4>1
    <3>3. CASE m = next
      BY <2>8, <3>3 DEF id
    <3>4. CASE ~ (m <= here) /\ m # next
      <4>1. here + 1 <= m /\ m < next
        BY <1>1, <1>3, <2>2, <3>1, <3>4
      <4> QED  BY <2>2, <2>14, <4>1
    <3> QED  BY <3>2, <3>3, <3>4
  <2>15. \A i \in 1 .. len + 1 : then.called[i] \in 1 .. nodes
    BY <2>3, <2>8, <2>9, <2>10
  <2>16. then.called # <<>> /\ then.at = then.called[Len(then.called)]
    BY <2>5, <2>8
  <2>17. CallOK(then, list, nodes)
    BY <2>5, <2>8, <2>9, <2>13, <2>14, <2>15, <2>16 DEF CallOK
  <2>18. CallsOK'
    <3> SUFFICES ASSUME NEW r \in DOMAIN running
                 PROVE  CallOK(running'[r], list, nodes)
      BY <1>2, <2>6 DEF CallsOK
    <3>1. CASE r = 1
      BY <2>6, <2>17, <3>1
    <3>2. CASE r # 1
      BY <1>1, <2>6, <3>2 DEF CallsOK
    <3> QED  BY <3>1, <3>2
  <2> QED  BY <1>1, <1>2, <2>6, <2>18 DEF EventInv, EventTypeOK
<1> QED  BY <1>5, <1>6

\* The list is given up only when no call of the event goes through it.
LEMMA ClearKeeps ==
    ASSUME EventInv, ClearCallback
    PROVE  EventInv'
<1>1. list' = <<>> /\ nodes' = nodes /\ running' = <<>> /\ nodes \in Nat
  BY DEF ClearCallback, EventInv, EventTypeOK
<1>2. list' \in Seq(Node) /\ running' \in Seq(CallRecord)
      /\ DOMAIN list' = {} /\ DOMAIN running' = {}
  BY <1>1
<1> QED  BY <1>1, <1>2 DEF EventInv, EventTypeOK, InOrder, NumbersOnce, CallsOK

\* What holds of the list of an event and of the calls that go through it.
THEOREM EventInvariant == EventSpec => []EventInv
<1>1. EventInit => EventInv
  <2> SUFFICES ASSUME EventInit  PROVE EventInv
    OBVIOUS
  <2>1. list \in Seq(Node) /\ running \in Seq(CallRecord) /\ nodes \in Nat
        /\ DOMAIN list = {} /\ DOMAIN running = {}
    BY DEF EventInit
  <2> QED  BY <2>1 DEF EventInv, EventTypeOK, InOrder, NumbersOnce, CallsOK
<1>2. EventInv /\ [EventNext]_eventVars => EventInv'
  <2> SUFFICES ASSUME EventInv, [EventNext]_eventVars  PROVE EventInv'
    OBVIOUS
  <2>1. CASE UNCHANGED eventVars
    BY <2>1 DEF eventVars, EventInv, EventTypeOK, CallsOK
  <2>2. ASSUME EventNext  PROVE EventInv'
    <3>1. ASSUME NEW f \in Hooks, NEW p \in Priorities, RegisterCallback(f, p)
          PROVE  EventInv'
      BY <3>1, RegisterKeeps
    <3>2. ASSUME NEW f \in Hooks, UnregisterCallback(f)  PROVE EventInv'
      BY <3>2, UnregisterKeeps
    <3>3. CASE CallCallbacks
      BY <3>3, CallKeeps
    <3>4. CASE CallbackReturns
      BY <2>2, <3>4, ReturnKeeps DEF EventNext
    <3>5. CASE ClearCallback
      BY <3>5, ClearKeeps
    <3> QED  BY <2>2, <3>1, <3>2, <3>3, <3>4, <3>5 DEF EventNext
  <2> QED  BY <2>1, <2>2
<1> QED  BY <1>1, <1>2, PTL DEF EventSpec

\* A call of an event calls what stays registered, once and in order, whatever
\* the callbacks do to its list: any nesting, any priorities.
THEOREM CalledInOrder == EventSpec => CallsInOrder
<1> DEFINE call == running[1]
           Fair == /\ call.begun \cap Live(list)
                        \subseteq {call.called[i] : i \in DOMAIN call.called}
                   /\ \A i, j \in DOMAIN call.called, k, l \in DOMAIN list :
                        i < j /\ list[k].id = call.called[i] /\ list[l].id = call.called[j] =>
                          \/ list[k].priority < list[l].priority
                          \/ list[k].priority = list[l].priority /\ list[k].id < list[l].id
<1>1. ASSUME EventInv, [EventNext]_eventVars, Len(running') < Len(running)
      PROVE  Fair
  <2>1. /\ EventTypeOK /\ InOrder(list) /\ NumbersOnce(list, nodes) /\ CallsOK
        /\ list \in Seq(Node) /\ running \in Seq(CallRecord)
        /\ \A k \in DOMAIN list : k \in Nat
    BY <1>1 DEF EventInv, EventTypeOK
  <2>2. Len(running) \in Nat /\ running' # running
    BY <1>1, <2>1
  <2>3. CallbackReturns /\ NotLost
    <3>1. ~ (\E f \in Hooks, p \in Priorities : RegisterCallback(f, p))
      BY <2>2 DEF RegisterCallback
    <3>2. ~ (\E f \in Hooks : UnregisterCallback(f))
      BY <2>2 DEF UnregisterCallback
    <3>3. ~ CallCallbacks
      <4> SUFFICES ASSUME CallCallbacks  PROVE FALSE
        OBVIOUS
      <4>1. PICK c : running' = <<c>> \o running
        BY <2>2 DEF CallCallbacks
      <4>2. Len(running') = Len(running) + 1
        BY <2>1, <4>1
      <4> QED  BY <1>1, <2>2, <4>2
    <3>4. ~ ClearCallback
      <4> SUFFICES ASSUME ClearCallback  PROVE FALSE
        OBVIOUS
      <4>1. running = <<>>
        BY DEF ClearCallback
      <4> QED  BY <1>1, <4>1
    <3> QED  BY <1>1, <2>2, <3>1, <3>2, <3>3, <3>4 DEF EventNext, eventVars
  <2>4. running # <<>> /\ FirstFrom((CHOOSE k \in DOMAIN list : list[k].id = call.at) + 1) = 0
    <3>1. running # <<>>
      BY <2>3 DEF CallbackReturns
    <3> DEFINE next == FirstFrom((CHOOSE k \in DOMAIN list : list[k].id = call.at) + 1)
    <3>2. CASE next # 0
      <4>1. PICK c : running' = [running EXCEPT ![1] = c]
        BY <2>3, <3>2 DEF CallbackReturns
      <4>2. Len(running') = Len(running)
        BY <2>1, <4>1
      <4> QED  BY <1>1, <2>2, <4>2
    <3> QED  BY <3>1, <3>2
  <2>5. PICK here \in DOMAIN list :
            /\ list[here].id = call.at
            /\ \A m \in DOMAIN list : here + 1 <= m => list[m].fn = None
    <3> DEFINE at == CHOOSE k \in DOMAIN list : list[k].id = call.at
    <3>1. at \in DOMAIN list /\ list[at].id = call.at /\ at + 1 \in Nat \ {0}
      BY <1>1, <2>3, <2>4, StandsAt
    <3>2. FirstFrom(at + 1) = 0
      BY <2>4
    <3> HIDE DEF at
    <3>3. \A m \in DOMAIN list : at + 1 <= m => list[m].fn = None
      BY <2>1, <3>1, <3>2, FirstFromIs
    <3> QED  BY <3>1, <3>3
  <2>6. CallOK(call, list, nodes)
    <3>1. 1 \in DOMAIN running
      BY <2>1, <2>4
    <3> QED  BY <2>1, <3>1 DEF CallsOK
  <2> HIDE DEF call
  <2>7. ASSUME NEW m \in DOMAIN list, list[m].fn # None, list[m].id \in call.begun
        PROVE  \E i \in DOMAIN call.called : call.called[i] = list[m].id
    <3>1. m <= here
      BY <2>1, <2>5, <2>7
    <3> QED  BY <2>5, <2>6, <2>7, <3>1 DEF CallOK
  <2>8. ASSUME NEW i \in DOMAIN call.called, NEW j \in DOMAIN call.called,
               NEW k \in DOMAIN list, NEW l \in DOMAIN list,
               i < j, list[k].id = call.called[i], list[l].id = call.called[j]
        PROVE  Precedes(list[k], list[l])
    <3>1. k < l
      BY <2>6, <2>8 DEF CallOK
    <3> QED  BY <2>1, <3>1 DEF InOrder
  <2> QED  BY <2>7, <2>8 DEF Live, Precedes
<1> HIDE DEF Fair, call
<1>2. EventInv /\ [EventNext]_eventVars => [Len(running') < Len(running) => Fair]_eventVars
  BY <1>1
<1> QED  BY <1>2, EventInvariant, PTL DEF EventSpec, CallsInOrder, Fair, call

-----------------------------------------------------------------------------
(* Messages out of a stream.                                               *)

Byte == [msg : Nat, at : Nat]
Packet == [header : Nat, size : Nat, wrong : BOOLEAN]

\* A sequence behind another.
LEMMA JoinIs ==
    ASSUME NEW S, NEW s \in Seq(S), NEW t \in Seq(S)
    PROVE  /\ s \o t \in Seq(S) /\ Len(s \o t) = Len(s) + Len(t)
           /\ \A k \in 1 .. Len(s) : (s \o t)[k] = s[k]
           /\ \A k \in 1 .. Len(t) : (s \o t)[Len(s) + k] = t[k]
  OBVIOUS

\* The parts of a sequence, place by place.
LEMMA PartIs ==
    ASSUME NEW S, NEW s \in Seq(S), NEW a \in Nat, NEW b \in Nat, a <= b, b <= Len(s)
    PROVE  /\ SubSeq(s, a + 1, b) \in Seq(S) /\ Len(SubSeq(s, a + 1, b)) = b - a
           /\ \A k \in 1 .. b - a : SubSeq(s, a + 1, b)[k] = s[a + k]
  OBVIOUS

\* Two sequences are the same when their places hold the same.
LEMMA SameSequence ==
    ASSUME NEW S, NEW s \in Seq(S), NEW t \in Seq(S), Len(s) = Len(t),
           \A k \in 1 .. Len(s) : s[k] = t[k]
    PROVE  s = t
  OBVIOUS

\* A part of a part.
LEMMA PartOfPart ==
    ASSUME NEW S, NEW s \in Seq(S), NEW a \in Nat, NEW b \in Nat, a <= b, b <= Len(s),
           NEW c \in Nat, NEW d \in Nat, c <= d, d <= b - a
    PROVE  SubSeq(SubSeq(s, a + 1, b), c + 1, d) = SubSeq(s, a + c + 1, a + d)
<1> DEFINE part == SubSeq(s, a + 1, b)
           inner == SubSeq(part, c + 1, d)
           direct == SubSeq(s, a + c + 1, a + d)
<1>1. part \in Seq(S) /\ Len(part) = b - a /\ \A k \in 1 .. b - a : part[k] = s[a + k]
  BY PartIs
<1> HIDE DEF part
<1>2. inner \in Seq(S) /\ Len(inner) = d - c /\ \A k \in 1 .. d - c : inner[k] = part[c + k]
  BY <1>1, PartIs
<1>3. a + c \in Nat /\ a + d \in Nat /\ a + c <= a + d /\ a + d <= Len(s)
  OBVIOUS
<1>4. /\ direct \in Seq(S) /\ Len(direct) = (a + d) - (a + c)
      /\ \A k \in 1 .. (a + d) - (a + c) : direct[k] = s[a + c + k]
  BY <1>3, PartIs
<1>5. (a + d) - (a + c) = d - c
  OBVIOUS
<1> HIDE DEF inner, direct
<1>6. ASSUME NEW k \in 1 .. Len(inner)  PROVE inner[k] = direct[k]
  <2>1. k \in 1 .. d - c /\ c + k \in 1 .. b - a /\ a + (c + k) = a + c + k
    BY <1>2, <1>6
  <2> QED  BY <1>1, <1>2, <1>4, <1>5, <2>1
<1>7. inner = direct
  BY <1>2, <1>4, <1>5, <1>6, SameSequence
<1> QED  BY <1>7 DEF inner, direct, part

\* Two parts that follow each other.
LEMMA PartsJoin ==
    ASSUME NEW S, NEW s \in Seq(S), NEW a \in Nat, NEW b \in Nat, NEW c \in Nat,
           a <= b, b <= c, c <= Len(s)
    PROVE  SubSeq(s, a + 1, b) \o SubSeq(s, b + 1, c) = SubSeq(s, a + 1, c)
<1> DEFINE left == SubSeq(s, a + 1, b)
           right == SubSeq(s, b + 1, c)
           both == left \o right
           whole == SubSeq(s, a + 1, c)
<1>1. left \in Seq(S) /\ Len(left) = b - a /\ \A k \in 1 .. b - a : left[k] = s[a + k]
  BY PartIs
<1>2. right \in Seq(S) /\ Len(right) = c - b /\ \A k \in 1 .. c - b : right[k] = s[b + k]
  BY PartIs
<1>3. whole \in Seq(S) /\ Len(whole) = c - a /\ \A k \in 1 .. c - a : whole[k] = s[a + k]
  BY PartIs
<1> HIDE DEF left, right, whole
<1>4. both \in Seq(S) /\ Len(both) = Len(left) + Len(right)
  BY <1>1, <1>2, JoinIs
<1>5. ASSUME NEW k \in 1 .. Len(both)  PROVE both[k] = whole[k]
  <2>1. CASE k <= b - a
    <3>1. both[k] = left[k] /\ k \in 1 .. b - a /\ k \in 1 .. c - a
      BY <1>1, <1>2, <1>4, <2>1
    <3> QED  BY <1>1, <1>3, <3>1
  <2>2. CASE ~ (k <= b - a)
    <3>1. both[k] = right[k - (b - a)] /\ k - (b - a) \in 1 .. c - b /\ k \in 1 .. c - a
          /\ b + (k - (b - a)) = a + k
      BY <1>1, <1>2, <1>4, <2>2
    <3> QED  BY <1>2, <1>3, <3>1
  <2> QED  BY <2>1, <2>2
<1>6. Len(both) = Len(whole)
  BY <1>1, <1>2, <1>3, <1>4
<1> HIDE DEF both
<1>7. both = whole
  BY <1>3, <1>4, <1>5, <1>6, SameSequence
<1> QED  BY <1>7 DEF both, left, right, whole

-----------------------------------------------------------------------------
(* The bytes of a stream.                                                  *)

\* A message of a stream, and its bytes.
LEMMA MessageIs ==
    ASSUME NEW s \in Streams, NEW m \in 1 .. Len(s)
    PROVE  /\ s[m].size \in Nat /\ s[m].header \in Nat /\ s[m].wrong \in BOOLEAN
           /\ 2 <= s[m].header /\ s[m].header <= s[m].size
           /\ BytesOf(s, m) \in Seq(Byte) /\ Len(BytesOf(s, m)) = s[m].size
           /\ \A k \in 1 .. s[m].size : BytesOf(s, m)[k] = [msg |-> m, at |-> k]
<1>1. /\ s \in Seq(Packet)
      /\ \A i \in DOMAIN s : 2 <= s[i].header /\ s[i].header <= s[i].size
  BY StreamBufferAssumption DEF Packet
<1>2. m \in DOMAIN s /\ s[m] \in Packet /\ m \in Nat
  BY <1>1
<1>3. /\ s[m].size \in Nat /\ s[m].header \in Nat /\ s[m].wrong \in BOOLEAN
      /\ 2 <= s[m].header /\ s[m].header <= s[m].size
  BY <1>1, <1>2 DEF Packet
<1> DEFINE n == s[m].size
           bytes == [k \in 1 .. n |-> [msg |-> m, at |-> k]]
<1>4. \A k \in 1 .. n : bytes[k] \in Byte /\ bytes[k] = [msg |-> m, at |-> k]
  BY <1>2 DEF Byte
<1>5. bytes \in Seq(Byte) /\ Len(bytes) = n
  <2> HIDE DEF n
  <2> QED  BY <1>3, <1>4 DEF n
<1>6. BytesOf(s, m) = bytes
  BY DEF BytesOf
<1> HIDE DEF bytes
<1> QED  BY <1>3, <1>4, <1>5, <1>6

\* The bytes of the messages up to one are those of the messages before and its own.
LEMMA UptoIs ==
    ASSUME NEW s \in Streams
    PROVE  /\ Upto(s)[0] = <<>>
           /\ \A m \in 1 .. Len(s) : Upto(s)[m] = Upto(s)[m - 1] \o BytesOf(s, m)
           /\ \A m \in 0 .. Len(s) : Upto(s)[m] \in Seq(Byte)
<1> DEFINE n == Len(s)
           Next(f) == [m \in 0 .. n |-> IF m = 0 THEN <<>> ELSE f[m - 1] \o BytesOf(s, m)]
           upto == CHOOSE f : f = Next(f)
           step == [m \in 1 .. n |-> [v \in Seq(Byte) |-> v \o BytesOf(s, m)]]
<1>1. n \in Nat /\ \A m \in 1 .. n : BytesOf(s, m) \in Seq(Byte)
  BY MessageIs, StreamBufferAssumption
<1>2. \E f : f = Next(f)
  <2>1. step \in [1 .. n -> [Seq(Byte) -> Seq(Byte)]]
    BY <1>1
  <2>2. <<>> \in Seq(Byte)
    OBVIOUS
  <2>3. PICK f \in [0 .. n -> Seq(Byte)] :
               f[0] = <<>> /\ \A i \in 1 .. n : f[i] = step[i][f[i - 1]]
    <3> DEFINE values == Seq(Byte)
               start == <<>>
    <3>1. n \in Nat /\ start \in values /\ step \in [1 .. n -> [values -> values]]
      BY <1>1, <2>1, <2>2
    <3> HIDE DEF step, n, values, start
    <3>2. \E f \in [0 .. n -> values] :
              f[0] = start /\ \A i \in 1 .. n : f[i] = step[i][f[i - 1]]
      BY <3>1, RecursionOn
    <3> QED  BY <3>2 DEF values, start
  <2>4. \A i \in 1 .. n : i - 1 \in 0 .. n /\ f[i - 1] \in Seq(Byte)
    BY <1>1, <2>3
  <2>5. \A i \in 0 .. n : f[i] = Next(f)[i]
    <3> SUFFICES ASSUME NEW i \in 0 .. n  PROVE f[i] = Next(f)[i]
      OBVIOUS
    <3>1. CASE i = 0
      BY <2>3, <3>1
    <3>2. CASE i \in 1 .. n
      BY <2>3, <2>4, <3>2
    <3> QED  BY <1>1, <3>1, <3>2
  <2>6. f = Next(f)
    <3>1. f = [i \in 0 .. n |-> f[i]]
      BY <2>3
    <3> QED  BY <3>1, <2>5
  <2> QED  BY <2>6
<1>3. upto = Next(upto)
  <2> HIDE DEF Next
  <2> QED  BY <1>2
<1>4. /\ upto[0] = <<>>
      /\ \A m \in 1 .. n : upto[m] = upto[m - 1] \o BytesOf(s, m)
  <2>1. \A i \in 0 .. n : upto[i] = Next(upto)[i]
    <3> HIDE DEF Next, upto
    <3> QED  BY <1>3
  <2> HIDE DEF upto
  <2>2. 0 \in 0 .. n /\ \A m \in 1 .. n : m \in 0 .. n /\ m # 0
    BY <1>1
  <2> HIDE DEF n
  <2> QED  BY <2>1, <2>2
<1>5. Upto(s) = upto
  BY DEF Upto
<1> HIDE DEF Next, upto, step
<1> DEFINE T == {m \in Nat : m <= n => upto[m] \in Seq(Byte)}
<1>6. 0 \in T
  <2>1. <<>> \in Seq(Byte)
    OBVIOUS
  <2> QED  BY <1>4, <2>1
<1>7. ASSUME NEW m \in Nat, m \in T, m + 1 <= n
      PROVE  upto[m + 1] \in Seq(Byte)
  <2>1. m + 1 \in 1 .. n /\ (m + 1) - 1 = m /\ upto[m] \in Seq(Byte)
    BY <1>1, <1>7
  <2>2. upto[m + 1] = upto[m] \o BytesOf(s, m + 1) /\ BytesOf(s, m + 1) \in Seq(Byte)
    BY <1>1, <1>4, <2>1
  <2> QED  BY <2>1, <2>2
<1>8. \A m \in Nat : m \in T => m + 1 \in T
  BY <1>7
<1>9. Nat \subseteq T
  <2> HIDE DEF T
  <2> QED  BY <1>6, <1>8, InductionOn
<1>10. \A m \in 0 .. n : upto[m] \in Seq(Byte)
  BY <1>1, <1>9
<1> QED  BY <1>4, <1>5, <1>10

\* Where a message ends in the stream.
End(s, m) == Len(Upto(s)[m])

\* A message ends where the one before it ends and its own bytes after that.
LEMMA EndIs ==
    ASSUME NEW s \in Streams
    PROVE  /\ Len(s) \in Nat /\ Bytes(s) \in Seq(Byte) /\ Len(Bytes(s)) = End(s, Len(s))
           /\ End(s, 0) = 0
           /\ \A m \in 0 .. Len(s) : End(s, m) \in Nat
           /\ \A m \in 1 .. Len(s) : End(s, m) = End(s, m - 1) + s[m].size
<1>1. Len(s) \in Nat
  BY StreamBufferAssumption
<1>2. \A m \in 0 .. Len(s) : Upto(s)[m] \in Seq(Byte) /\ End(s, m) \in Nat
  BY UptoIs DEF End
<1>3. Bytes(s) \in Seq(Byte) /\ Len(Bytes(s)) = End(s, Len(s))
  BY <1>1, <1>2 DEF Bytes, End
<1>4. End(s, 0) = 0
  BY UptoIs DEF End
<1>5. ASSUME NEW m \in 1 .. Len(s)  PROVE End(s, m) = End(s, m - 1) + s[m].size
  <2>1. m - 1 \in 0 .. Len(s)
    BY <1>1
  <2>2. Upto(s)[m] = Upto(s)[m - 1] \o BytesOf(s, m) /\ Upto(s)[m - 1] \in Seq(Byte)
    BY <2>1, UptoIs
  <2>3. BytesOf(s, m) \in Seq(Byte) /\ Len(BytesOf(s, m)) = s[m].size
    BY MessageIs
  <2>4. Len(Upto(s)[m - 1] \o BytesOf(s, m)) = Len(Upto(s)[m - 1]) + Len(BytesOf(s, m))
    <3> DEFINE a == Upto(s)[m - 1]
               b == BytesOf(s, m)
    <3>1. a \in Seq(Byte) /\ b \in Seq(Byte)
      BY <2>2, <2>3
    <3> HIDE DEF a, b
    <3>2. Len(a \o b) = Len(a) + Len(b)
      BY <3>1, JoinIs
    <3> QED  BY <3>2 DEF a, b
  <2> QED  BY <2>2, <2>3, <2>4 DEF End
<1> QED  BY <1>1, <1>2, <1>3, <1>4, <1>5

\* A later message ends later, and what comes before stays.
LEMMA UptoGrows ==
    ASSUME NEW s \in Streams, NEW m \in 0 .. Len(s)
    PROVE  \A j \in m .. Len(s) :
              /\ m < j => End(s, m) < End(s, j)
              /\ End(s, m) <= End(s, j)
              /\ \A i \in 1 .. End(s, m) : Upto(s)[j][i] = Upto(s)[m][i]
<1> DEFINE n == Len(s)
           Grown(j) == /\ m < j => End(s, m) < End(s, j)
                       /\ End(s, m) <= End(s, j)
                       /\ \A i \in 1 .. End(s, m) : Upto(s)[j][i] = Upto(s)[m][i]
           T == {d \in Nat : m + d <= n => Grown(m + d)}
<1>1. /\ n \in Nat /\ m \in Nat
      /\ \A j \in 0 .. n : End(s, j) \in Nat /\ Upto(s)[j] \in Seq(Byte)
  BY EndIs, UptoIs
<1>2. 0 \in T
  BY <1>1
<1>3. ASSUME NEW d \in Nat, d \in T, m + (d + 1) <= n
      PROVE  Grown(m + (d + 1))
  <2> DEFINE j == m + d
             k == j + 1
  <2>1. j \in 0 .. n /\ k \in 1 .. n /\ k - 1 = j /\ m + (d + 1) = k /\ m <= j
    BY <1>1, <1>3
  <2>2. Grown(j)
    BY <1>1, <1>3
  <2> HIDE DEF j, k
  <2>3. /\ Upto(s)[k] = Upto(s)[j] \o BytesOf(s, k)
        /\ BytesOf(s, k) \in Seq(Byte) /\ Len(BytesOf(s, k)) = s[k].size
        /\ s[k].size \in Nat /\ 2 <= s[k].size
        /\ End(s, k) = End(s, j) + s[k].size
    <3>1. Upto(s)[k] = Upto(s)[j] \o BytesOf(s, k)
      BY <2>1, UptoIs
    <3>2. End(s, k) = End(s, j) + s[k].size
      BY <2>1, EndIs
    <3>3. /\ BytesOf(s, k) \in Seq(Byte) /\ Len(BytesOf(s, k)) = s[k].size
          /\ s[k].size \in Nat /\ s[k].header \in Nat
          /\ 2 <= s[k].header /\ s[k].header <= s[k].size
      BY <2>1, MessageIs
    <3> QED  BY <3>1, <3>2, <3>3
  <2>4. End(s, j) \in Nat /\ End(s, m) \in Nat /\ Upto(s)[j] \in Seq(Byte)
    BY <1>1, <2>1
  <2>5. End(s, m) < End(s, k)
    BY <2>2, <2>3, <2>4
  <2>6. ASSUME NEW i \in 1 .. End(s, m)  PROVE Upto(s)[k][i] = Upto(s)[m][i]
    <3>1. i \in 1 .. End(s, j)
      BY <2>2, <2>4
    <3>2. Upto(s)[k][i] = Upto(s)[j][i]
      BY <2>3, <2>4, <3>1 DEF End
    <3> QED  BY <2>2, <3>2
  <2>7. End(s, m) <= End(s, k)
    BY <2>2, <2>3, <2>4
  <2> QED  BY <2>1, <2>5, <2>6, <2>7
<1>4. \A d \in Nat : d \in T => d + 1 \in T
  <2> HIDE DEF Grown
  <2> QED  BY <1>3
<1>5. Nat \subseteq T
  <2> HIDE DEF T
  <2> QED  BY <1>2, <1>4, InductionOn
<1>6. ASSUME NEW j \in m .. n  PROVE Grown(j)
  <2>1. j - m \in T /\ m + (j - m) = j
    <3> HIDE DEF T
    <3> QED  BY <1>1, <1>5
  <2> HIDE DEF Grown
  <2> QED  BY <1>1, <2>1
<1> QED  BY <1>6

\* Which byte of which message is where.
LEMMA ByteIs ==
    ASSUME NEW s \in Streams
    PROVE  /\ \A m \in 1 .. Len(s), k \in Nat :
                1 <= k /\ k <= s[m].size =>
                   /\ End(s, m - 1) + k \in 1 .. Len(Bytes(s))
                   /\ Bytes(s)[End(s, m - 1) + k] = [msg |-> m, at |-> k]
           /\ \A b \in 1 .. Len(Bytes(s)) :
                \E m \in 1 .. Len(s) : End(s, m - 1) < b /\ b <= End(s, m)
<1> DEFINE n == Len(s)
<1>1. /\ n \in Nat /\ Bytes(s) \in Seq(Byte) /\ Len(Bytes(s)) = End(s, n) /\ End(s, 0) = 0
      /\ \A m \in 0 .. n : End(s, m) \in Nat
      /\ \A m \in 1 .. n : End(s, m) = End(s, m - 1) + s[m].size
  BY EndIs
<1>2. ASSUME NEW m \in 1 .. n, NEW k \in Nat, 1 <= k, k <= s[m].size
      PROVE  /\ End(s, m - 1) + k \in 1 .. Len(Bytes(s))
             /\ Bytes(s)[End(s, m - 1) + k] = [msg |-> m, at |-> k]
  <2> DEFINE before == Upto(s)[m - 1]
             own == BytesOf(s, m)
             place == End(s, m - 1) + k
  <2>1. m - 1 \in 0 .. n /\ m \in 0 .. n /\ n \in m .. n
    BY <1>1
  <2>2. /\ Upto(s)[m] = before \o own /\ before \in Seq(Byte)
        /\ own \in Seq(Byte) /\ Len(own) = s[m].size /\ s[m].size \in Nat
        /\ own[k] = [msg |-> m, at |-> k] /\ Len(before) = End(s, m - 1)
    <3>1. before \in Seq(Byte) /\ Upto(s)[m] = before \o own /\ Len(before) = End(s, m - 1)
      BY <2>1, UptoIs DEF End
    <3>2. /\ own \in Seq(Byte) /\ Len(own) = s[m].size /\ s[m].size \in Nat
          /\ own[k] = [msg |-> m, at |-> k]
      BY <1>2, MessageIs
    <3> QED  BY <3>1, <3>2
  <2>3. End(s, m) <= End(s, n) /\ \A i \in 1 .. End(s, m) : Upto(s)[n][i] = Upto(s)[m][i]
    BY <2>1, UptoGrows
  <2>4. place \in 1 .. End(s, m) /\ place \in 1 .. End(s, n)
    <3>1. End(s, m) = End(s, m - 1) + s[m].size /\ End(s, m - 1) \in Nat /\ End(s, n) \in Nat
      BY <1>1, <2>1
    <3> HIDE DEF n
    <3> QED  BY <1>2, <2>2, <2>3, <3>1
  <2> HIDE DEF before, own
  <2>5. (before \o own)[place] = own[k]
    BY <1>2, <2>2
  <2>6. Bytes(s)[place] = Upto(s)[m][place]
    BY <2>3, <2>4 DEF Bytes
  <2> HIDE DEF place
  <2> QED  BY <1>1, <2>2, <2>4, <2>5, <2>6 DEF place
<1>3. ASSUME NEW b \in 1 .. Len(Bytes(s))
      PROVE  \E m \in 1 .. n : End(s, m - 1) < b /\ b <= End(s, m)
  <2> DEFINE T == {m \in 0 .. n : b <= End(s, m)}
  <2>1. T \subseteq Nat /\ n \in T
    BY <1>1
  <2>2. PICK m \in T : \A k \in T : m <= k
    <3> HIDE DEF T
    <3> QED  BY <2>1, LeastOf
  <2>3. m \in 1 .. n
    BY <1>1
  <2>4. m - 1 \in 0 .. n /\ m - 1 \notin T
    BY <1>1, <2>2, <2>3
  <2>5. End(s, m - 1) < b
    BY <1>1, <2>4
  <2> QED  BY <2>3, <2>5
<1> QED  BY <1>2, <1>3

-----------------------------------------------------------------------------
(* The loop over a buffer.                                                 *)

\* Of the bytes behind message w, r of the stream having been received, the
\* loop has taken the messages up to v.
Taken(loop, w, r, v) ==
    /\ w <= v /\ End(stream, v) <= r
    /\ loop.at = End(stream, v) - End(stream, w)
    /\ loop.done = [i \in 1 .. v - w |-> BytesOf(stream, w + i)]
    /\ \A m \in w + 1 .. v : ~stream[m].wrong
    /\ loop.why = "empty" => End(stream, v) = r
    /\ loop.why = "broken" => v < Len(stream) /\ stream[v + 1].wrong
    /\ loop.why = "partial" => v < Len(stream) /\ r < End(stream, v + 1)

Loops(w, r) ==
    {loop \in [done : Seq(Seq(Byte)), at : Nat, why : {"more", "empty", "broken", "partial"}] :
        \E v \in 0 .. Len(stream) : Taken(loop, w, r, v)}

\* A turn of the loop takes the next message or ends the loop for its reason.
LEMMA TurnIs ==
    ASSUME stream \in Streams, NEW w \in 0 .. Len(stream), NEW r \in 0 .. Len(Bytes(stream)),
           End(stream, w) <= r, NEW loop \in Loops(w, r)
    PROVE  LET then == Turn(SubSeq(Bytes(stream), End(stream, w) + 1, r), loop)
           IN  /\ then \in Loops(w, r)
               /\ then.why = "more" => loop.why = "more" /\ loop.at + 1 <= then.at
<1> DEFINE n == Len(stream)
           B == Bytes(stream)
           first == End(stream, w)
           bytes == SubSeq(B, first + 1, r)
           rest == SubSeq(bytes, loop.at + 1, Len(bytes))
           pdulen == CheckPacket(rest)
           then == Turn(bytes, loop)
<1> SUFFICES then \in Loops(w, r) /\ (then.why = "more" => loop.why = "more" /\ loop.at + 1 <= then.at)
  OBVIOUS
<1>1. PICK v \in 0 .. n : Taken(loop, w, r, v)
  BY DEF Loops
<1>2. /\ n \in Nat /\ B \in Seq(Byte) /\ Len(B) = End(stream, n) /\ r \in Nat /\ r <= Len(B)
      /\ \A m \in 0 .. n : End(stream, m) \in Nat
      /\ first \in Nat
  BY EndIs
<1>3. /\ loop.done \in Seq(Seq(Byte)) /\ loop.at \in Nat
      /\ loop.why \in {"more", "empty", "broken", "partial"}
  BY DEF Loops
<1> DEFINE start == End(stream, v)
<1>4. /\ start \in Nat /\ start <= r /\ loop.at = start - first /\ first <= start
      /\ first + loop.at = start
  BY <1>1, <1>2, <1>3 DEF Taken
<1>5. bytes \in Seq(Byte) /\ Len(bytes) = r - first
  BY <1>2, PartIs
<1>6. rest = SubSeq(B, start + 1, r)
  <2>1. r - first \in Nat /\ loop.at <= r - first /\ first + (r - first) = r
    BY <1>2, <1>4
  <2>2. SubSeq(SubSeq(B, first + 1, r), loop.at + 1, r - first)
          = SubSeq(B, first + loop.at + 1, first + (r - first))
    <3> DEFINE c == loop.at
               d == r - first
    <3>1. /\ B \in Seq(Byte) /\ first \in Nat /\ r \in Nat /\ first <= r /\ r <= Len(B)
          /\ c \in Nat /\ d \in Nat /\ c <= d /\ d <= r - first
      BY <1>2, <1>3, <1>4, <2>1
    <3> HIDE DEF first, B, c, d
    <3>2. SubSeq(SubSeq(B, first + 1, r), c + 1, d) = SubSeq(B, first + c + 1, first + d)
      <4>1. \A s \in Seq(Byte), i, j, k, l \in Nat :
              i <= j /\ j <= Len(s) /\ k <= l /\ l <= j - i =>
                SubSeq(SubSeq(s, i + 1, j), k + 1, l) = SubSeq(s, i + k + 1, i + l)
        BY PartOfPart
      <4> QED  BY <3>1, <4>1
    <3> QED  BY <3>2 DEF c, d
  <2> QED  BY <1>4, <1>5, <2>1, <2>2
<1>7. /\ rest \in Seq(Byte) /\ Len(rest) = r - start
      /\ \A k \in 1 .. r - start : rest[k] = B[start + k]
  <2> HIDE DEF start, B, rest
  <2> QED  BY <1>2, <1>4, <1>6, PartIs
<1>8. then = IF loop.why # "more" THEN loop
             ELSE IF rest = <<>> THEN [loop EXCEPT !.why = "empty"]
             ELSE IF pdulen = Wrong THEN [loop EXCEPT !.why = "broken"]
             ELSE IF pdulen = 0 \/ Len(rest) < pdulen THEN [loop EXCEPT !.why = "partial"]
             ELSE [loop EXCEPT !.done = Append(@, SubSeq(rest, 1, pdulen)), !.at = @ + pdulen]
  BY DEF Turn
<1> HIDE DEF then, pdulen, rest, bytes
<1>9. CASE loop.why # "more"
  BY <1>8, <1>9
<1>10. ASSUME loop.why = "more", NEW why \in {"empty", "broken", "partial"},
              then = [loop EXCEPT !.why = why],
              why = "empty" => start = r,
              why = "broken" => v < n /\ stream[v + 1].wrong,
              why = "partial" => v < n /\ r < End(stream, v + 1)
       PROVE  then \in Loops(w, r) /\ then.why # "more"
  <2>1. /\ then.done = loop.done /\ then.at = loop.at /\ then.why = why
        /\ then \in [done : Seq(Seq(Byte)), at : Nat,
                     why : {"more", "empty", "broken", "partial"}]
    BY <1>3, <1>10 DEF Loops
  <2>2. Taken(then, w, r, v)
    BY <1>1, <1>10, <2>1 DEF Taken
  <2> QED  BY <1>10, <2>1, <2>2 DEF Loops
<1>11. CASE loop.why = "more" /\ rest = <<>>
  <2>1. start = r
    BY <1>2, <1>4, <1>7, <1>11
  <2>2. then = [loop EXCEPT !.why = "empty"]
    BY <1>8, <1>11
  <2> QED  BY <1>10, <1>11, <2>1, <2>2
<1>12. CASE loop.why = "more" /\ rest # <<>>
  <2>1. start < r
    BY <1>2, <1>4, <1>7, <1>12
  <2>2. v < n
    <3>1. CASE v = n
      BY <1>2, <1>4, <2>1, <3>1
    <3> QED  BY <1>2, <3>1
  <2> DEFINE m == v + 1
             size == stream[m].size
  <2>3. m \in 1 .. n /\ m - 1 = v
    BY <1>2, <2>2
  <2>4. /\ size \in Nat /\ stream[m].header \in Nat /\ stream[m].wrong \in BOOLEAN
        /\ 2 <= stream[m].header /\ stream[m].header <= size
        /\ BytesOf(stream, m) \in Seq(Byte) /\ Len(BytesOf(stream, m)) = size
        /\ \A k \in 1 .. size : BytesOf(stream, m)[k] = [msg |-> m, at |-> k]
    BY <2>3, MessageIs
  <2>5. End(stream, m) = start + size
    BY <2>3, EndIs
  <2>6. \A k \in 1 .. size : k \in Nat /\ B[start + k] = [msg |-> m, at |-> k]
    <3> SUFFICES ASSUME NEW k \in 1 .. size  PROVE k \in Nat /\ B[start + k] = [msg |-> m, at |-> k]
      OBVIOUS
    <3>1. k \in Nat /\ 1 <= k /\ k <= size
      BY <2>4
    <3> HIDE DEF m
    <3> QED  BY <2>3, <3>1, ByteIs DEF m
  <2>7. rest[1] = [msg |-> m, at |-> 1]
    <3>1. 1 \in 1 .. r - start /\ 1 \in 1 .. size
      BY <1>2, <1>4, <2>1, <2>4
    <3> QED  BY <1>7, <2>6, <3>1
  <2>8. pdulen = IF Len(rest) < 2 THEN 0
                 ELSE IF stream[m].wrong THEN Wrong
                 ELSE IF Len(rest) < stream[m].header THEN 0
                 ELSE size
    BY <2>7 DEF CheckPacket, pdulen
  <2> HIDE DEF m, size
  <2>9. CASE pdulen = Wrong
    <3>1. Wrong # 0 /\ Wrong # size
      BY <2>4 DEF Wrong
    <3>2. stream[m].wrong
      BY <2>4, <2>8, <2>9, <3>1
    <3>3. then = [loop EXCEPT !.why = "broken"]
      BY <1>8, <1>12, <2>9
    <3> QED  BY <1>10, <1>12, <2>2, <3>2, <3>3 DEF m
  <2>10. CASE pdulen # Wrong /\ (pdulen = 0 \/ Len(rest) < pdulen)
    <3>1. Len(rest) < size
      <4>1. Len(rest) \in Nat
        BY <1>7
      <4> QED  BY <2>4, <2>8, <2>10, <4>1
    <3>2. r < End(stream, m)
      BY <1>2, <1>4, <1>7, <2>4, <2>5, <3>1
    <3>3. then = [loop EXCEPT !.why = "partial"]
      BY <1>8, <1>12, <2>10
    <3> QED  BY <1>10, <1>12, <2>2, <3>2, <3>3 DEF m
  <2>11. CASE pdulen # Wrong /\ pdulen # 0 /\ ~ (Len(rest) < pdulen)
    <3>1. pdulen = size /\ ~stream[m].wrong
      BY <2>4, <2>8, <2>11
    <3>2. size <= r - start /\ size \in 0 .. Len(rest)
      BY <1>2, <1>4, <1>7, <2>4, <2>11, <3>1
    <3> DEFINE part == SubSeq(rest, 1, size)
    <3>3. part = BytesOf(stream, m)
      <4>1. /\ SubSeq(rest, 0 + 1, size) \in Seq(Byte)
            /\ Len(SubSeq(rest, 0 + 1, size)) = size - 0
            /\ \A k \in 1 .. size - 0 : SubSeq(rest, 0 + 1, size)[k] = rest[0 + k]
        BY <1>7, <2>4, <3>2, PartIs
      <4>2. part \in Seq(Byte) /\ Len(part) = size /\ \A k \in 1 .. size : part[k] = rest[k]
        <5>1. 0 + 1 = 1 /\ size - 0 = size /\ \A k \in 1 .. size : 0 + k = k
          BY <2>4
        <5> QED  BY <4>1, <5>1
      <4>3. \A k \in 1 .. size : k \in 1 .. r - start
        BY <1>2, <1>4, <2>4, <3>2
      <4>4. \A k \in 1 .. size : part[k] = BytesOf(stream, m)[k]
        BY <1>7, <2>4, <2>6, <4>2, <4>3
      <4> HIDE DEF part
      <4> QED  BY <2>4, <4>2, <4>4, SameSequence
    <3>4. then = [loop EXCEPT !.done = Append(@, part), !.at = @ + size]
      BY <1>8, <1>12, <2>11, <3>1
    <3> HIDE DEF part
    <3>5. /\ then.done = Append(loop.done, BytesOf(stream, m)) /\ then.at = loop.at + size
          /\ then.why = "more"
          /\ then \in [done : Seq(Seq(Byte)), at : Nat,
                       why : {"more", "empty", "broken", "partial"}]
      <4>1. Append(loop.done, BytesOf(stream, m)) \in Seq(Seq(Byte)) /\ loop.at + size \in Nat
        BY <1>3, <2>4
      <4>2. loop \in [done : Seq(Seq(Byte)), at : Nat,
                      why : {"more", "empty", "broken", "partial"}]
        BY DEF Loops
      <4> QED  BY <1>12, <3>3, <3>4, <4>1, <4>2
    <3>6. Append(loop.done, BytesOf(stream, m)) = [i \in 1 .. m - w |-> BytesOf(stream, w + i)]
      <4> DEFINE len == v - w
                 done == [i \in 1 .. len |-> BytesOf(stream, w + i)]
      <4>1. len \in Nat /\ m - w = len + 1 /\ w + (len + 1) = m
        BY <1>1, <1>2 DEF Taken, m
      <4>2. loop.done = done
        BY <1>1 DEF Taken
      <4>3. Len(loop.done) = len
        <5> HIDE DEF len
        <5> QED  BY <1>3, <4>1, <4>2
      <4>4. Append(loop.done, BytesOf(stream, m))
              = [i \in 1 .. len + 1 |-> IF i = len + 1 THEN BytesOf(stream, m) ELSE loop.done[i]]
        <5> HIDE DEF len, done
        <5> QED  BY <1>3, <4>1, <4>3
      <4>5. \A i \in 1 .. len + 1 : (IF i = len + 1 THEN BytesOf(stream, m) ELSE loop.done[i])
                                      = BytesOf(stream, w + i)
        <5>1. \A i \in 1 .. len + 1 : i = len + 1 \/ i \in 1 .. len
          BY <4>1
        <5> HIDE DEF len
        <5> QED  BY <4>1, <4>2, <5>1
      <4> HIDE DEF len, done
      <4> QED  BY <4>1, <4>4, <4>5
    <3>7. /\ w <= m /\ End(stream, m) <= r
          /\ then.at = End(stream, m) - first
          /\ \A j \in w + 1 .. m : ~stream[j].wrong
      <4>1. w <= v /\ \A j \in w + 1 .. v : ~stream[j].wrong
        BY <1>1 DEF Taken
      <4>2. \A j \in w + 1 .. m : j \in w + 1 .. v \/ j = m
        BY <1>2 DEF m
      <4>3. w <= m
        BY <1>2, <4>1 DEF m
      <4>4. End(stream, m) <= r /\ then.at = End(stream, m) - first
        <5> HIDE DEF first, start
        <5> QED  BY <1>2, <1>4, <2>4, <2>5, <3>2, <3>5
      <4> QED  BY <3>1, <4>1, <4>2, <4>3, <4>4
    <3>8. Taken(then, w, r, m)
      BY <3>5, <3>6, <3>7 DEF Taken
    <3>9. m \in 0 .. n
      BY <1>2, <2>3
    <3>10. then.at >= loop.at + 1
      BY <1>3, <2>4, <3>5
    <3> QED  BY <1>12, <3>5, <3>8, <3>9, <3>10 DEF Loops
  <2> QED  BY <2>9, <2>10, <2>11
<1> QED  BY <1>3, <1>9, <1>11, <1>12

\* The loop ends, after at most one turn for each byte and one more.
LEMMA ProcessingIs ==
    ASSUME stream \in Streams, NEW w \in 0 .. Len(stream), NEW r \in 0 .. Len(Bytes(stream)),
           End(stream, w) <= r
    PROVE  LET p == Processing(SubSeq(Bytes(stream), End(stream, w) + 1, r))
           IN  p \in Loops(w, r) /\ p.why # "more"
<1> DEFINE first == End(stream, w)
           bytes == SubSeq(Bytes(stream), first + 1, r)
           start == [done |-> <<>>, at |-> 0, why |-> "more"]
           S == Loops(w, r)
           len == Len(bytes)
           g == [l \in S |-> Turn(bytes, l)]
           Next(f) == [i \in 0 .. len + 1 |-> IF i = 0 THEN start ELSE Turn(bytes, f[i - 1])]
           loop == CHOOSE f : f = Next(f)
<1>1. /\ Bytes(stream) \in Seq(Byte) /\ Len(Bytes(stream)) \in Nat /\ r \in Nat
      /\ r <= Len(Bytes(stream)) /\ first \in Nat /\ Len(stream) \in Nat
  BY EndIs
<1>2. len = r - first /\ len \in Nat
  <2> HIDE DEF first
  <2>1. Len(bytes) = r - first
    BY <1>1, PartIs DEF first
  <2> QED  BY <1>1, <2>1 DEF first
<1>3. start \in S
  <2>1. Taken(start, w, r, w)
    <3>1. w - w = 0 /\ w \in Nat /\ 1 .. 0 = {} /\ w + 1 .. w = {}
      OBVIOUS
    <3>2. [i \in 1 .. w - w |-> BytesOf(stream, w + i)] = <<>>
      BY <3>1
    <3>3. start.at = first - first /\ start.done = <<>> /\ start.why = "more"
      BY <1>1
    <3> QED  BY <3>1, <3>2, <3>3 DEF Taken
  <2>2. <<>> \in Seq(Seq(Byte))
    OBVIOUS
  <2>3. start \in [done : Seq(Seq(Byte)), at : Nat, why : {"more", "empty", "broken", "partial"}]
    BY <2>2
  <2> HIDE DEF start
  <2> QED  BY <2>1, <2>3 DEF Loops
<1>4. \A l \in S : /\ Turn(bytes, l) \in S
                   /\ Turn(bytes, l).why = "more" => l.why = "more" /\ l.at + 1 <= Turn(bytes, l).at
  BY TurnIs
<1>5. \A l \in S : /\ l.at \in Nat /\ l.at <= len
                   /\ l.why \in {"more", "empty", "broken", "partial"}
  <2> SUFFICES ASSUME NEW l \in S
               PROVE  /\ l.at \in Nat /\ l.at <= len
                      /\ l.why \in {"more", "empty", "broken", "partial"}
    OBVIOUS
  <2>1. PICK v \in 0 .. Len(stream) : Taken(l, w, r, v)
    BY DEF Loops
  <2>2. End(stream, v) \in Nat /\ End(stream, v) <= r /\ l.at = End(stream, v) - first
    BY <2>1, EndIs DEF Taken
  <2>3. l.at <= len
    <3> HIDE DEF len, first
    <3> QED  BY <1>1, <1>2, <2>2
  <2> QED  BY <2>3 DEF Loops
<1>6. Processing(bytes) = loop[len + 1]
  BY DEF Processing
<1> HIDE DEF bytes, start, S, len, first
<1>7. \E f : f = Next(f)
  <2>1. g \in [S -> S] /\ \A l \in S : g[l] = Turn(bytes, l)
    BY <1>4
  <2> DEFINE n == len + 1
  <2>2. n \in Nat
    BY <1>2
  <2> HIDE DEF g, n
  <2>3. PICK f : Iterates(f, S, start, n, g)
    BY <1>3, <2>1, <2>2, IterationOn
  <2>4. f \in [0 .. n -> S] /\ f[0] = start /\ \A i \in 1 .. n : f[i] = g[f[i - 1]]
    BY <2>3 DEF Iterates
  <2>5. ASSUME NEW i \in 0 .. n
        PROVE  f[i] = IF i = 0 THEN start ELSE Turn(bytes, f[i - 1])
    <3>1. CASE i = 0
      BY <2>4, <3>1
    <3>2. CASE i # 0
      <4>1. i \in 1 .. n /\ i - 1 \in 0 .. n
        BY <2>2, <3>2
      <4> QED  BY <2>1, <2>4, <3>2, <4>1
    <3> QED  BY <3>1, <3>2
  <2>6. f = [i \in 0 .. n |-> IF i = 0 THEN start ELSE Turn(bytes, f[i - 1])]
    BY <2>4, <2>5
  <2> QED  BY <2>6 DEF n
<1>8. loop = Next(loop)
  <2> HIDE DEF Next
  <2> QED  BY <1>7
<1>9. \A i \in 0 .. len + 1 : loop[i] = IF i = 0 THEN start ELSE Turn(bytes, loop[i - 1])
  <2>1. \A i \in 0 .. len + 1 : loop[i] = Next(loop)[i]
    <3> HIDE DEF Next, loop
    <3> QED  BY <1>8
  <2> HIDE DEF loop
  <2> QED  BY <2>1
<1> HIDE DEF loop, Next
<1> DEFINE T == {i \in Nat : i <= len + 1 =>
                    loop[i] \in S /\ (loop[i].why = "more" => i <= loop[i].at)}
<1>10. 0 \in T
  <2>1. loop[0] = start
    BY <1>2, <1>9
  <2> QED  BY <1>3, <1>5, <2>1
<1>11. ASSUME NEW i \in Nat, i \in T, i + 1 <= len + 1
       PROVE  loop[i + 1] \in S /\ (loop[i + 1].why = "more" => i + 1 <= loop[i + 1].at)
  <2>1. loop[i] \in S /\ (loop[i].why = "more" => i <= loop[i].at)
    BY <1>2, <1>11
  <2>2. i + 1 \in 0 .. len + 1 /\ i + 1 # 0 /\ (i + 1) - 1 = i
    BY <1>2, <1>11
  <2>3. loop[i + 1] = Turn(bytes, loop[i])
    BY <1>9, <2>2
  <2>4. loop[i + 1] \in S
        /\ (loop[i + 1].why = "more" => loop[i].why = "more" /\ loop[i].at + 1 <= loop[i + 1].at)
    BY <1>4, <2>1, <2>3
  <2>5. loop[i].at \in Nat /\ loop[i + 1].at \in Nat
    BY <1>5, <2>1, <2>4
  <2> QED  BY <2>1, <2>4, <2>5
<1>12. \A i \in Nat : i \in T => i + 1 \in T
  BY <1>11
<1>13. Nat \subseteq T
  <2> HIDE DEF T
  <2> QED  BY <1>10, <1>12, InductionOn
<1>14. loop[len + 1] \in S /\ (loop[len + 1].why = "more" => len + 1 <= loop[len + 1].at)
  <2>1. len + 1 \in Nat
    BY <1>2
  <2> QED  BY <1>13, <2>1
<1>15. loop[len + 1].why # "more"
  BY <1>2, <1>5, <1>14
<1> QED  BY <1>6, <1>14, <1>15 DEF bytes, S, first

-----------------------------------------------------------------------------
(* The inductive invariant.                                                *)

\* The messages up to w have been processed, and the next one cannot be.
Cut(w) ==
    /\ End(stream, w) <= received
    /\ processed = [m \in 1 .. w |-> BytesOf(stream, m)]
    /\ \A m \in 1 .. w : ~stream[m].wrong
    /\ w < Len(stream) => stream[w + 1].wrong \/ received < End(stream, w + 1)
    /\ open => packet = SubSeq(Bytes(stream), End(stream, w) + 1, received)

StreamInv ==
    /\ stream \in Streams /\ open \in BOOLEAN
    /\ received \in 0 .. Len(Bytes(stream))
    /\ wire = SubSeq(Bytes(stream), received + 1, Len(Bytes(stream)))
    /\ \E w \in 0 .. Len(stream) : Cut(w)

\* Nothing has been received and nothing is to be processed.
LEMMA StreamStarts ==
    ASSUME StreamInit
    PROVE  StreamInv
<1> DEFINE B == Bytes(stream)
<1>1. /\ stream \in Streams /\ wire = B /\ received = 0 /\ packet = <<>> /\ processed = <<>>
      /\ open = TRUE
  BY DEF StreamInit
<1>2. /\ Len(stream) \in Nat /\ B \in Seq(Byte) /\ Len(B) \in Nat /\ End(stream, 0) = 0
      /\ \A m \in 0 .. Len(stream) : End(stream, m) \in Nat
      /\ \A m \in 1 .. Len(stream) : End(stream, m) = End(stream, m - 1) + stream[m].size
  BY <1>1, EndIs
<1> HIDE DEF B
<1>3. wire = SubSeq(B, 0 + 1, Len(B))
  <2>1. /\ SubSeq(B, 0 + 1, Len(B)) \in Seq(Byte)
        /\ Len(SubSeq(B, 0 + 1, Len(B))) = Len(B) - 0
        /\ \A k \in 1 .. Len(B) - 0 : SubSeq(B, 0 + 1, Len(B))[k] = B[0 + k]
    BY <1>2, PartIs
  <2> DEFINE all == SubSeq(B, 0 + 1, Len(B))
  <2> HIDE DEF all
  <2>2. all \in Seq(Byte) /\ Len(all) = Len(B) /\ \A k \in 1 .. Len(B) : B[k] = all[k]
    BY <1>2, <2>1 DEF all
  <2>3. B = all
    BY <1>2, <2>2, SameSequence
  <2> QED  BY <1>1, <2>3 DEF all, B
<1>4. SubSeq(B, 0 + 1, 0) = <<>>
  BY <1>2
<1>5. 0 < Len(stream) => received < End(stream, 0 + 1)
  <2> SUFFICES ASSUME 0 < Len(stream)  PROVE received < End(stream, 1)
    OBVIOUS
  <2>1. 1 \in 1 .. Len(stream) /\ 1 - 1 = 0
    BY <1>2
  <2>2. /\ stream[1].size \in Nat /\ stream[1].header \in Nat
        /\ 2 <= stream[1].header /\ stream[1].header <= stream[1].size
    BY <1>1, <2>1, MessageIs
  <2>3. End(stream, 1) = End(stream, 0) + stream[1].size
    BY <1>2, <2>1
  <2> QED  BY <1>1, <1>2, <2>2, <2>3
<1>6. [m \in 1 .. 0 |-> BytesOf(stream, m)] = <<>>
  OBVIOUS
<1>7. Cut(0)
  BY <1>1, <1>2, <1>4, <1>5, <1>6 DEF Cut, B
<1>8. 0 \in 0 .. Len(stream) /\ received \in 0 .. Len(B)
  BY <1>1, <1>2
<1> QED  BY <1>1, <1>3, <1>7, <1>8 DEF StreamInv, B

\* A read processes what has become whole and keeps the rest, wherever it was cut.
LEMMA ReceiveKeeps ==
    ASSUME StreamInv, NEW n \in 1 .. Len(wire), ReceiveBytes(n)
    PROVE  StreamInv'
<1> DEFINE B == Bytes(stream)
           r == received + n
           bytes == packet \o SubSeq(wire, 1, n)
           p == Processing(bytes)
<1>1. PICK w \in 0 .. Len(stream) : Cut(w)
  BY DEF StreamInv
<1> DEFINE first == End(stream, w)
<1>2. /\ stream \in Streams /\ B \in Seq(Byte) /\ Len(B) \in Nat /\ Len(stream) \in Nat
      /\ first \in Nat /\ first <= received /\ received \in Nat /\ received <= Len(B)
      /\ wire = SubSeq(B, received + 1, Len(B))
      /\ \A m \in 0 .. Len(stream) : End(stream, m) \in Nat
  BY <1>1, EndIs DEF StreamInv, Cut
<1>3. /\ open /\ stream' = stream /\ received' = r
      /\ wire' = SubSeq(wire, n + 1, Len(wire)) /\ processed' = processed \o p.done
  BY DEF ReceiveBytes
<1>4. /\ packet = SubSeq(B, first + 1, received)
      /\ processed = [m \in 1 .. w |-> BytesOf(stream, m)]
      /\ \A m \in 1 .. w : ~stream[m].wrong
  BY <1>1, <1>3 DEF Cut
<1> HIDE DEF B
<1>5. Len(wire) = Len(B) - received
  BY <1>2, PartIs
<1>6. r \in Nat /\ received <= r /\ r <= Len(B) /\ first <= r /\ n \in Nat
  <2> HIDE DEF first
  <2> QED  BY <1>2, <1>5
<1> DEFINE len == Len(B)
<1>7. SubSeq(wire, 1, n) = SubSeq(B, received + 1, r)
      /\ wire' = SubSeq(B, r + 1, len)
  <2>1. \A s \in Seq(Byte), i, j, k, l \in Nat :
          i <= j /\ j <= Len(s) /\ k <= l /\ l <= j - i =>
            SubSeq(SubSeq(s, i + 1, j), k + 1, l) = SubSeq(s, i + k + 1, i + l)
    BY PartOfPart
  <2>2. len - received \in Nat /\ 0 <= n /\ n <= len - received
        /\ received + (len - received) = len /\ 0 \in Nat
    BY <1>2, <1>6
  <2>3. SubSeq(SubSeq(B, received + 1, len), 0 + 1, n) = SubSeq(B, received + 0 + 1, received + n)
    <3> HIDE DEF len
    <3> QED  BY <1>2, <1>6, <2>1, <2>2 DEF len
  <2>4. SubSeq(SubSeq(B, received + 1, len), n + 1, len - received)
          = SubSeq(B, received + n + 1, received + (len - received))
    <3> DEFINE rest == len - received
    <3>1. rest \in Nat /\ n <= rest /\ rest <= len - received
      BY <2>2
    <3> HIDE DEF rest
    <3>2. SubSeq(SubSeq(B, received + 1, len), n + 1, rest)
            = SubSeq(B, received + n + 1, received + rest)
      BY <1>2, <1>6, <2>1, <3>1
    <3> QED  BY <3>2 DEF rest
  <2>5. received + 0 + 1 = received + 1 /\ 0 + 1 = 1
    BY <1>2
  <2> QED  BY <1>2, <1>3, <1>5, <2>2, <2>3, <2>4, <2>5
<1>8. bytes = SubSeq(B, first + 1, r)
  <2> HIDE DEF r, first
  <2>1. SubSeq(B, first + 1, received) \o SubSeq(B, received + 1, r) = SubSeq(B, first + 1, r)
    BY <1>2, <1>6, PartsJoin
  <2> QED  BY <1>4, <1>7, <2>1
<1>9. r \in 0 .. Len(B)
  BY <1>6
<1>10. p \in Loops(w, r) /\ p.why # "more"
  BY <1>2, <1>6, <1>8, <1>9, ProcessingIs DEF B
<1>11. /\ packet' = IF p.why = "empty" THEN <<>>
                    ELSE IF p.why = "broken" \/ (p.why = "partial" /\ p.at = 0) THEN bytes
                    ELSE SubSeq(bytes, p.at + 1, Len(bytes))
       /\ open' \in BOOLEAN /\ (open' => p.why # "broken")
  <2>1. p.why \in {"empty", "broken", "partial"} /\ open = TRUE
    BY <1>3, <1>10 DEF Loops, StreamInv
  <2>2. CASE p.why = "empty"
    <3>1. packet' = <<>> /\ open' = open
      BY <2>2 DEF ReceiveBytes
    <3> QED  BY <2>1, <2>2, <3>1
  <2>3. CASE p.why = "broken"
    <3>1. packet' = bytes /\ open' = FALSE
      BY <2>3 DEF ReceiveBytes
    <3> QED  BY <2>3, <3>1
  <2>4. CASE p.why = "partial" /\ p.at = 0
    <3>1. packet' = bytes /\ open' = open
      BY <2>4 DEF ReceiveBytes
    <3> QED  BY <2>1, <2>4, <3>1
  <2>5. CASE p.why = "partial" /\ p.at # 0
    <3>1. packet' = Left(bytes, p.at) /\ open' = (Len(bytes) - p.at < MaxPacket)
      BY <2>5 DEF ReceiveBytes
    <3>2. open' \in BOOLEAN
      BY <3>1
    <3>3. packet' = SubSeq(bytes, p.at + 1, Len(bytes))
      BY <3>1 DEF Left
    <3> HIDE DEF p, bytes
    <3> QED  BY <2>5, <3>2, <3>3
  <2> QED  BY <2>1, <2>2, <2>3, <2>4, <2>5
<1> HIDE DEF p, bytes, r
<1>12. PICK v \in 0 .. Len(stream) : Taken(p, w, r, v)
  BY <1>10 DEF Loops
<1> DEFINE next == End(stream, v)
<1>13. /\ p.why \in {"empty", "broken", "partial"} /\ p.at \in Nat
       /\ next \in Nat /\ next <= r /\ p.at = next - first /\ first + p.at = next
       /\ w <= v /\ first <= next
  <2>1. p.why \in {"empty", "broken", "partial"} /\ p.at \in Nat
    BY <1>10 DEF Loops
  <2>2. next \in Nat /\ next <= r /\ p.at = next - first /\ w <= v
    BY <1>2, <1>12 DEF Taken
  <2> HIDE DEF next, first
  <2> QED  BY <1>2, <2>1, <2>2
<1>14. open' => packet' = SubSeq(B, next + 1, r)
  <2> SUFFICES ASSUME open'  PROVE packet' = SubSeq(B, next + 1, r)
    OBVIOUS
  <2>1. CASE p.why = "empty"
    <3>1. next = r /\ packet' = <<>>
      BY <1>11, <1>12, <2>1 DEF Taken
    <3> HIDE DEF next
    <3> QED  BY <1>2, <1>6, <3>1
  <2>2. CASE p.why = "partial"
    <3>1. SubSeq(bytes, p.at + 1, Len(bytes)) = SubSeq(B, next + 1, r)
      <4> DEFINE c == p.at
                 d == r - first
      <4>1. Len(bytes) = d
        <5> HIDE DEF first
        <5> QED  BY <1>2, <1>6, <1>8, PartIs
      <4>2. /\ c \in Nat /\ d \in Nat /\ c <= d /\ d <= r - first
            /\ first + c = next /\ first + d = r
        <5> HIDE DEF first, next
        <5> QED  BY <1>2, <1>6, <1>13
      <4> HIDE DEF c, d, first, next
      <4>3. SubSeq(SubSeq(B, first + 1, r), c + 1, d) = SubSeq(B, first + c + 1, first + d)
        <5>1. \A s \in Seq(Byte), i, j, k, l \in Nat :
                i <= j /\ j <= Len(s) /\ k <= l /\ l <= j - i =>
                  SubSeq(SubSeq(s, i + 1, j), k + 1, l) = SubSeq(s, i + k + 1, i + l)
          BY PartOfPart
        <5> QED  BY <1>2, <1>6, <4>2, <5>1
      <4> QED  BY <1>8, <4>1, <4>2, <4>3 DEF c
    <3>2. p.at = 0 => bytes = SubSeq(B, next + 1, r)
      <4> SUFFICES ASSUME p.at = 0  PROVE next = first
        BY <1>8
      <4> HIDE DEF first, next
      <4> QED  BY <1>2, <1>13
    <3> QED  BY <1>11, <2>2, <3>1, <3>2
  <2>3. p.why # "broken"
    BY <1>11
  <2> QED  BY <1>13, <2>1, <2>2, <2>3
<1>15. processed' = [m \in 1 .. v |-> BytesOf(stream, m)]
  <2> DEFINE more == [i \in 1 .. v - w |-> BytesOf(stream, w + i)]
             old == [m \in 1 .. w |-> BytesOf(stream, m)]
             both == old \o more
             all == [m \in 1 .. v |-> BytesOf(stream, m)]
  <2>1. processed' = both
    BY <1>3, <1>4, <1>12 DEF Taken
  <2>2. /\ w \in Nat /\ v \in Nat /\ v - w \in Nat /\ v <= Len(stream)
    BY <1>2, <1>13
  <2>3. \A m \in 1 .. Len(stream) : BytesOf(stream, m) \in Seq(Byte)
    BY <1>2, MessageIs
  <2>4. old \in Seq(Seq(Byte)) /\ Len(old) = w /\ \A k \in 1 .. w : old[k] = BytesOf(stream, k)
    BY <1>2, <2>2, <2>3
  <2>5. more \in Seq(Seq(Byte)) /\ Len(more) = v - w
        /\ \A k \in 1 .. v - w : more[k] = BytesOf(stream, w + k)
    <3>1. \A k \in 1 .. v - w : w + k \in 1 .. Len(stream)
      BY <1>2, <2>2
    <3> DEFINE d == v - w
    <3>2. d \in Nat /\ \A k \in 1 .. d : BytesOf(stream, w + k) \in Seq(Byte)
      BY <2>2, <2>3, <3>1
    <3> HIDE DEF d
    <3> DEFINE message == [i \in 1 .. d |-> BytesOf(stream, w + i)]
               values == Seq(Byte)
    <3>3. d \in Nat /\ message \in [1 .. d -> values]
      BY <3>2
    <3> HIDE DEF message, values
    <3>4. message \in Seq(values) /\ Len(message) = d
      BY <3>3
    <3>5. [i \in 1 .. d |-> BytesOf(stream, w + i)] \in Seq(Seq(Byte))
          /\ Len([i \in 1 .. d |-> BytesOf(stream, w + i)]) = d
      BY <3>4 DEF message, values
    <3> QED  BY <3>5 DEF d
  <2>6. all \in Seq(Seq(Byte)) /\ Len(all) = v /\ \A k \in 1 .. v : all[k] = BytesOf(stream, k)
    BY <1>2, <2>2, <2>3
  <2> HIDE DEF old, more, all
  <2>7. /\ both \in Seq(Seq(Byte)) /\ Len(both) = Len(old) + Len(more)
        /\ \A k \in 1 .. Len(old) : both[k] = old[k]
        /\ \A k \in 1 .. Len(more) : both[Len(old) + k] = more[k]
    BY <2>4, <2>5, JoinIs
  <2> HIDE DEF both
  <2>8. ASSUME NEW k \in 1 .. Len(both)  PROVE both[k] = all[k]
    <3>1. Len(both) = v
      BY <2>2, <2>4, <2>5, <2>7
    <3>2. CASE k <= w
      BY <2>2, <2>4, <2>6, <2>7, <3>1, <3>2
    <3>3. CASE ~ (k <= w)
      <4>1. k - w \in 1 .. v - w /\ w + (k - w) = k /\ k \in 1 .. v
        BY <2>2, <3>1, <3>3
      <4>2. both[w + (k - w)] = more[k - w] /\ more[k - w] = BytesOf(stream, w + (k - w))
        BY <2>4, <2>5, <2>7, <4>1
      <4> QED  BY <2>6, <4>1, <4>2
    <3> QED  BY <3>2, <3>3
  <2>9. Len(both) = Len(all)
    BY <2>2, <2>4, <2>5, <2>6, <2>7
  <2>10. both = all
    BY <2>6, <2>7, <2>8, <2>9, SameSequence
  <2> QED  BY <2>1, <2>10 DEF all
<1>16. \A m \in 1 .. v : ~stream[m].wrong
  <2>1. \A m \in w + 1 .. v : ~stream[m].wrong
    BY <1>12 DEF Taken
  <2>2. \A m \in 1 .. v : m \in 1 .. w \/ m \in w + 1 .. v
    BY <1>2
  <2> QED  BY <1>4, <2>1, <2>2
<1>17. v < Len(stream) => stream[v + 1].wrong \/ r < End(stream, v + 1)
  <2> SUFFICES ASSUME v < Len(stream), p.why = "empty"  PROVE r < End(stream, v + 1)
    BY <1>12, <1>13 DEF Taken
  <2>1. next = r
    BY <1>12 DEF Taken
  <2>2. v + 1 \in 1 .. Len(stream) /\ (v + 1) - 1 = v
    BY <1>2
  <2>3. /\ stream[v + 1].size \in Nat /\ stream[v + 1].header \in Nat
        /\ 2 <= stream[v + 1].header /\ stream[v + 1].header <= stream[v + 1].size
    BY <1>2, <2>2, MessageIs
  <2>4. End(stream, v + 1) = next + stream[v + 1].size
    BY <1>2, <2>2, EndIs
  <2> HIDE DEF next
  <2> QED  BY <1>6, <2>1, <2>3, <2>4
<1>18. Cut(v)'
  BY <1>3, <1>13, <1>14, <1>15, <1>16, <1>17 DEF Cut, B
<1> QED  BY <1>2, <1>3, <1>7, <1>9, <1>11, <1>18 DEF StreamInv, B

\* What has been read of a stream and what is kept of it.
THEOREM StreamInvariant == StreamSpec => []StreamInv
<1>1. StreamInit => StreamInv
  BY StreamStarts
<1>2. StreamInv /\ [StreamNext]_streamVars => StreamInv'
  <2> SUFFICES ASSUME StreamInv, [StreamNext]_streamVars  PROVE StreamInv'
    OBVIOUS
  <2>1. CASE UNCHANGED streamVars
    BY <2>1 DEF streamVars, StreamInv, Cut
  <2>2. ASSUME NEW n \in 1 .. Len(wire), ReceiveBytes(n)  PROVE StreamInv'
    BY <2>2, ReceiveKeeps
  <2>3. CASE Disconnect
    BY <2>3 DEF Disconnect, StreamInv, Cut
  <2> QED  BY <2>1, <2>2, <2>3 DEF StreamNext
<1> QED  BY <1>1, <1>2, PTL DEF StreamSpec

\* However reads cut a stream, of any messages and with any buffers, its messages
\* are processed whole, each once and in order, and nothing else is kept.
THEOREM StreamDelivered == StreamSpec => []DeliversTheStream
<1>1. ASSUME StreamInv  PROVE DeliversTheStream
  <2>1. PICK w \in 0 .. Len(stream) : Cut(w)
    BY <1>1 DEF StreamInv
  <2> DEFINE B == Bytes(stream)
             n == Len(stream)
             kept == End(stream, w)
  <2>2. /\ stream \in Streams /\ B \in Seq(Byte) /\ Len(B) \in Nat /\ n \in Nat
        /\ received \in Nat /\ received <= Len(B) /\ kept \in Nat /\ kept <= received
        /\ DOMAIN stream = 1 .. n
        /\ \A m \in 0 .. n : End(stream, m) \in Nat
        /\ \A m \in 1 .. n : End(stream, m) = End(stream, m - 1) + stream[m].size
    BY <1>1, <2>1, EndIs, StreamBufferAssumption DEF StreamInv, Cut
  <2>3. ASSUME NEW m \in 1 .. n
        PROVE  /\ \A b \in 1 .. Len(B) : End(stream, m - 1) < b /\ b <= End(stream, m) =>
                     B[b] = [msg |-> m, at |-> b - End(stream, m - 1)]
               /\ stream[m].size \in Nat /\ stream[m].size >= 2
               /\ End(stream, m) \in 1 .. Len(B)
               /\ B[End(stream, m)] = [msg |-> m, at |-> stream[m].size]
    <3> DEFINE before == End(stream, m - 1)
               size == stream[m].size
    <3>1. /\ size \in Nat /\ size >= 2
      <4>1. /\ stream[m].size \in Nat /\ stream[m].header \in Nat
            /\ 2 <= stream[m].header /\ stream[m].header <= stream[m].size
        BY <2>2, MessageIs
      <4> QED  BY <4>1
    <3>2. m - 1 \in 0 .. n /\ before \in Nat /\ End(stream, m) = before + size
      BY <2>2
    <3>3. \A k \in Nat : 1 <= k /\ k <= size =>
            before + k \in 1 .. Len(B) /\ B[before + k] = [msg |-> m, at |-> k]
      BY <2>2, ByteIs
    <3> HIDE DEF before, size, B
    <3>4. ASSUME NEW b \in 1 .. Len(B), before < b, b <= End(stream, m)
          PROVE  B[b] = [msg |-> m, at |-> b - before]
      <4>1. b - before \in Nat /\ 1 <= b - before /\ b - before <= size /\ before + (b - before) = b
        BY <2>2, <3>1, <3>2, <3>4
      <4> QED  BY <3>3, <4>1
    <3>5. before + size \in 1 .. Len(B) /\ B[before + size] = [msg |-> m, at |-> size]
      BY <3>1, <3>3
    <3> QED  BY <3>1, <3>2, <3>4, <3>5 DEF before, size
  <2>4. ASSUME NEW b \in 1 .. Len(B), NEW m \in 1 .. n, B[b] = [msg |-> m, at |-> stream[m].size]
        PROVE  b = End(stream, m)
    <3>1. PICK j \in 1 .. n : End(stream, j - 1) < b /\ b <= End(stream, j)
      BY <2>2, ByteIs
    <3>2. B[b] = [msg |-> j, at |-> b - End(stream, j - 1)]
      BY <2>3, <3>1
    <3>3. j = m /\ b - End(stream, m - 1) = stream[m].size
      BY <2>4, <3>2
    <3>4. m - 1 \in 0 .. n /\ End(stream, m) = End(stream, m - 1) + stream[m].size
      BY <2>2
    <3>5. End(stream, m - 1) \in Nat /\ stream[m].size \in Nat
      BY <2>2, <2>3, <3>4
    <3> QED  BY <3>3, <3>4, <3>5
  <2>5. /\ processed = [m \in 1 .. w |-> BytesOf(stream, m)]
        /\ \A m \in 1 .. w : ~stream[m].wrong
        /\ w < n => stream[w + 1].wrong \/ received < End(stream, w + 1)
        /\ open => packet = SubSeq(B, kept + 1, received)
    BY <2>1 DEF Cut
  <2>6. \A j \in w .. n : kept <= End(stream, j) /\ (w < j => kept < End(stream, j))
    BY <2>2, UptoGrows
  <2>7. \A m \in 1 .. n : \A j \in m .. n : End(stream, m) <= End(stream, j)
    <3> SUFFICES ASSUME NEW m \in 1 .. n, NEW j \in m .. n  PROVE End(stream, m) <= End(stream, j)
      OBVIOUS
    <3>1. m \in 0 .. n
      BY <2>2
    <3> QED  BY <2>2, <3>1, UptoGrows
  <2> HIDE DEF B, n, kept
  <2>8. ASSUME NEW m \in 1 .. w  PROVE m \in Whole
    <3>1. m \in 1 .. n /\ m \in DOMAIN stream /\ w \in m .. n
      BY <2>2 DEF n
    <3>2. End(stream, m) <= kept
      BY <2>7, <3>1 DEF kept
    <3>3. End(stream, m) \in 1 .. received
      <4>1. End(stream, m) \in 1 .. Len(B)
        BY <2>3, <3>1
      <4> QED  BY <2>2, <3>2, <4>1
    <3>4. \A k \in 1 .. m : ~stream[k].wrong
      BY <2>5
    <3>5. Bytes(stream)[End(stream, m)] = [msg |-> m, at |-> stream[m].size]
      BY <2>3, <3>1 DEF B
    <3> QED  BY <3>1, <3>3, <3>4, <3>5 DEF Whole
  <2>9. ASSUME NEW m \in Whole  PROVE m \in 1 .. w
    <3>1. /\ m \in 1 .. n /\ \A k \in 1 .. m : ~stream[k].wrong
          /\ \E b \in 1 .. received : B[b] = [msg |-> m, at |-> stream[m].size]
      BY <2>2 DEF Whole, B
    <3>2. PICK b \in 1 .. received : B[b] = [msg |-> m, at |-> stream[m].size]
      BY <3>1
    <3>3. b \in 1 .. Len(B)
      BY <2>2
    <3>4. b = End(stream, m)
      BY <2>4, <3>1, <3>2, <3>3
    <3>5. CASE w < m
      <4>1. w + 1 \in 1 .. n /\ w + 1 \in 1 .. m /\ m \in w + 1 .. n /\ w < n
        BY <2>2, <3>1, <3>5
      <4>2. received < End(stream, w + 1)
        BY <2>5, <3>1, <4>1
      <4>3. End(stream, w + 1) <= End(stream, m) /\ End(stream, w + 1) \in Nat
            /\ End(stream, m) \in Nat
        BY <2>2, <2>7, <3>1, <4>1
      <4> QED  BY <2>2, <3>4, <4>2, <4>3
    <3> QED  BY <2>2, <3>1, <3>5
  <2>10. Whole = 1 .. w
    BY <2>8, <2>9
  <2>11. ASSUME NEW b \in 1 .. received  PROVE B[b].msg \in Whole <=> b <= kept
    <3>1. b \in 1 .. Len(B)
      BY <2>2
    <3>2. PICK m \in 1 .. n : End(stream, m - 1) < b /\ b <= End(stream, m)
      BY <2>2, <3>1, ByteIs DEF B, n
    <3>3. B[b].msg = m
      <4>1. B[b] = [msg |-> m, at |-> b - End(stream, m - 1)]
        BY <2>3, <3>1, <3>2
      <4> QED  BY <4>1
    <3>4. CASE m <= w
      <4>1. w \in m .. n
        BY <2>2, <3>4 DEF n
      <4>2. End(stream, m) <= End(stream, w)
        BY <2>7, <4>1
      <4>3. m \in 0 .. n /\ End(stream, m) \in Nat
        BY <2>2
      <4> QED  BY <2>2, <2>10, <3>2, <3>3, <3>4, <4>2, <4>3 DEF kept
    <3>5. CASE ~ (m <= w)
      <4>1. m - 1 \in w .. n /\ m - 1 \in 0 .. n
        BY <2>2, <3>5
      <4>2. kept <= End(stream, m - 1) /\ End(stream, m - 1) \in Nat
        BY <2>2, <2>6, <4>1
      <4> QED  BY <2>2, <2>10, <3>2, <3>3, <3>5, <4>2
    <3> QED  BY <3>4, <3>5
  <2>12. kept \in 0 .. received
    BY <2>2
  <2> QED  BY <2>5, <2>10, <2>11, <2>12 DEF DeliversTheStream, B
<1> QED  BY <1>1, StreamInvariant, PTL

=============================================================================
