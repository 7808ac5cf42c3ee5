-------------------------- MODULE MountTable_proofs --------------------------
(***************************************************************************)
(* Lemmas about the mount table: which mount is the one at a path, what a  *)
(* path is called inside it, and what making files, mount(2) and pivot_root*)
(* do to the table.                                                        *)
(***************************************************************************)
EXTENDS MountTable, Integers, WellFoundedInduction, SequenceTheorems, TLAPS

-----------------------------------------------------------------------------
(* The greatest of a set of positions.                                     *)

\* A set of natural numbers that is not empty has a least element.
LEMMA LeastOfNats ==
  ASSUME NEW T, T \subseteq Nat, T # {}
  PROVE  \E x \in T : \A y \in T : x <= y
<1>1. PICK x \in T : \A y \in T : ~(<<y, x>> \in OpToRel(<, Nat))
  BY WFMin, NatLessThanWellFounded
<1>2. \A y \in T : ~(y < x)
  BY <1>1 DEF OpToRel
<1> QED
  BY <1>2

\* A set of positions that is not empty has a greatest element.
LEMMA MaxOfPositions ==
  ASSUME NEW m \in Nat, NEW T, T \subseteq 1 .. m, T # {}
  PROVE  Max(T) \in T /\ \A y \in T : y <= Max(T)
<1> DEFINE U == {m - y : y \in T}
<1>1. U \subseteq Nat /\ U # {}
  <2>1. \A y \in T : m - y \in Nat
    OBVIOUS
  <2> QED
    BY <2>1
<1>2. PICK u \in U : \A v \in U : u <= v
  BY <1>1, LeastOfNats
<1>3. PICK x \in T : u = m - x
  BY <1>2
<1>4. \A y \in T : x >= y
  <2> SUFFICES ASSUME NEW y \in T PROVE x >= y
    OBVIOUS
  <2>1. m - x <= m - y
    BY <1>2, <1>3
  <2>2. x \in 1 .. m /\ y \in 1 .. m
    BY <1>3
  <2> QED
    BY <2>1, <2>2
<1>5. Max(T) \in T /\ \A y \in T : Max(T) >= y
  BY <1>3, <1>4 DEF Max
<1> QED
  BY <1>5

-----------------------------------------------------------------------------
(* Prefixes.                                                               *)

\* A prefix agrees with the whole, part by part.
LEMMA PrefixParts ==
  ASSUME NEW p \in Seq(Name), NEW q \in Seq(Name)
  PROVE  IsPrefix(p, q) <=> Len(p) <= Len(q) /\ \A i \in 1 .. Len(p) : p[i] = q[i]
BY DEF IsPrefix

\* Of what is above a path, one is above the other.
LEMMA PrefixesCompare ==
  ASSUME NEW p \in Seq(Name), NEW q \in Seq(Name), NEW r \in Seq(Name),
         IsPrefix(p, r), IsPrefix(q, r)
  PROVE  IsPrefix(p, q) \/ IsPrefix(q, p)
BY PrefixParts

\* The order of paths.
LEMMA PrefixOrder ==
  ASSUME NEW p \in Seq(Name), NEW q \in Seq(Name), NEW r \in Seq(Name)
  PROVE  /\ IsPrefix(p, p) /\ IsPrefix(<<>>, p)
         /\ IsPrefix(p, q) /\ IsPrefix(q, r) => IsPrefix(p, r)
         /\ IsPrefix(p, q) /\ IsPrefix(q, p) => p = q
         /\ IsPrefix(p, q) /\ Len(p) = Len(q) => p = q
<1>1. IsPrefix(p, p)
  BY PrefixParts
<1>2. IsPrefix(<<>>, p)
  BY DEF IsPrefix
<1>3. IsPrefix(p, q) /\ IsPrefix(q, r) => IsPrefix(p, r)
  BY PrefixParts
<1>4. IsPrefix(p, q) /\ Len(p) = Len(q) => p = q
  BY PrefixParts, SeqEqual
<1>5. IsPrefix(p, q) /\ IsPrefix(q, p) => p = q
  BY <1>4, PrefixParts
<1> QED
  BY <1>1, <1>2, <1>3, <1>4, <1>5

\* A prefix, part by part.
LEMMA PrefixOf ==
  ASSUME NEW p \in Seq(Name), NEW k \in Nat, k <= Len(p)
  PROVE  /\ Prefix(p, k) \in Seq(Name) /\ Len(Prefix(p, k)) = k
         /\ \A l \in 1 .. k : Prefix(p, k)[l] = p[l]
         /\ IsPrefix(Prefix(p, k), p)
<1>1. Len(p) \in Nat /\ \A l \in 1 .. k : p[l] \in Name
  OBVIOUS
<1>2. /\ SubSeq(p, 1, k) \in Seq(Name)
      /\ Len(SubSeq(p, 1, k)) = IF 1 <= k THEN k - 1 + 1 ELSE 0
      /\ \A l \in 1 .. k - 1 + 1 : SubSeq(p, 1, k)[l] = p[1 + l - 1]
  <2>1. 1 \in Int /\ k \in Int
    OBVIOUS
  <2> QED
    BY <1>1, <2>1, SubSeqProperties
<1>3. Len(Prefix(p, k)) = k /\ Prefix(p, k) \in Seq(Name)
  BY <1>2 DEF Prefix
<1>4. \A l \in 1 .. k : Prefix(p, k)[l] = p[l]
  BY <1>2 DEF Prefix
<1>5. IsPrefix(Prefix(p, k), p)
  BY <1>1, <1>3, <1>4, PrefixParts
<1> QED
  BY <1>3, <1>4, <1>5

-----------------------------------------------------------------------------
(* The mount at a path.                                                    *)

\* What the mounts of a table are.
LEMMA MountType ==
  ASSUME mounts \in Seq(MountRecord)
  PROVE  /\ Len(mounts) \in Nat
         /\ \A i \in 1 .. Len(mounts) :
              /\ mounts[i] \in MountRecord
              /\ mounts[i].at \in Seq(Name) /\ mounts[i].sub \in Seq(Name)
              /\ mounts[i].fs \in Nat
<1>1. Len(mounts) \in Nat /\ \A i \in 1 .. Len(mounts) : mounts[i] \in MountRecord
  OBVIOUS
<1> QED
  BY <1>1 DEF MountRecord

\* The mount at a path covers it, and no later one does.
LEMMA TopCovers ==
  ASSUME Rooted, NEW p \in Seq(Name)
  PROVE  /\ Top(p) \in Covering(p) /\ Top(p) \in 1 .. Len(mounts)
         /\ IsPrefix(mounts[Top(p)].at, p)
         /\ \A i \in Covering(p) : i <= Top(p)
<1>1. Len(mounts) \in Nat /\ Covering(p) \subseteq 1 .. Len(mounts)
  BY DEF Covering, Rooted
<1>2. 1 \in Covering(p)
  BY PrefixOrder, <1>1 DEF Covering, Rooted
<1>3. Top(p) \in Covering(p) /\ \A i \in Covering(p) : i <= Top(p)
  BY <1>1, <1>2, MaxOfPositions DEF Top
<1> QED
  BY <1>3 DEF Covering

\* And it is the only one with that property.
LEMMA TopIs ==
  ASSUME Rooted, NEW p \in Seq(Name), NEW t \in Covering(p),
         \A i \in Covering(p) : i <= t
  PROVE  Top(p) = t
<1>1. Top(p) \in Covering(p) /\ Top(p) <= t /\ t <= Top(p)
  BY TopCovers
<1>2. Top(p) \in Nat /\ t \in Nat
  BY <1>1 DEF Covering, Rooted
<1> QED
  BY <1>1, <1>2

\* A new mount is the one at the paths it covers and changes nothing elsewhere.
LEMMA TopAfterMount ==
  ASSUME Rooted, NEW m \in MountRecord, mounts' = Append(mounts, m),
         NEW p \in Seq(Name)
  PROVE  /\ Rooted'
         /\ Len(mounts') = Len(mounts) + 1 /\ Len(mounts) \in Nat
         /\ mounts'[Len(mounts) + 1] = m
         /\ \A i \in 1 .. Len(mounts) : mounts'[i] = mounts[i]
         /\ Top(p)' = IF IsPrefix(m.at, p) THEN Len(mounts) + 1 ELSE Top(p)
<1>1. /\ mounts' \in Seq(MountRecord)
      /\ Len(mounts') = Len(mounts) + 1 /\ Len(mounts) \in Nat
      /\ mounts'[Len(mounts) + 1] = m
      /\ \A i \in 1 .. Len(mounts) : mounts'[i] = mounts[i]
  BY AppendProperties DEF Rooted
<1>2. Len(mounts) > 0
  BY <1>1 DEF Rooted
<1>3. Rooted'
  BY <1>1, <1>2 DEF Rooted
<1>4. Covering(p)' = Covering(p) \cup (IF IsPrefix(m.at, p) THEN {Len(mounts) + 1} ELSE {})
  BY <1>1 DEF Covering
<1>5. CASE IsPrefix(m.at, p)
  <2>1. /\ Len(mounts) + 1 \in Covering(p)'
        /\ \A i \in Covering(p)' : i <= Len(mounts) + 1
    BY <1>1, <1>4, <1>5 DEF Covering
  <2>2. Covering(p)' \subseteq 1 .. Len(mounts') /\ Len(mounts') \in Nat
    BY <1>1 DEF Covering
  <2>3. /\ Top(p)' \in Covering(p)' /\ \A i \in Covering(p)' : i <= Top(p)'
        /\ Top(p)' \in Nat
    BY <2>1, <2>2, MaxOfPositions DEF Top
  <2> QED
    BY <1>1, <1>3, <1>5, <2>1, <2>2, <2>3
<1>6. CASE ~IsPrefix(m.at, p)
  <2>1. Covering(p)' = Covering(p)
    BY <1>4, <1>6
  <2> QED
    BY <1>1, <1>3, <1>6, <2>1 DEF Top
<1> QED
  BY <1>5, <1>6

\* Mounts that stay where they are leave every lookup as it is.
LEMMA TopStays ==
  ASSUME Rooted, mounts' \in Seq(MountRecord), Len(mounts') = Len(mounts),
         \A i \in 1 .. Len(mounts) : mounts'[i].at = mounts[i].at,
         NEW p \in Seq(Name)
  PROVE  Rooted' /\ Covering(p)' = Covering(p) /\ Top(p)' = Top(p)
<1>1. Len(mounts) \in Nat /\ Len(mounts) # 0
  BY DEF Rooted
<1>2. Rooted'
  BY <1>1 DEF Rooted
<1>3. Covering(p)' = Covering(p)
  BY DEF Covering
<1> QED
  BY <1>2, <1>3 DEF Top

-----------------------------------------------------------------------------
(* Paths inside a file system.                                             *)

\* What p is called in a mount at path `at` of the directory `sub`.
NameIn(at, sub, p) == sub \o SubSeq(p, Len(at) + 1, Len(p))

\* Part by part: the directory that is shown, and the rest of the path.
LEMMA NameParts ==
  ASSUME NEW at \in Seq(Name), NEW sub \in Seq(Name), NEW p \in Seq(Name)
  PROVE  /\ NameIn(at, sub, p) \in Seq(Name)
         /\ Len(p) <= Len(at) => NameIn(at, sub, p) = sub
         /\ Len(p) >= Len(at) =>
              /\ Len(NameIn(at, sub, p)) = Len(sub) + Len(p) - Len(at)
              /\ \A k \in 1 .. Len(sub) : NameIn(at, sub, p)[k] = sub[k]
              /\ \A k \in Len(at) + 1 .. Len(p) :
                   NameIn(at, sub, p)[k + Len(sub) - Len(at)] = p[k]
<1>1. Len(at) \in Nat /\ Len(p) \in Nat /\ Len(sub) \in Nat
  OBVIOUS
<1> DEFINE rest == SubSeq(p, Len(at) + 1, Len(p))
           name == NameIn(at, sub, p)
<1>2. name = sub \o rest
  BY DEF NameIn
<1> HIDE DEF name
<1>3. CASE Len(p) <= Len(at)
  <2>1. rest = <<>>
    BY <1>1, <1>3, SubSeqEmpty
  <2> HIDE DEF rest
  <2>2. name = sub
    BY <1>2, <2>1, ConcatEmptySeq
  <2>3. Len(p) >= Len(at) => Len(name) = Len(sub) + Len(p) - Len(at)
    BY <1>1, <1>3, <2>2
  <2>4. \A k \in Len(at) + 1 .. Len(p) : FALSE
    BY <1>1, <1>3
  <2> QED
    BY <2>2, <2>3, <2>4 DEF name
<1>4. CASE Len(p) > Len(at)
  <2>1. /\ rest \in Seq(Name) /\ Len(rest) = Len(p) - Len(at)
        /\ \A k \in 1 .. Len(rest) : rest[k] = p[Len(at) + k]
    <3>1. Len(at) + 1 \in 1 .. Len(p) + 1 /\ Len(p) \in Len(at) .. Len(p)
      BY <1>1, <1>4
    <3> QED
      BY <1>1, <1>4, <3>1, SubSeqProperties
  <2> HIDE DEF rest
  <2>2. /\ name \in Seq(Name) /\ Len(name) = Len(sub) + Len(rest)
        /\ \A k \in 1 .. Len(sub) + Len(rest) :
             name[k] = IF k <= Len(sub) THEN sub[k] ELSE rest[k - Len(sub)]
    <3>1. /\ sub \o rest \in Seq(Name) /\ Len(sub \o rest) = Len(sub) + Len(rest)
          /\ \A k \in 1 .. Len(sub) + Len(rest) :
               (sub \o rest)[k] = IF k <= Len(sub) THEN sub[k] ELSE rest[k - Len(sub)]
      BY <2>1, ConcatProperties
    <3> QED
      BY <1>2, <3>1
  <2>3. ASSUME NEW k \in 1 .. Len(sub)
        PROVE  name[k] = sub[k]
    <3>1. k \in 1 .. Len(sub) + Len(rest) /\ k <= Len(sub)
      BY <1>1, <2>1
    <3> QED
      BY <2>2, <3>1
  <2>4. ASSUME NEW k \in Len(at) + 1 .. Len(p)
        PROVE  name[k + Len(sub) - Len(at)] = p[k]
    <3>1. /\ k - Len(at) \in 1 .. Len(rest) /\ Len(at) + (k - Len(at)) = k
          /\ k + Len(sub) - Len(at) \in 1 .. Len(sub) + Len(rest)
          /\ ~(k + Len(sub) - Len(at) <= Len(sub))
          /\ (k + Len(sub) - Len(at)) - Len(sub) = k - Len(at)
      BY <1>1, <2>1
    <3> QED
      BY <2>1, <2>2, <3>1
  <2>5. Len(name) = Len(sub) + Len(p) - Len(at) /\ ~(Len(p) <= Len(at))
    BY <1>1, <1>4, <2>1, <2>2
  <2> QED
    BY <2>2, <2>3, <2>4, <2>5 DEF name
<1> QED
  BY <1>1, <1>3, <1>4

\* What is above a path is called above what the path is called, or above the
\* directory the mount shows.
LEMMA NameAbove ==
  ASSUME NEW at \in Seq(Name), NEW sub \in Seq(Name), NEW p \in Seq(Name),
         NEW k \in 0 .. Len(NameIn(at, sub, p)), Len(p) >= Len(at)
  PROVE  \/ k <= Len(sub) /\ Prefix(NameIn(at, sub, p), k) = Prefix(sub, k)
         \/ \E j \in 0 .. Len(p) :
              /\ j = k - Len(sub) + Len(at)
              /\ Prefix(NameIn(at, sub, p), k) = NameIn(at, sub, Prefix(p, j))
<1>1. Len(at) \in Nat /\ Len(p) \in Nat /\ Len(sub) \in Nat
  OBVIOUS
<1> DEFINE name == NameIn(at, sub, p)
<1>2. /\ name \in Seq(Name) /\ Len(name) = Len(sub) + Len(p) - Len(at)
      /\ \A l \in 1 .. Len(sub) : name[l] = sub[l]
      /\ \A l \in Len(at) + 1 .. Len(p) : name[l + Len(sub) - Len(at)] = p[l]
  BY ZenonT(60), NameParts
<1> HIDE DEF name
<1>3. k \in Nat /\ k <= Len(name)
  BY <1>1, <1>2 DEF name
<1>4. /\ Prefix(name, k) \in Seq(Name) /\ Len(Prefix(name, k)) = k
      /\ \A l \in 1 .. k : Prefix(name, k)[l] = name[l]
  BY <1>2, <1>3, PrefixOf
<1>5. CASE k <= Len(sub)
  <2>1. /\ Prefix(sub, k) \in Seq(Name) /\ Len(Prefix(sub, k)) = k
        /\ \A l \in 1 .. k : Prefix(sub, k)[l] = sub[l]
    BY <1>3, <1>5, PrefixOf
  <2>2. ASSUME NEW l \in 1 .. k
        PROVE  Prefix(name, k)[l] = Prefix(sub, k)[l]
    <3>1. l \in 1 .. Len(sub)
      BY <1>1, <1>3, <1>5
    <3> QED
      BY <1>2, <1>4, <2>1, <3>1
  <2>3. Prefix(name, k) = Prefix(sub, k)
    BY <1>4, <2>1, <2>2, SeqEqual
  <2> QED
    BY <1>5, <2>3 DEF name
<1>6. CASE k > Len(sub)
  <2>1. PICK j : j = k - Len(sub) + Len(at)
    OBVIOUS
  <2>2. j \in 0 .. Len(p) /\ j > Len(at) /\ j \in Nat /\ j <= Len(p)
    BY <1>1, <1>2, <1>3, <1>6, <2>1
  <2>3. PICK up \in Seq(Name) : up = Prefix(p, j)
    BY <2>2, PrefixOf
  <2>4. /\ Len(up) = j
        /\ \A l \in 1 .. j : up[l] = p[l]
    BY <2>2, <2>3, PrefixOf
  <2> DEFINE other == NameIn(at, sub, up)
  <2>5. /\ other \in Seq(Name) /\ Len(other) = Len(sub) + Len(up) - Len(at)
        /\ \A l \in 1 .. Len(sub) : other[l] = sub[l]
        /\ \A l \in Len(at) + 1 .. Len(up) : other[l + Len(sub) - Len(at)] = up[l]
    <3>1. Len(up) >= Len(at)
      BY <1>1, <2>2, <2>4
    <3>2. other \in Seq(Name)
      BY NameParts
    <3>3. Len(other) = Len(sub) + Len(up) - Len(at)
      BY <3>1, NameParts
    <3>4. \A l \in 1 .. Len(sub) : other[l] = sub[l]
      BY <3>1, NameParts
    <3>5. \A l \in Len(at) + 1 .. Len(up) : other[l + Len(sub) - Len(at)] = up[l]
      BY <3>1, NameParts
    <3> QED
      BY <3>2, <3>3, <3>4, <3>5
  <2> HIDE DEF other
  <2>6. ASSUME NEW l \in 1 .. k
        PROVE  Prefix(name, k)[l] = other[l]
    <3>1. CASE l <= Len(sub)
      <4>1. l \in 1 .. Len(sub)
        BY <1>1, <3>1
      <4> QED
        BY <1>2, <1>4, <2>5, <4>1
    <3>2. CASE l > Len(sub)
      <4>1. PICK m : m = l - Len(sub) + Len(at)
        OBVIOUS
      <4>2. /\ m \in Len(at) + 1 .. j /\ m \in Len(at) + 1 .. Len(p) /\ m \in 1 .. j
            /\ m + Len(sub) - Len(at) = l
        BY SMTT(30), <1>1, <1>3, <2>1, <2>2, <3>2, <4>1
      <4>3. name[l] = p[m] /\ other[l] = up[m] /\ up[m] = p[m]
        BY <1>2, <2>4, <2>5, <4>2
      <4> QED
        BY <1>4, <4>3
    <3> QED
      BY <1>1, <1>3, <3>1, <3>2
  <2>7. Len(other) = k
    BY <1>1, <1>3, <2>1, <2>4, <2>5
  <2>8. Prefix(name, k) = other
    BY <1>4, <2>5, <2>6, <2>7, SeqEqual
  <2> QED
    BY <2>1, <2>2, <2>3, <2>8 DEF name, other
<1> QED
  BY <1>1, <1>3, <1>5, <1>6

-----------------------------------------------------------------------------
(* Making files.                                                           *)

\* A function from 1 to a number is a sequence of what it holds.
LEMMA SequenceOfItself ==
  ASSUME NEW s, NEW m \in Nat, s = [i \in 1 .. m |-> s[i]]
  PROVE  s \in Seq({s[i] : i \in 1 .. m}) /\ Len(s) = m
<1> DEFINE S == {s[i] : i \in 1 .. m}
<1>1. s \in [1 .. m -> S]
  OBVIOUS
<1> HIDE DEF S
<1>2. s \in Seq(S)
  BY <1>1, SeqDef
<1>3. Len(s) = m
  BY <1>1, <1>2, LenProperties
<1> QED
  BY <1>2, <1>3 DEF S

\* The table of file systems, as a function.
LEMMA FileSystemsType ==
  ASSUME TableTypeOK
  PROVE  /\ Len(fss) \in Nat /\ fss = [f \in 1 .. Len(fss) |-> fss[f]]
         /\ DOMAIN fss = 1 .. Len(fss)
<1>1. fss \in Seq({fss[f] : f \in 1 .. Len(fss)})
  BY DEF TableTypeOK
<1> QED
  BY <1>1, LenProperties

\* What a file system is.
LEMMA FileSystemType ==
  ASSUME TableTypeOK, NEW f \in 1 .. Len(fss)
  PROVE  /\ fss[f] = [type |-> fss[f].type, files |-> fss[f].files]
         /\ fss[f].type \in FsType
         /\ fss[f].files \in [DOMAIN fss[f].files -> FileKind]
         /\ DOMAIN fss[f].files \subseteq Seq(Name)
         /\ <<>> \in DOMAIN fss[f].files
         /\ \A p \in DOMAIN fss[f].files :
              \A k \in 0 .. Len(p) : Prefix(p, k) \in DOMAIN fss[f].files
<1>1. IsFileSystem(fss[f])
  BY DEF TableTypeOK
<1> QED
  BY <1>1 DEF IsFileSystem

\* A prefix of a prefix.
LEMMA PrefixOfPrefix ==
  ASSUME NEW p \in Seq(Name), NEW k \in 0 .. Len(p), NEW j \in 0 .. Len(Prefix(p, k))
  PROVE  j \in 0 .. Len(p) /\ Prefix(Prefix(p, k), j) = Prefix(p, j)
<1>1. Len(p) \in Nat /\ k \in Nat /\ k <= Len(p)
  OBVIOUS
<1>2. /\ Prefix(p, k) \in Seq(Name) /\ Len(Prefix(p, k)) = k
      /\ \A l \in 1 .. k : Prefix(p, k)[l] = p[l]
  BY <1>1, PrefixOf
<1>3. j \in Nat /\ j <= k /\ j <= Len(p) /\ j <= Len(Prefix(p, k))
  BY <1>1, <1>2
<1>4. /\ Prefix(p, j) \in Seq(Name) /\ Len(Prefix(p, j)) = j
      /\ \A l \in 1 .. j : Prefix(p, j)[l] = p[l]
  BY <1>3, PrefixOf
<1> DEFINE a == Prefix(p, k)
<1> HIDE DEF a
<1>5. /\ Prefix(a, j) \in Seq(Name) /\ Len(Prefix(a, j)) = j
      /\ \A l \in 1 .. j : Prefix(a, j)[l] = a[l]
  BY <1>2, <1>3, PrefixOf DEF a
<1>6. \A l \in 1 .. j : Prefix(a, j)[l] = Prefix(p, j)[l]
  <2> SUFFICES ASSUME NEW l \in 1 .. j PROVE Prefix(a, j)[l] = Prefix(p, j)[l]
    OBVIOUS
  <2>1. l \in 1 .. k
    BY <1>1, <1>3
  <2>2. a[l] = p[l]
    BY <1>2, <2>1 DEF a
  <2> QED
    BY <1>4, <1>5, <2>2
<1>7. Prefix(a, j) = Prefix(p, j)
  BY <1>4, <1>5, <1>6, SeqEqual
<1> QED
  BY <1>1, <1>3, <1>7 DEF a

\* The whole path and what is above it.
LEMMA AboveOrAt ==
  ASSUME NEW p \in Seq(Name)
  PROVE  /\ Above(p) \cup {p} = {Prefix(p, k) : k \in 0 .. Len(p)}
         /\ Prefix(p, Len(p)) = p
<1>1. Len(p) \in Nat
  OBVIOUS
<1>2. Prefix(p, Len(p)) = p
  <2>1. /\ Prefix(p, Len(p)) \in Seq(Name) /\ Len(Prefix(p, Len(p))) = Len(p)
        /\ \A l \in 1 .. Len(p) : Prefix(p, Len(p))[l] = p[l]
    <3>1. PICK m \in Nat : m = Len(p)
      BY <1>1
    <3>2. m <= Len(p)
      BY <3>1
    <3>3. /\ Prefix(p, m) \in Seq(Name) /\ Len(Prefix(p, m)) = m
          /\ \A l \in 1 .. m : Prefix(p, m)[l] = p[l]
      BY <3>2, PrefixOf
    <3> QED
      BY <3>1, <3>3
  <2> QED
    BY <2>1, SeqEqual
<1>3. ASSUME NEW q \in Above(p) \cup {p}
      PROVE  \E k \in 0 .. Len(p) : q = Prefix(p, k)
  BY <1>1, <1>2 DEF Above
<1>4. ASSUME NEW k \in 0 .. Len(p)
      PROVE  Prefix(p, k) \in Above(p) \cup {p}
  <2>1. k = Len(p) \/ k \in 0 .. Len(p) - 1
    BY <1>1
  <2> QED
    BY <1>2, <2>1 DEF Above
<1> QED
  BY <1>2, <1>3, <1>4

\* The names of a path and of what is above it: with what is above the shown
\* directory, a set that has what is above each of its members.
LEMMA NamesAbove ==
  ASSUME NEW at \in Seq(Name), NEW sub \in Seq(Name), NEW p \in Seq(Name),
         NEW k \in 0 .. Len(p), NEW j \in 0 .. Len(NameIn(at, sub, Prefix(p, k)))
  PROVE  \/ j \in 0 .. Len(sub)
            /\ Prefix(NameIn(at, sub, Prefix(p, k)), j) = Prefix(sub, j)
         \/ \E l \in 0 .. Len(p) :
              Prefix(NameIn(at, sub, Prefix(p, k)), j) = NameIn(at, sub, Prefix(p, l))
<1>1. PICK q \in Seq(Name) : q = Prefix(p, k)
  BY PrefixOf
<1>2. Len(at) \in Nat /\ Len(q) \in Nat /\ Len(sub) \in Nat
  OBVIOUS
<1>3. j \in 0 .. Len(NameIn(at, sub, q))
  BY <1>1
<1>4. CASE Len(q) >= Len(at)
  <2>1. CASE j <= Len(sub) /\ Prefix(NameIn(at, sub, q), j) = Prefix(sub, j)
    <3>1. Len(NameIn(at, sub, q)) \in Nat
      BY NameParts
    <3>2. j \in 0 .. Len(sub)
      BY <1>2, <1>3, <2>1, <3>1
    <3> QED
      BY <1>1, <2>1, <3>2
  <2>2. CASE \E i \in 0 .. Len(q) :
               /\ i = j - Len(sub) + Len(at)
               /\ Prefix(NameIn(at, sub, q), j) = NameIn(at, sub, Prefix(q, i))
    <3>1. PICK i \in 0 .. Len(q) : Prefix(NameIn(at, sub, q), j) = NameIn(at, sub, Prefix(q, i))
      BY <2>2
    <3>2. i \in 0 .. Len(p) /\ Prefix(q, i) = Prefix(p, i)
      BY <1>1, <3>1, PrefixOfPrefix
    <3> QED
      BY <1>1, <3>1, <3>2
  <2> QED
    BY <1>3, <1>4, <2>1, <2>2, NameAbove
<1>5. CASE Len(q) < Len(at)
  <2>1. NameIn(at, sub, q) = sub
    BY <1>2, <1>5, NameParts
  <2> QED
    BY <1>1, <1>3, <2>1
<1> QED
  BY <1>2, <1>4, <1>5

\* What a file system has after p has been made.
MadeFiles(p) == {Inner(Top(p), q) : q \in Above(p) \cup {p}}

\* Making p adds to one file system what was missing on the way to it.
LEMMA CreateAdds ==
  ASSUME TableTypeOK, Rooted, RootsThere,
         NEW p \in Seq(Name), NEW kind \in FileKind, Create(p, kind), UNCHANGED mounts
  PROVE  /\ TableTypeOK' /\ Rooted' /\ RootsThere'
         /\ Len(fss') = Len(fss)
         /\ \A f \in 1 .. Len(fss) :
              /\ fss'[f].type = fss[f].type
              /\ f # mounts[Top(p)].fs => fss'[f] = fss[f]
         /\ \A f \in {mounts[Top(p)].fs} :
              /\ DOMAIN fss'[f].files = DOMAIN fss[f].files \cup MadeFiles(p)
              /\ \A q \in DOMAIN fss[f].files : fss'[f].files[q] = fss[f].files[q]
              /\ \A q \in MadeFiles(p) \ DOMAIN fss[f].files :
                   fss'[f].files[q] = IF q = Inner(Top(p), p) THEN kind ELSE "dir"
<1>1. PICK t \in 1 .. Len(mounts) : t = Top(p) /\ IsPrefix(mounts[t].at, p)
  BY TopCovers
<1>2. PICK at \in Seq(Name), sub \in Seq(Name), ft \in 1 .. Len(fss) :
        at = mounts[t].at /\ sub = mounts[t].sub /\ ft = mounts[t].fs
  BY <1>1, MountType DEF TableTypeOK
<1>3. PICK files : files = fss[ft].files
  OBVIOUS
<1>4. /\ fss[ft] = [type |-> fss[ft].type, files |-> files]
      /\ fss[ft].type \in FsType
      /\ files \in [DOMAIN files -> FileKind]
      /\ DOMAIN files \subseteq Seq(Name)
      /\ <<>> \in DOMAIN files
      /\ \A q \in DOMAIN files : \A k \in 0 .. Len(q) : Prefix(q, k) \in DOMAIN files
      /\ sub \in DOMAIN files
  BY <1>1, <1>2, <1>3, FileSystemType DEF RootsThere
<1>5. /\ \A q : Inner(t, q) = NameIn(at, sub, q)
      /\ MadeFiles(p) = {NameIn(at, sub, Prefix(p, k)) : k \in 0 .. Len(p)}
      /\ Inner(t, p) = NameIn(at, sub, p)
  <2>1. \A q : Inner(t, q) = NameIn(at, sub, q)
    BY <1>2 DEF Inner, NameIn
  <2>2. Above(p) \cup {p} = {Prefix(p, k) : k \in 0 .. Len(p)}
    BY AboveOrAt
  <2>3. MadeFiles(p) = {NameIn(at, sub, q) : q \in Above(p) \cup {p}}
    <3>1. MadeFiles(p) = {Inner(t, q) : q \in Above(p) \cup {p}}
      BY <1>1 DEF MadeFiles
    <3> QED
      BY <2>1, <3>1
  <2>4. MadeFiles(p) = {NameIn(at, sub, Prefix(p, k)) : k \in 0 .. Len(p)}
    BY <2>2, <2>3
  <2> QED
    BY <2>1, <2>4
<1> DEFINE made == MadeFiles(p)
           new == made \ DOMAIN files
           filled == [q \in DOMAIN files \cup new |->
                        IF q \notin new THEN files[q]
                        ELSE IF q = Inner(t, p) THEN kind ELSE "dir"]
<1>6. fss' = [fss EXCEPT ![ft].files = filled]
  BY <1>1, <1>2, <1>3 DEF Create, FilesAt, MadeFiles
<1> HIDE DEF made
<1>7. /\ DOMAIN filled = DOMAIN files \cup made
      /\ \A q \in DOMAIN files : filled[q] = files[q]
      /\ \A q \in made \ DOMAIN files :
           filled[q] = IF q = Inner(t, p) THEN kind ELSE "dir"
      /\ filled \in [DOMAIN filled -> FileKind]
  <2>1. \A q \in DOMAIN files : files[q] \in FileKind
    BY <1>4
  <2> QED
    BY <2>1 DEF FileKind
<1> HIDE DEF filled, new
<1>8. /\ Len(fss) \in Nat /\ DOMAIN fss = 1 .. Len(fss)
      /\ fss = [f \in 1 .. Len(fss) |-> fss[f]]
  BY FileSystemsType
<1>9. /\ fss' = [f \in 1 .. Len(fss) |-> fss'[f]]
      /\ fss'[ft] = [type |-> fss[ft].type, files |-> filled]
      /\ \A f \in 1 .. Len(fss) : f # ft => fss'[f] = fss[f]
  BY <1>4, <1>6, <1>8
<1>10. fss' \in Seq({fss'[f] : f \in 1 .. Len(fss)}) /\ Len(fss') = Len(fss)
  BY <1>8, <1>9, SequenceOfItself
<1>11. fss'[ft].files = filled /\ fss'[ft].type = fss[ft].type
  BY <1>9
<1>12. made \subseteq Seq(Name)
  <2>1. ASSUME NEW k \in 0 .. Len(p)
        PROVE  NameIn(at, sub, Prefix(p, k)) \in Seq(Name)
    <3>1. PICK q \in Seq(Name) : q = Prefix(p, k)
      BY PrefixOf
    <3> QED
      BY <3>1, NameParts
  <2> QED
    BY <1>5, <2>1 DEF made
<1>13. ASSUME NEW q \in DOMAIN files \cup made, NEW j \in 0 .. Len(q)
       PROVE  Prefix(q, j) \in DOMAIN files \cup made
  <2>1. CASE q \in DOMAIN files
    BY <1>4, <2>1
  <2>2. CASE q \in made
    <3>1. PICK k \in 0 .. Len(p) : q = NameIn(at, sub, Prefix(p, k))
      BY <1>5, <2>2 DEF made
    <3>2. CASE j \in 0 .. Len(sub) /\ Prefix(q, j) = Prefix(sub, j)
      BY <1>4, <3>2
    <3>3. CASE \E l \in 0 .. Len(p) : Prefix(q, j) = NameIn(at, sub, Prefix(p, l))
      BY <1>5, <3>3 DEF made
    <3> QED
      BY <3>1, <3>2, <3>3, NamesAbove
  <2> QED
    BY <2>1, <2>2
<1>14. IsFileSystem(fss'[ft])
  <2>1. fss'[ft] \in [type : FsType, files : {fss'[ft].files}]
    BY <1>4, <1>9, <1>11
  <2> QED
    BY <1>4, <1>7, <1>11, <1>12, <1>13, <2>1 DEF IsFileSystem
<1>15. \A f \in 1 .. Len(fss) : IsFileSystem(fss'[f])
  BY <1>9, <1>14 DEF TableTypeOK
<1>16. TableTypeOK'
  BY <1>10, <1>15 DEF TableTypeOK
<1>17. Rooted'
  BY DEF Rooted
<1>18. \A f \in 1 .. Len(fss) : DOMAIN fss[f].files \subseteq DOMAIN fss'[f].files
  BY <1>3, <1>7, <1>9, <1>11
<1>19. RootsThere'
  <2>1. \A i \in 1 .. Len(mounts) : mounts[i].fs \in 1 .. Len(fss)
    BY DEF TableTypeOK
  <2> QED
    BY <1>18, <2>1 DEF RootsThere
<1>20. /\ DOMAIN fss'[ft].files = DOMAIN fss[ft].files \cup MadeFiles(p)
       /\ \A q \in DOMAIN fss[ft].files : fss'[ft].files[q] = fss[ft].files[q]
       /\ \A q \in MadeFiles(p) \ DOMAIN fss[ft].files :
            fss'[ft].files[q] = IF q = Inner(t, p) THEN kind ELSE "dir"
  BY <1>3, <1>7, <1>11 DEF made
<1>21. \A f \in 1 .. Len(fss) :
         /\ fss'[f].type = fss[f].type
         /\ f # ft => fss'[f] = fss[f]
  BY <1>9, <1>11
<1> QED
  BY <1>1, <1>2, <1>10, <1>16, <1>17, <1>19, <1>20, <1>21

-----------------------------------------------------------------------------
(* mount(2).                                                               *)

\* A mount of something that is there.
LEMMA MountAdds ==
  ASSUME TableTypeOK, Rooted, RootsThere,
         NEW m \in MountRecord, m.fs \in 1 .. Len(fss),
         m.sub \in DOMAIN fss[m.fs].files, mounts' = Append(mounts, m), UNCHANGED fss
  PROVE  TableTypeOK' /\ RootsThere'
<1>1. /\ mounts' \in Seq(MountRecord)
      /\ Len(mounts') = Len(mounts) + 1 /\ Len(mounts) \in Nat
      /\ mounts'[Len(mounts) + 1] = m
      /\ \A j \in 1 .. Len(mounts) : mounts'[j] = mounts[j]
  BY AppendProperties DEF TableTypeOK
<1>2. \A j \in 1 .. Len(mounts') : j \in 1 .. Len(mounts) \/ j = Len(mounts) + 1
  <2>1. PICK l \in Nat : l = Len(mounts)
    BY <1>1
  <2>2. Len(mounts') = l + 1
    BY <1>1, <2>1
  <2>3. \A j \in 1 .. l + 1 : j \in 1 .. l \/ j = l + 1
    OBVIOUS
  <2> QED
    BY <2>1, <2>2, <2>3
<1>3. TableTypeOK'
  BY <1>1, <1>2 DEF TableTypeOK
<1>4. RootsThere'
  BY <1>1, <1>2 DEF RootsThere
<1> QED
  BY <1>3, <1>4

\* A bind of what a descriptor stands for.
LEMMA BindMountAdds ==
  ASSUME TableTypeOK, Rooted, RootsThere,
         NEW i \in 1 .. Len(mounts), NEW p \in Seq(Name), NEW at \in Seq(Name),
         NEW who \in JobID, NEW asked \in SUBSET Flag,
         Inner(i, p) \in DOMAIN fss[mounts[i].fs].files, UNCHANGED fss,
         mounts' = Append(mounts,
           [at |-> at, fs |-> mounts[i].fs, sub |-> Inner(i, p),
            flags |-> mounts[i].flags, by |-> who, asked |-> asked])
  PROVE  /\ TableTypeOK' /\ RootsThere'
         /\ \E m \in MountRecord :
              /\ mounts' = Append(mounts, m)
              /\ m.at = at /\ m.by = who /\ m.asked = asked
              /\ m.fs = mounts[i].fs /\ m.sub = Inner(i, p)
<1>1. PICK m : m = [at |-> at, fs |-> mounts[i].fs, sub |-> Inner(i, p),
                    flags |-> mounts[i].flags, by |-> who, asked |-> asked]
  OBVIOUS
<1>2. mounts[i] \in MountRecord /\ mounts[i].fs \in 1 .. Len(fss)
  BY MountType DEF TableTypeOK
<1>3. mounts[i].flags \in SUBSET Flag /\ mounts[i].fs \in Nat
  BY <1>2 DEF MountRecord
<1>4. Inner(i, p) \in Seq(Name)
  BY <1>2, FileSystemType
<1>5. m \in MountRecord
  BY <1>1, <1>3, <1>4 DEF MountRecord
<1>6. mounts' = Append(mounts, m) /\ UNCHANGED fss
  BY <1>1
<1>7. m.fs = mounts[i].fs /\ m.sub = Inner(i, p) /\ m.at = at /\ m.by = who /\ m.asked = asked
  BY <1>1
<1>8. TableTypeOK' /\ RootsThere'
  BY <1>2, <1>5, <1>6, <1>7, MountAdds
<1> QED
  BY <1>5, <1>6, <1>7, <1>8

\* A file system with a root and nothing in it.
LEMMA EmptyFileSystem ==
  ASSUME NEW type \in FsType, NEW f, f = [type |-> type, files |-> [p \in {<<>>} |-> "dir"]]
  PROVE  IsFileSystem(f) /\ f.type = type /\ DOMAIN f.files = {<<>>}
<1>1. f.type = type /\ f.files = [q \in {<<>>} |-> "dir"]
  OBVIOUS
<1>2. /\ DOMAIN f.files = {<<>>} /\ f.files \in [{<<>>} -> FileKind]
      /\ <<>> \in Seq(Name)
  BY <1>1 DEF FileKind
<1>3. f \in [type : FsType, files : {f.files}]
  BY <1>1
<1>4. ASSUME NEW k \in 0 .. Len(<<>>)
      PROVE  Prefix(<<>>, k) = <<>>
  <2>1. k = 0
    BY <1>4
  <2> QED
    BY <2>1, SubSeqEmpty DEF Prefix
<1> QED
  BY <1>1, <1>2, <1>3, <1>4 DEF IsFileSystem

\* A mount of a new file system.
LEMMA NewMountAdds ==
  ASSUME TableTypeOK, Rooted, RootsThere,
         NEW type \in FsType, NEW target, NEW who \in JobID, NEW asked \in SUBSET Flag,
         target.path \in Seq(Name), NewMount(type, target, who, asked)
  PROVE  /\ TableTypeOK' /\ RootsThere'
         /\ Len(fss) \in Nat /\ Len(fss') = Len(fss) + 1
         /\ \A f \in 1 .. Len(fss) : fss'[f] = fss[f]
         /\ fss'[Len(fss) + 1].type = type
         /\ \E m \in MountRecord :
              /\ mounts' = Append(mounts, m)
              /\ m.at = target.path /\ m.by = who /\ m.asked = asked
              /\ m.flags = asked /\ m.fs = Len(fss) + 1 /\ m.sub = <<>>
<1>1. PICK m : m = [at |-> target.path, fs |-> Len(fss) + 1, sub |-> <<>>, flags |-> asked,
                    by |-> who, asked |-> asked]
  OBVIOUS
<1>2. PICK f : f = [type |-> type, files |-> [p \in {<<>>} |-> "dir"]]
  OBVIOUS
<1>3. IsFileSystem(f) /\ f.type = type /\ <<>> \in DOMAIN f.files
  BY <1>2, EmptyFileSystem
<1>4. /\ fss \in Seq({fss[i] : i \in 1 .. Len(fss)}) /\ Len(fss) \in Nat
      /\ DOMAIN fss = 1 .. Len(fss)
  BY FileSystemsType DEF TableTypeOK
<1>5. m \in MountRecord
  BY <1>1, <1>4 DEF MountRecord
<1>6. mounts' = Append(mounts, m) /\ fss' = Append(fss, f)
  BY <1>1, <1>2 DEF NewMount
<1>7. /\ mounts' \in Seq(MountRecord)
      /\ Len(mounts') = Len(mounts) + 1 /\ Len(mounts) \in Nat
      /\ mounts'[Len(mounts) + 1] = m
      /\ \A j \in 1 .. Len(mounts) : mounts'[j] = mounts[j]
  BY <1>5, <1>6, AppendProperties DEF TableTypeOK
<1>8. /\ Len(fss') = Len(fss) + 1 /\ fss'[Len(fss) + 1] = f
      /\ \A j \in 1 .. Len(fss) : fss'[j] = fss[j]
      /\ fss' = [j \in 1 .. Len(fss) + 1 |-> fss'[j]]
  <2> DEFINE S == {fss[i] : i \in 1 .. Len(fss)} \cup {f}
  <2>1. \A j \in 1 .. Len(fss) : fss[j] \in S
    OBVIOUS
  <2>2. f \in S
    OBVIOUS
  <2> HIDE DEF S
  <2>3. fss \in Seq(S)
    <3>1. fss = [j \in 1 .. Len(fss) |-> fss[j]]
      BY FileSystemsType
    <3>2. fss \in [1 .. Len(fss) -> S]
      BY <2>1, <3>1
    <3> QED
      BY <1>4, <3>2, SeqDef
  <2>4. /\ Append(fss, f) \in Seq(S)
        /\ Len(Append(fss, f)) = Len(fss) + 1
        /\ \A j \in 1 .. Len(fss) : Append(fss, f)[j] = fss[j]
        /\ Append(fss, f)[Len(fss) + 1] = f
    BY <2>2, <2>3, AppendProperties
  <2>5. fss' \in [1 .. Len(fss) + 1 -> S]
    BY <1>6, <2>4, LenProperties
  <2> QED
    BY <1>6, <2>4, <2>5
<1>9. fss' \in Seq({fss'[i] : i \in 1 .. Len(fss')})
  BY <1>4, <1>8, SequenceOfItself
<1>10. /\ \A j \in 1 .. Len(mounts') : j \in 1 .. Len(mounts) \/ j = Len(mounts) + 1
       /\ \A j \in 1 .. Len(fss') : j \in 1 .. Len(fss) \/ j = Len(fss) + 1
       /\ \A j \in 1 .. Len(fss) : j \in 1 .. Len(fss')
       /\ Len(fss) + 1 \in 1 .. Len(fss')
  BY <1>4, <1>7, <1>8
<1>11. m.fs = Len(fss) + 1 /\ m.sub = <<>>
  BY <1>1
<1>12. TableTypeOK'
  <2>1. \A j \in 1 .. Len(mounts') : mounts'[j].fs \in 1 .. Len(fss')
    BY <1>7, <1>10, <1>11 DEF TableTypeOK
  <2>2. \A j \in 1 .. Len(fss') : IsFileSystem(fss'[j])
    BY <1>3, <1>8, <1>10 DEF TableTypeOK
  <2> QED
    BY <1>7, <1>9, <2>1, <2>2 DEF TableTypeOK
<1>13. RootsThere'
  <2> SUFFICES ASSUME NEW j \in 1 .. Len(mounts')
               PROVE  mounts'[j].sub \in DOMAIN fss'[mounts'[j].fs].files
    BY DEF RootsThere
  <2>1. CASE j \in 1 .. Len(mounts)
    <3>1. mounts'[j] = mounts[j] /\ mounts[j].fs \in 1 .. Len(fss)
      BY <1>7, <2>1 DEF TableTypeOK
    <3>2. fss'[mounts[j].fs] = fss[mounts[j].fs]
      BY <1>8, <3>1
    <3> QED
      BY <2>1, <3>1, <3>2 DEF RootsThere
  <2>2. CASE j = Len(mounts) + 1
    BY <1>3, <1>7, <1>8, <1>11, <2>2
  <2> QED
    BY <1>10, <2>1, <2>2
<1> QED
  BY <1>1, <1>3, <1>4, <1>5, <1>6, <1>8, <1>12, <1>13

\* A remount changes the attributes of one mount.
LEMMA RemountChanges ==
  ASSUME TableTypeOK, Rooted, RootsThere,
         NEW target, NEW flags \in SUBSET Flag, NEW asked \in SUBSET Flag,
         target.mount \in 1 .. Len(mounts), Remount(target, flags, asked)
  PROVE  /\ TableTypeOK' /\ Rooted' /\ RootsThere' /\ UNCHANGED fss
         /\ Len(mounts') = Len(mounts)
         /\ \A i \in 1 .. Len(mounts) :
              /\ mounts'[i].at = mounts[i].at /\ mounts'[i].by = mounts[i].by
              /\ mounts'[i].fs = mounts[i].fs /\ mounts'[i].sub = mounts[i].sub
              /\ i # target.mount => mounts'[i] = mounts[i]
         /\ mounts'[target.mount].flags = flags /\ mounts'[target.mount].asked = asked
<1>1. PICK t \in 1 .. Len(mounts) : t = target.mount
  OBVIOUS
<1>2. /\ DOMAIN mounts = 1 .. Len(mounts) /\ Len(mounts) \in Nat
      /\ \A i \in 1 .. Len(mounts) : mounts[i] \in MountRecord
  BY LenProperties, MountType DEF TableTypeOK
<1>3. /\ mounts' = [i \in 1 .. Len(mounts) |->
                      IF i = t THEN [mounts[i] EXCEPT !.flags = flags, !.asked = asked]
                      ELSE mounts[i]]
      /\ UNCHANGED fss
  BY <1>1, <1>2 DEF Remount
<1>4. /\ [mounts[t] EXCEPT !.flags = flags, !.asked = asked] \in MountRecord
      /\ \A m \in {[mounts[t] EXCEPT !.flags = flags, !.asked = asked]} :
           /\ m.at = mounts[t].at /\ m.by = mounts[t].by
           /\ m.fs = mounts[t].fs /\ m.sub = mounts[t].sub
           /\ m.flags = flags /\ m.asked = asked
  BY <1>2 DEF MountRecord
<1>5. /\ mounts' \in [1 .. Len(mounts) -> MountRecord]
      /\ \A i \in 1 .. Len(mounts) : i # t => mounts'[i] = mounts[i]
      /\ mounts'[t] = [mounts[t] EXCEPT !.flags = flags, !.asked = asked]
  BY <1>2, <1>3, <1>4
<1>6. mounts' \in Seq(MountRecord) /\ Len(mounts') = Len(mounts)
  BY <1>2, <1>5, SeqDef, LenProperties
<1>7. \A i \in 1 .. Len(mounts) :
              /\ mounts'[i].at = mounts[i].at /\ mounts'[i].by = mounts[i].by
              /\ mounts'[i].fs = mounts[i].fs /\ mounts'[i].sub = mounts[i].sub
  BY <1>4, <1>5
<1>8. mounts'[t].flags = flags /\ mounts'[t].asked = asked
  BY <1>4, <1>5
<1>9. TableTypeOK' /\ RootsThere'
  BY ZenonT(60), <1>3, <1>6, <1>7 DEF TableTypeOK, RootsThere
<1>10. Rooted'
  <2>1. 1 \in 1 .. Len(mounts)
    BY <1>2 DEF Rooted
  <2> QED
    BY <1>2, <1>6, <1>7, <2>1 DEF Rooted
<1> QED
  BY <1>1, <1>3, <1>5, <1>6, <1>7, <1>8, <1>9, <1>10

\* The new root's mounts.
LEMMA BelowRootType ==
  ASSUME TableTypeOK, Rooted, mounts' = BelowRoot, UNCHANGED fss
  PROVE  /\ TableTypeOK' /\ Len(mounts') = Len(mounts)
         /\ \A i \in 1 .. Len(mounts) :
              /\ mounts'[i].flags = mounts[i].flags /\ mounts'[i].asked = mounts[i].asked
              /\ mounts'[i].by = mounts[i].by /\ mounts'[i].fs = mounts[i].fs
<1>1. /\ Len(mounts) \in Nat
      /\ \A i \in 1 .. Len(mounts) :
           mounts[i] \in MountRecord /\ mounts[i].at \in Seq(Name)
           /\ mounts[i].sub \in Seq(Name)
  BY MountType DEF TableTypeOK
<1>2. RootDir \in Seq(Name) /\ Len(RootDir) = 1
  BY DEF RootDir, Name
<1>3. mounts' = [i \in 1 .. Len(mounts) |-> mounts'[i]]
  BY DEF BelowRoot
<1>4. ASSUME NEW i \in 1 .. Len(mounts)
      PROVE  /\ mounts'[i] \in MountRecord
             /\ mounts'[i].flags = mounts[i].flags /\ mounts'[i].asked = mounts[i].asked
             /\ mounts'[i].by = mounts[i].by /\ mounts'[i].fs = mounts[i].fs
  <2>1. PICK at, sub : /\ at = SubSeq(mounts[i].at, Len(RootDir) + 1, Len(mounts[i].at))
                       /\ sub = Inner(i, RootDir)
    OBVIOUS
  <2>2. at \in Seq(Name)
    <3>1. PICK m \in Nat : m = Len(mounts[i].at)
      BY <1>1
    <3>2. \A k \in 2 .. m : mounts[i].at[k] \in Name
      BY <1>1, <3>1
    <3>3. at = SubSeq(mounts[i].at, 2, m)
      BY <1>2, <2>1, <3>1
    <3> QED
      BY <3>2, <3>3, SubSeqProperties
  <2>3. sub \in Seq(Name)
    <3>1. sub = NameIn(mounts[i].at, mounts[i].sub, RootDir)
      BY <2>1 DEF Inner, NameIn
    <3> QED
      BY <1>1, <1>2, <3>1, NameParts
  <2>4. Unmounted \in Seq(Name)
    BY DEF Unmounted, Name
  <2>5. \/ mounts'[i] = [mounts[i] EXCEPT !.at = at]
        \/ mounts'[i] = [mounts[i] EXCEPT !.at = <<>>, !.sub = sub]
        \/ mounts'[i] = [mounts[i] EXCEPT !.at = Unmounted]
    <3>1. mounts'[i] =
            IF IsStrictPrefix(RootDir, mounts[i].at) THEN [mounts[i] EXCEPT !.at = at]
            ELSE IF i = Top(RootDir) THEN [mounts[i] EXCEPT !.at = <<>>, !.sub = sub]
            ELSE [mounts[i] EXCEPT !.at = Unmounted]
      BY <2>1 DEF BelowRoot
    <3> QED
      BY <3>1
  <2>6. ASSUME NEW a \in Seq(Name), NEW s \in Seq(Name),
               mounts'[i] = [mounts[i] EXCEPT !.at = a, !.sub = s]
        PROVE  /\ mounts'[i] \in MountRecord
               /\ mounts'[i].flags = mounts[i].flags /\ mounts'[i].asked = mounts[i].asked
               /\ mounts'[i].by = mounts[i].by /\ mounts'[i].fs = mounts[i].fs
    <3>1. mounts[i] \in MountRecord
      BY <1>1
    <3> QED
      BY <2>6, <3>1 DEF MountRecord
  <2>7. \A a : [mounts[i] EXCEPT !.at = a] = [mounts[i] EXCEPT !.at = a, !.sub = mounts[i].sub]
    BY <1>1 DEF MountRecord
  <2>8. mounts[i].sub \in Seq(Name) /\ <<>> \in Seq(Name)
    BY <1>1
  <2>9. CASE mounts'[i] = [mounts[i] EXCEPT !.at = at]
    BY <2>2, <2>6, <2>7, <2>8, <2>9
  <2>10. CASE mounts'[i] = [mounts[i] EXCEPT !.at = <<>>, !.sub = sub]
    BY <2>3, <2>6, <2>8, <2>10
  <2>11. CASE mounts'[i] = [mounts[i] EXCEPT !.at = Unmounted]
    BY <2>4, <2>6, <2>7, <2>8, <2>11
  <2> QED
    BY <2>5, <2>9, <2>10, <2>11
<1>5. mounts' \in Seq(MountRecord) /\ Len(mounts') = Len(mounts)
  <2>1. mounts' \in [1 .. Len(mounts) -> MountRecord]
    BY <1>3, <1>4
  <2> QED
    BY <1>1, <2>1, SeqDef, LenProperties
<1>6. TableTypeOK'
  BY <1>4, <1>5 DEF TableTypeOK
<1> QED
  BY <1>4, <1>5, <1>6

-----------------------------------------------------------------------------
(* Lookups, before a step and after it.                                    *)

\* A path at which something is mounted is there.
LEMMA MountPointExists ==
  ASSUME TableTypeOK, Rooted, RootsThere, NEW p \in Seq(Name), mounts[Top(p)].at = p
  PROVE  Exists(p)
<1>1. PICK t \in 1 .. Len(mounts) : t = Top(p)
  BY TopCovers
<1>2. mounts[t].at = p /\ mounts[t].sub \in Seq(Name)
  BY <1>1, MountType DEF TableTypeOK
<1>3. Inner(t, p) = NameIn(p, mounts[t].sub, p)
  BY <1>2 DEF Inner, NameIn
<1>4. Inner(t, p) = mounts[t].sub
  <2>1. PICK s \in Seq(Name) : s = mounts[t].sub
    BY <1>2
  <2>2. Len(p) <= Len(p)
    OBVIOUS
  <2>3. NameIn(p, s, p) = s
    BY <2>2, NameParts
  <2> QED
    BY <1>3, <2>1, <2>3
<1>5. PICK f \in 1 .. Len(fss) : f = mounts[t].fs
  BY DEF TableTypeOK
<1>6. mounts[t].sub \in DOMAIN fss[f].files
  BY <1>5 DEF RootsThere
<1>7. fss[f].files[mounts[t].sub] \in FileKind
  BY <1>6, FileSystemType
<1> QED
  BY <1>1, <1>4, <1>5, <1>6, <1>7 DEF Exists, Is

\* A path is there if what it is called in its mount is.
LEMMA ExistsMeans ==
  TableTypeOK /\ Rooted =>
    \A p \in Seq(Name) :
      /\ Top(p) \in 1 .. Len(mounts) /\ IsPrefix(mounts[Top(p)].at, p)
      /\ Exists(p) <=> Inner(Top(p), p) \in DOMAIN fss[mounts[Top(p)].fs].files
<1> SUFFICES ASSUME TableTypeOK, Rooted, NEW p \in Seq(Name)
             PROVE  /\ Top(p) \in 1 .. Len(mounts) /\ IsPrefix(mounts[Top(p)].at, p)
                    /\ Exists(p) <=> Inner(Top(p), p) \in DOMAIN fss[mounts[Top(p)].fs].files
  OBVIOUS
<1>1. PICK t \in 1 .. Len(mounts) : t = Top(p) /\ IsPrefix(mounts[t].at, p)
  BY TopCovers
<1>2. PICK f \in 1 .. Len(fss) : f = mounts[t].fs
  BY DEF TableTypeOK
<1>3. fss[f].files \in [DOMAIN fss[f].files -> FileKind]
  BY FileSystemType
<1>4. \A q \in DOMAIN fss[f].files : fss[f].files[q] \in FileKind
  BY <1>3
<1> QED
  BY <1>1, <1>2, <1>4 DEF Exists, Is

\* The same after a step.
LEMMA ExistsThen ==
  ASSUME TableTypeOK', Rooted'
  PROVE  \A p \in Seq(Name) :
           /\ Top(p)' \in 1 .. Len(mounts')
           /\ Exists(p)' <=> Inner(Top(p), p)' \in DOMAIN fss'[mounts'[Top(p)'].fs].files
<1>1. (TableTypeOK /\ Rooted =>
         \A p \in Seq(Name) :
           /\ Top(p) \in 1 .. Len(mounts) /\ IsPrefix(mounts[Top(p)].at, p)
           /\ Exists(p) <=> Inner(Top(p), p) \in DOMAIN fss[mounts[Top(p)].fs].files)'
  BY ExistsMeans, PTL
<1> QED
  BY <1>1

\* No mount is made or moved.
SameMounts ==
  /\ Len(mounts') = Len(mounts)
  /\ \A i \in 1 .. Len(mounts) :
       /\ mounts'[i].at = mounts[i].at /\ mounts'[i].by = mounts[i].by
       /\ mounts'[i].fs = mounts[i].fs /\ mounts'[i].sub = mounts[i].sub

\* No file goes, and none is made.
FilesKept ==
  \A f \in 1 .. Len(fss) :
    fss'[f].type = fss[f].type /\ DOMAIN fss[f].files \subseteq DOMAIN fss'[f].files
FilesSame ==
  \A f \in 1 .. Len(fss) :
    fss'[f].type = fss[f].type /\ DOMAIN fss'[f].files = DOMAIN fss[f].files

\* At path p one gets into the same mount as before, and p is there if it was.
SameAt(p) ==
  /\ Top(p)' = Top(p) /\ TypeAt(p)' = TypeAt(p)
  /\ mounts'[Top(p)].at = mounts[Top(p)].at /\ mounts'[Top(p)].by = mounts[Top(p)].by
  /\ Exists(p) => Exists(p)'

\* No mount comes or goes: every path leads where it did.
LEMMA SameLookup ==
  ASSUME TableTypeOK, Rooted, TableTypeOK', SameMounts, FilesKept, NEW p \in Seq(Name)
  PROVE  /\ Rooted' /\ SameAt(p)
         /\ FilesSame /\ Exists(p)' => Exists(p)
<1>1. PICK t \in 1 .. Len(mounts) : t = Top(p)
  BY TopCovers
<1>2. mounts' \in Seq(MountRecord)
  BY DEF TableTypeOK
<1>3. Rooted' /\ Top(p)' = Top(p)
  BY <1>2, TopStays DEF SameMounts
<1>4. PICK f \in 1 .. Len(fss) : f = mounts[t].fs
  BY DEF TableTypeOK
<1>5. /\ mounts'[t].fs = f /\ mounts'[t].at = mounts[t].at /\ mounts'[t].by = mounts[t].by
      /\ mounts'[t].sub = mounts[t].sub
  BY <1>4 DEF SameMounts
<1>6. Inner(Top(p), p)' = Inner(t, p)
  BY <1>1, <1>3, <1>5 DEF Inner
<1>7. TypeAt(p)' = TypeAt(p)
  BY <1>1, <1>3, <1>4, <1>5 DEF TypeAt, FilesKept
<1>8. Exists(p) <=> Inner(t, p) \in DOMAIN fss[f].files
  BY <1>1, <1>4, ExistsMeans
<1>9. Exists(p)' <=> Inner(t, p) \in DOMAIN fss'[f].files
  BY <1>1, <1>3, <1>5, <1>6, ExistsThen
<1> QED
  BY <1>1, <1>3, <1>4, <1>5, <1>7, <1>8, <1>9 DEF SameAt, FilesKept, FilesSame

\* A new mount matters only at and below its place.
LEMMA LookupBeside ==
  ASSUME TableTypeOK, Rooted, TableTypeOK', FilesKept,
         NEW m \in MountRecord, mounts' = Append(mounts, m),
         NEW p \in Seq(Name), ~IsPrefix(m.at, p)
  PROVE  /\ SameAt(p)
         /\ FilesSame /\ Exists(p)' => Exists(p)
<1>1. PICK t \in 1 .. Len(mounts) : t = Top(p)
  BY TopCovers
<1>2. Rooted' /\ Top(p)' = Top(p) /\ mounts'[t] = mounts[t]
  BY TopAfterMount
<1>3. PICK f \in 1 .. Len(fss) : f = mounts[t].fs
  BY DEF TableTypeOK
<1>4. Inner(Top(p), p)' = Inner(t, p)
  BY <1>1, <1>2 DEF Inner
<1>5. TypeAt(p)' = TypeAt(p)
  BY <1>1, <1>2, <1>3 DEF TypeAt, FilesKept
<1>6. Exists(p) <=> Inner(t, p) \in DOMAIN fss[f].files
  BY <1>1, <1>3, ExistsMeans
<1>7. Exists(p)' <=> Inner(t, p) \in DOMAIN fss'[f].files
  BY <1>1, <1>2, <1>3, <1>4, ExistsThen
<1> QED
  BY <1>1, <1>2, <1>3, <1>5, <1>6, <1>7 DEF SameAt, FilesKept, FilesSame

\* At its place one gets into it.
LEMMA LookupAtMount ==
  ASSUME Rooted, NEW m \in MountRecord, mounts' = Append(mounts, m)
  PROVE  /\ Top(m.at)' = Len(mounts) + 1 /\ mounts'[Top(m.at)'] = m
         /\ TypeAt(m.at)' = fss'[m.fs].type
<1>1. PICK p \in Seq(Name) : p = m.at
  BY DEF MountRecord
<1>2. IsPrefix(p, p)
  BY PrefixOrder
<1>3. Top(p)' = Len(mounts) + 1 /\ mounts'[Len(mounts) + 1] = m
  BY <1>1, <1>2, TopAfterMount
<1> QED
  BY <1>1, <1>3 DEF TypeAt

-----------------------------------------------------------------------------
(* Every mount is on something that is there.                              *)

\* Steps that move no mount leave them on what they are on.
LEMMA PointsKept ==
  ASSUME TableTypeOK, PointsThere, SameMounts, FilesKept
  PROVE  PointsThere'
<1>1. Len(mounts) \in Nat
  BY DEF TableTypeOK
<1>2. ASSUME NEW i \in 2 .. Len(mounts)
      PROVE  \E k \in 1 .. i - 1 :
               /\ IsOn(mounts', i, k)
               /\ Inner(k, mounts[i].at)' \in DOMAIN fss'[mounts'[k].fs].files
  <2>1. PICK k \in 1 .. i - 1 :
          IsOn(mounts, i, k) /\ Inner(k, mounts[i].at) \in DOMAIN fss[mounts[k].fs].files
    BY <1>2 DEF PointsThere
  <2>2. i \in 1 .. Len(mounts) /\ k \in 1 .. Len(mounts)
        /\ \A l \in k + 1 .. i - 1 : l \in 1 .. Len(mounts)
    BY <1>1
  <2>3. mounts[k].fs \in 1 .. Len(fss)
    BY <2>2 DEF TableTypeOK
  <2>4. IsOn(mounts', i, k)
    BY <2>1, <2>2 DEF IsOn, SameMounts
  <2>5. Inner(k, mounts[i].at)' = Inner(k, mounts[i].at)
    BY <2>2 DEF Inner, SameMounts
  <2>6. DOMAIN fss[mounts[k].fs].files \subseteq DOMAIN fss'[mounts'[k].fs].files
    BY <2>2, <2>3 DEF SameMounts, FilesKept
  <2> QED
    BY <2>1, <2>4, <2>5, <2>6
<1> QED
  BY <1>2 DEF PointsThere, SameMounts

\* A new mount is on what its descriptor stands on.
LEMMA PointsAdded ==
  ASSUME TableTypeOK, Rooted, PointsThere, FilesKept,
         NEW m \in MountRecord, mounts' = Append(mounts, m), Exists(m.at)
  PROVE  PointsThere'
<1>1. PICK p \in Seq(Name) : p = m.at
  BY DEF MountRecord
<1>2. PICK t \in 1 .. Len(mounts) :
        t = Top(p) /\ IsPrefix(mounts[t].at, p) /\ \A l \in Covering(p) : l <= t
  BY TopCovers
<1>3. /\ Len(mounts') = Len(mounts) + 1 /\ Len(mounts) \in Nat
      /\ mounts'[Len(mounts) + 1] = m
      /\ \A i \in 1 .. Len(mounts) : mounts'[i] = mounts[i]
  BY <1>1, TopAfterMount
<1>4. \A k \in 1 .. Len(mounts) :
        /\ \A q : Inner(k, q)' = Inner(k, q)
        /\ DOMAIN fss[mounts[k].fs].files \subseteq DOMAIN fss'[mounts'[k].fs].files
  BY <1>3 DEF Inner, FilesKept, TableTypeOK
<1>5. ASSUME NEW i \in 2 .. Len(mounts)
      PROVE  \E k \in 1 .. i - 1 :
               /\ IsOn(mounts', i, k)
               /\ Inner(k, mounts[i].at)' \in DOMAIN fss'[mounts'[k].fs].files
  <2>1. PICK k \in 1 .. i - 1 :
          IsOn(mounts, i, k) /\ Inner(k, mounts[i].at) \in DOMAIN fss[mounts[k].fs].files
    BY <1>5 DEF PointsThere
  <2>2. i \in 1 .. Len(mounts) /\ k \in 1 .. Len(mounts)
        /\ \A l \in k + 1 .. i - 1 : l \in 1 .. Len(mounts)
    BY <1>3
  <2>3. IsOn(mounts', i, k)
    BY <1>3, <2>1, <2>2 DEF IsOn
  <2>4. Inner(k, mounts[i].at)' = Inner(k, mounts[i].at)
    BY <1>3, <2>2 DEF Inner
  <2> QED
    BY <1>4, <2>1, <2>2, <2>3, <2>4
<1>6. ASSUME NEW i \in {Len(mounts) + 1}
      PROVE  \E k \in 1 .. i - 1 :
               /\ IsOn(mounts', i, k)
               /\ Inner(k, mounts[i].at)' \in DOMAIN fss'[mounts'[k].fs].files
  <2>1. IsOn(mounts', i, t)
    <3>1. mounts'[i].at = p /\ mounts'[t].at = mounts[t].at
      BY <1>1, <1>3
    <3>2. ASSUME NEW l \in t + 1 .. i - 1
          PROVE  ~IsPrefix(mounts'[l].at, p)
      <4>1. l \in 1 .. Len(mounts) /\ ~(l <= t)
        BY <1>3
      <4>2. l \notin Covering(p)
        BY <1>2, <4>1
      <4> QED
        BY <1>3, <4>1, <4>2 DEF Covering
    <3> QED
      BY <1>2, <3>1, <3>2 DEF IsOn
  <2>2. Inner(t, mounts[i].at)' = Inner(t, p)
    BY <1>1, <1>3 DEF Inner
  <2>3. Inner(t, p) \in DOMAIN fss[mounts[t].fs].files
    BY <1>1, <1>2, ExistsMeans
  <2>4. t \in 1 .. i - 1
    BY <1>3
  <2> QED
    BY <1>4, <2>1, <2>2, <2>3, <2>4
<1>7. \A i \in 2 .. Len(mounts') : i \in 2 .. Len(mounts) \/ i \in {Len(mounts) + 1}
  BY <1>3
<1> QED
  BY <1>5, <1>6, <1>7 DEF PointsThere

\* What a path at or below the mount is called, part by part.
IsName(x, at, sub, p) ==
  /\ x \in Seq(Name) /\ Len(x) = Len(sub) + Len(p) - Len(at)
  /\ \A k \in 1 .. Len(sub) : x[k] = sub[k]
  /\ \A k \in Len(at) + 1 .. Len(p) : x[k + Len(sub) - Len(at)] = p[k]

\* It is called that.
LEMMA NameWhole ==
  \A at, sub, p \in Seq(Name) : Len(p) >= Len(at) => IsName(NameIn(at, sub, p), at, sub, p)
<1> SUFFICES ASSUME NEW at \in Seq(Name), NEW sub \in Seq(Name), NEW p \in Seq(Name),
                    Len(p) >= Len(at)
             PROVE  IsName(NameIn(at, sub, p), at, sub, p)
  OBVIOUS
<1> DEFINE x == NameIn(at, sub, p)
<1>1. /\ x \in Seq(Name) /\ Len(x) = Len(sub) + Len(p) - Len(at)
      /\ \A k \in 1 .. Len(sub) : x[k] = sub[k]
      /\ \A k \in Len(at) + 1 .. Len(p) : x[k + Len(sub) - Len(at)] = p[k]
  BY ZenonT(30), NameParts
<1> HIDE DEF x
<1>2. IsName(x, at, sub, p)
  BY <1>1 DEF IsName
<1> QED
  BY <1>2 DEF x

\* What is above a path is called above it, in any mount that has both.
LEMMA NamePrefix ==
  ASSUME NEW at \in Seq(Name), NEW sub \in Seq(Name), NEW p \in Seq(Name), NEW q \in Seq(Name),
         IsPrefix(at, p), IsPrefix(p, q), p # q
  PROVE  IsStrictPrefix(NameIn(at, sub, p), NameIn(at, sub, q))
<1>1. /\ Len(at) \in Nat /\ Len(sub) \in Nat /\ Len(p) \in Nat /\ Len(q) \in Nat
      /\ Len(at) <= Len(p) /\ Len(p) <= Len(q) /\ Len(p) # Len(q)
      /\ \A k \in 1 .. Len(p) : p[k] = q[k]
  BY PrefixParts, PrefixOrder
<1> DEFINE a == NameIn(at, sub, p)
           b == NameIn(at, sub, q)
<1>2. a \in Seq(Name) /\ b \in Seq(Name)
  BY NameParts
<1>3. Len(p) >= Len(at) /\ Len(q) >= Len(at)
  BY <1>1
<1>4. /\ Len(a) = Len(sub) + Len(p) - Len(at)
      /\ \A k \in 1 .. Len(sub) : a[k] = sub[k]
      /\ \A k \in Len(at) + 1 .. Len(p) : a[k + Len(sub) - Len(at)] = p[k]
  BY ZenonT(30), <1>3, NameParts
<1>5. /\ Len(b) = Len(sub) + Len(q) - Len(at)
      /\ \A k \in 1 .. Len(sub) : b[k] = sub[k]
      /\ \A k \in Len(at) + 1 .. Len(q) : b[k + Len(sub) - Len(at)] = q[k]
  BY ZenonT(30), <1>3, NameParts
<1> HIDE DEF a, b
<1>6. ASSUME NEW k \in 1 .. Len(a)
      PROVE  a[k] = b[k]
  <2>1. CASE k <= Len(sub)
    BY <1>4, <1>5, <2>1
  <2>2. CASE k > Len(sub)
    <3>1. PICK l \in Len(at) + 1 .. Len(p) : l = k - Len(sub) + Len(at)
      <4>1. k \in Nat /\ k <= Len(sub) + Len(p) - Len(at)
        BY <1>1, <1>4
      <4>2. k - Len(sub) + Len(at) \in Len(at) + 1 .. Len(p)
        BY <1>1, <2>2, <4>1
      <4> QED
        BY <4>2
    <3>2. k = l + Len(sub) - Len(at) /\ l \in Len(at) + 1 .. Len(q) /\ l \in 1 .. Len(p)
      BY <1>1, <3>1
    <3> QED
      BY <1>1, <1>4, <1>5, <3>1, <3>2
  <2> QED
    BY <1>1, <2>1, <2>2
<1>7. Len(a) < Len(b)
  BY <1>1, <1>4, <1>5
<1>8. IsPrefix(a, b)
  <2>1. Len(a) <= Len(b)
    BY <1>1, <1>4, <1>5
  <2>2. \A k \in 1 .. Len(a) : a[k] = b[k]
    BY <1>6
  <2> QED
    BY <1>2, <2>1, <2>2, PrefixParts
<1>9. a # b
  BY <1>1, <1>4, <1>7
<1> QED
  BY <1>8, <1>9 DEF IsStrictPrefix, a, b

-----------------------------------------------------------------------------
(* What making files leaves of the lookups.                                *)

\* Making a file moves no mount and takes nothing away.
LEMMA CreateKeeps ==
  ASSUME TableTypeOK, Rooted, RootsThere,
         NEW p \in Seq(Name), NEW kind \in FileKind, Create(p, kind), UNCHANGED mounts
  PROVE  SameMounts /\ FilesKept
<1>1. SameMounts
  BY DEF SameMounts
<1>2. PICK t \in 1 .. Len(mounts) : t = Top(p)
  BY TopCovers
<1>3. PICK ft \in 1 .. Len(fss) : ft = mounts[t].fs
  BY DEF TableTypeOK
<1>4. /\ \A f \in 1 .. Len(fss) : fss'[f].type = fss[f].type /\ (f # ft => fss'[f] = fss[f])
      /\ DOMAIN fss'[ft].files = DOMAIN fss[ft].files \cup MadeFiles(p)
  BY <1>2, <1>3, CreateAdds
<1>5. FilesKept
  BY <1>4 DEF FilesKept
<1> QED
  BY <1>1, <1>5

\* The names of what is to be there in the end.
LEMMA MadeNames ==
  ASSUME Rooted, NEW p \in Seq(Name), NEW t \in 1 .. Len(mounts), t = Top(p),
         NEW at \in Seq(Name), NEW sub \in Seq(Name), at = mounts[t].at, sub = mounts[t].sub
  PROVE  MadeFiles(p) = {NameIn(at, sub, Prefix(p, k)) : k \in 0 .. Len(p)}
<1>1. \A q : Inner(t, q) = NameIn(at, sub, q)
  BY DEF Inner, NameIn
<1>2. Above(p) \cup {p} = {Prefix(p, k) : k \in 0 .. Len(p)}
  BY AboveOrAt
<1> HIDE DEF NameIn
<1> QED
  BY <1>1, <1>2 DEF MadeFiles

\* Making what is there makes nothing.
LEMMA CreateExisting ==
  ASSUME TableTypeOK, Rooted, RootsThere, NEW p \in Seq(Name), NEW kind \in FileKind,
         Create(p, kind), UNCHANGED mounts, Exists(p)
  PROVE  FilesSame
<1>1. PICK t \in 1 .. Len(mounts) : t = Top(p) /\ IsPrefix(mounts[t].at, p)
  BY TopCovers
<1>2. PICK at \in Seq(Name), sub \in Seq(Name), ft \in 1 .. Len(fss) :
        at = mounts[t].at /\ sub = mounts[t].sub /\ ft = mounts[t].fs
  BY MountType DEF TableTypeOK
<1>3. MadeFiles(p) = {NameIn(at, sub, Prefix(p, k)) : k \in 0 .. Len(p)}
  <2>1. t = Top(p) /\ at = mounts[t].at /\ sub = mounts[t].sub
    BY <1>1, <1>2
  <2> QED
    BY <2>1, MadeNames
<1> DEFINE name == NameIn(at, sub, p)
<1>4. /\ name \in DOMAIN fss[ft].files /\ sub \in DOMAIN fss[ft].files
      /\ \A q \in DOMAIN fss[ft].files :
           \A k \in 0 .. Len(q) : Prefix(q, k) \in DOMAIN fss[ft].files
  <2>1. Inner(t, p) = name
    BY <1>2 DEF Inner, NameIn
  <2> HIDE DEF name
  <2> QED
    BY <1>1, <1>2, <2>1, ExistsMeans, FileSystemType DEF RootsThere
<1>5. /\ Len(at) \in Nat /\ Len(sub) \in Nat /\ Len(p) \in Nat /\ Len(at) <= Len(p)
      /\ name \in Seq(Name) /\ Len(name) = Len(sub) + Len(p) - Len(at)
  <2>1. Len(at) \in Nat /\ Len(sub) \in Nat /\ Len(p) \in Nat /\ Len(at) <= Len(p)
    BY <1>1, <1>2, PrefixParts
  <2>2. Len(p) >= Len(at)
    BY <2>1
  <2>3. name \in Seq(Name) /\ Len(name) = Len(sub) + Len(p) - Len(at)
    BY <2>2, NameParts
  <2> QED
    BY <2>1, <2>3
<1>6. ASSUME NEW k \in 0 .. Len(p)
      PROVE  NameIn(at, sub, Prefix(p, k)) \in DOMAIN fss[ft].files
  <2>1. Prefix(p, k) \in Seq(Name) /\ Len(Prefix(p, k)) = k
    BY <1>5, PrefixOf
  <2>2. PICK q \in Seq(Name) : q = Prefix(p, k) /\ Len(q) = k
    BY <2>1
  <2>3. CASE k <= Len(at)
    <3>1. NameIn(at, sub, q) = sub
      BY <2>2, <2>3, NameParts
    <3> QED
      BY <1>4, <2>2, <3>1
  <2>4. CASE k > Len(at)
    <3>1. PICK l \in 0 .. Len(name) : l = k - Len(at) + Len(sub)
      <4>1. k - Len(at) + Len(sub) \in 0 .. Len(name)
        BY <1>5, <2>4
      <4> QED
        BY <4>1
    <3>2. ~(l <= Len(sub)) /\ \A j \in 0 .. Len(p) : j = l - Len(sub) + Len(at) => j = k
      BY <1>5, <2>4, <3>1
    <3>3. Prefix(name, l) = NameIn(at, sub, Prefix(p, k))
      <4>1. Len(p) >= Len(at)
        BY <1>5
      <4>2. \/ l <= Len(sub)
            \/ \E j \in 0 .. Len(p) :
                 /\ j = l - Len(sub) + Len(at)
                 /\ Prefix(name, l) = NameIn(at, sub, Prefix(p, j))
        BY <4>1, NameAbove
      <4> QED
        BY <3>2, <4>2
    <3> HIDE DEF name
    <3> QED
      BY <1>4, <3>3
  <2> QED
    BY <1>5, <2>3, <2>4
<1>7. MadeFiles(p) \subseteq DOMAIN fss[ft].files
  BY <1>6, <1>3
<1>8. /\ \A f \in 1 .. Len(fss) : fss'[f].type = fss[f].type /\ (f # ft => fss'[f] = fss[f])
      /\ DOMAIN fss'[ft].files = DOMAIN fss[ft].files \cup MadeFiles(p)
  BY <1>1, <1>2, CreateAdds
<1> QED
  BY <1>7, <1>8 DEF FilesSame

\* Of two paths in one directory, making one does not make the other.
LEMMA CreateBeside ==
  ASSUME TableTypeOK, Rooted, RootsThere, NEW p \in Seq(Name), NEW kind \in FileKind,
         Create(p, kind), UNCHANGED mounts, TableTypeOK', ~Exists(p),
         NEW q \in Seq(Name), Len(q) = Len(p), Len(p) # 0, q[Len(p)] # p[Len(p)],
         \A k \in 1 .. Len(p) - 1 : q[k] = p[k], ~Exists(q)
  PROVE  ~Exists(q)'
<1>1. PICK t \in 1 .. Len(mounts) :
        t = Top(p) /\ IsPrefix(mounts[t].at, p) /\ \A i \in Covering(p) : i <= t
  BY TopCovers
<1>2. PICK u \in 1 .. Len(mounts) :
        u = Top(q) /\ IsPrefix(mounts[u].at, q) /\ \A i \in Covering(q) : i <= u
  BY TopCovers
<1>3. mounts[t].at # p /\ mounts[u].at # q
  BY <1>1, <1>2, MountPointExists
<1>4. \A i \in 1 .. Len(mounts) : mounts[i].at \in Seq(Name)
  BY MountType DEF TableTypeOK
<1>5. /\ \A i \in 1 .. Len(mounts) : IsPrefix(mounts[i].at, p) /\ mounts[i].at # p
                                     => IsPrefix(mounts[i].at, q)
      /\ \A i \in 1 .. Len(mounts) : IsPrefix(mounts[i].at, q) /\ mounts[i].at # q
                                     => IsPrefix(mounts[i].at, p)
  <2>1. ASSUME NEW a \in Seq(Name), NEW r \in Seq(Name), NEW s \in Seq(Name), Len(r) = Len(s),
               IsPrefix(a, r), a # r, \A k \in 1 .. Len(r) - 1 : r[k] = s[k]
        PROVE  IsPrefix(a, s)
    <3>1. /\ Len(a) \in Nat /\ Len(r) \in Nat /\ Len(a) <= Len(r) /\ Len(a) # Len(r)
          /\ \A k \in 1 .. Len(a) : a[k] = r[k]
      BY <2>1, PrefixParts, PrefixOrder
    <3>2. Len(a) <= Len(s) /\ Len(a) <= Len(r) - 1
      BY <2>1, <3>1
    <3>3. \A k \in 1 .. Len(a) : k \in 1 .. Len(r) - 1
      BY <3>1, <3>2
    <3>4. \A k \in 1 .. Len(a) : a[k] = s[k]
      BY <2>1, <3>1, <3>3
    <3> QED
      BY <3>2, <3>4, PrefixParts
  <2> QED
    BY <1>4, <2>1
<1>6. t = u
  <2>1. t \in Covering(q) /\ u \in Covering(p)
    BY <1>1, <1>2, <1>3, <1>5 DEF Covering
  <2> QED
    BY <1>1, <1>2, <2>1
<1>7. PICK at \in Seq(Name), sub \in Seq(Name), ft \in 1 .. Len(fss) :
        at = mounts[t].at /\ sub = mounts[t].sub /\ ft = mounts[t].fs
  BY MountType DEF TableTypeOK
<1> DEFINE name == NameIn(at, sub, q)
<1>8. name \notin DOMAIN fss[ft].files /\ sub \in DOMAIN fss[ft].files
  <2>1. Inner(t, q) = name
    BY <1>7 DEF Inner, NameIn
  <2> HIDE DEF name
  <2> QED
    BY <1>2, <1>6, <1>7, <2>1, ExistsMeans DEF RootsThere
<1>9. /\ Len(at) \in Nat /\ Len(sub) \in Nat /\ Len(p) \in Nat /\ Len(at) < Len(p)
  BY <1>1, <1>3, <1>7, PrefixParts, PrefixOrder
<1>10. /\ Len(name) = Len(sub) + Len(p) - Len(at)
       /\ name[Len(p) + Len(sub) - Len(at)] = q[Len(p)]
  <2>1. Len(q) >= Len(at) /\ Len(p) \in Len(at) + 1 .. Len(q)
    BY <1>9
  <2>2. /\ Len(name) = Len(sub) + Len(q) - Len(at)
        /\ \A k \in Len(at) + 1 .. Len(q) : name[k + Len(sub) - Len(at)] = q[k]
    <3> DEFINE P(r) == Len(r) >= Len(at) => Len(NameIn(at, sub, r)) = Len(sub) + Len(r) - Len(at)
    <3>1. \A r \in Seq(Name) : P(r)
      BY NameParts
    <3>2. Len(name) = Len(sub) + Len(q) - Len(at)
      BY <2>1, <3>1
    <3>3. \A k \in Len(at) + 1 .. Len(q) : name[k + Len(sub) - Len(at)] = q[k]
      BY <2>1, NameParts
    <3> QED
      BY <3>2, <3>3
  <2> HIDE DEF name
  <2> QED
    BY <2>1, <2>2
<1>11. ASSUME NEW k \in 0 .. Len(p)
       PROVE  NameIn(at, sub, Prefix(p, k)) # name
  <2>1. Prefix(p, k) \in Seq(Name) /\ Len(Prefix(p, k)) = k
    BY <1>9, PrefixOf
  <2>2. PICK r \in Seq(Name) : r = Prefix(p, k) /\ Len(r) = k
    BY <2>1
  <2>3. CASE k <= Len(at)
    <3>1. NameIn(at, sub, r) = sub
      BY <2>2, <2>3, NameParts
    <3> QED
      BY <1>8, <2>2, <3>1
  <2>4. CASE k > Len(at) /\ k # Len(p)
    <3>1. Len(r) >= Len(at)
      BY <1>9, <2>2, <2>4
    <3>2. Len(NameIn(at, sub, r)) = Len(sub) + Len(r) - Len(at)
      BY <3>1, NameParts
    <3> HIDE DEF name
    <3> QED
      BY <1>9, <1>10, <2>2, <2>4, <3>2
  <2>5. CASE k = Len(p)
    <3>1. r = p
      BY <2>2, <2>5, AboveOrAt
    <3>2. Len(p) >= Len(at) /\ Len(p) \in Len(at) + 1 .. Len(p)
      BY <1>9
    <3>3. \A j \in Len(at) + 1 .. Len(p) :
            NameIn(at, sub, p)[j + Len(sub) - Len(at)] = p[j]
      BY ZenonT(30), <3>2, NameParts
    <3> HIDE DEF name
    <3> QED
      BY <1>10, <2>2, <3>1, <3>2, <3>3
  <2> QED
    BY <1>9, <2>3, <2>4, <2>5
<1>12. name \notin DOMAIN fss'[ft].files
  <2>1. MadeFiles(p) = {NameIn(at, sub, Prefix(p, k)) : k \in 0 .. Len(p)}
    BY <1>1, <1>7, MadeNames
  <2>2. DOMAIN fss'[ft].files = DOMAIN fss[ft].files \cup MadeFiles(p)
    BY <1>1, <1>7, CreateAdds
  <2> HIDE DEF name
  <2> QED
    BY <1>8, <1>11, <2>1, <2>2
<1>13. Rooted' /\ Top(q)' = t /\ mounts'[t] = mounts[t]
  BY <1>2, <1>6, CreateKeeps, SameLookup DEF SameAt
<1>14. Inner(Top(q), q)' = name
  <2>1. Inner(t, q) = name
    BY <1>7 DEF Inner, NameIn
  <2> HIDE DEF name
  <2> QED
    BY <1>13, <2>1 DEF Inner
<1> HIDE DEF name
<1> QED
  BY <1>7, <1>12, <1>13, <1>14, ExistsThen

=============================================================================
