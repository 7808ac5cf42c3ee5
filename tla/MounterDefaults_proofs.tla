----------------------- MODULE MounterDefaults_proofs ------------------------
(***************************************************************************)
(* Proofs about the default file systems and devices: what they leave in   *)
(* the mount table, and what of it the container has in the end.           *)
(***************************************************************************)
EXTENDS Mounter_proofs

-----------------------------------------------------------------------------
(* An empty directory.                                                     *)

\* Below a directory that is empty only mounts from before its own are left.
LEMMA MountsBelow ==
  ASSUME TableTypeOK, Rooted, PointsThere, NEW d \in Seq(Name), DirectoryIsEmpty(d),
         NEW i \in 1 .. Len(mounts), IsStrictPrefix(d, mounts[i].at)
  PROVE  i < Top(d)
<1>1. PICK t \in 1 .. Len(mounts) :
        t = Top(d) /\ IsPrefix(mounts[t].at, d) /\ \A l \in Covering(d) : l <= t
  BY TopCovers
<1> DEFINE Later == {j \in t + 1 .. Len(mounts) : IsStrictPrefix(d, mounts[j].at)}
<1>2. Len(mounts) \in Nat /\ \A j \in 1 .. Len(mounts) : mounts[j].at \in Seq(Name)
                                                         /\ mounts[j].sub \in Seq(Name)
  BY MountType DEF Rooted
<1>3. i # t
  <2>1. ~IsPrefix(mounts[i].at, d)
    BY <1>2, PrefixOrder DEF IsStrictPrefix
  <2> QED
    BY <1>1, <2>1
<1>4. ASSUME Later # {}
      PROVE  FALSE
  <2>1. Later \subseteq Nat
    BY <1>2
  <2>2. PICK j \in Later : \A l \in Later : j <= l
    BY <1>4, <2>1, LeastOfNats
  <2>3. j \in 2 .. Len(mounts) /\ j \in 1 .. Len(mounts) /\ t < j
        /\ IsPrefix(d, mounts[j].at) /\ d # mounts[j].at
    BY <1>2 DEF IsStrictPrefix
  <2>4. PICK k \in 1 .. j - 1 :
          IsOn(mounts, j, k) /\ Inner(k, mounts[j].at) \in DOMAIN fss[mounts[k].fs].files
    BY <2>3 DEF PointsThere
  <2>5. PICK at \in Seq(Name), q \in Seq(Name), below \in Seq(Name), sub \in Seq(Name) :
          at = mounts[k].at /\ q = mounts[j].at /\ below = mounts[t].at /\ sub = mounts[t].sub
    BY SMTT(30), <1>1, <1>2, <2>3, <2>4
  <2>6. IsPrefix(at, q) /\ IsPrefix(below, q) /\ IsPrefix(d, q) /\ d # q /\ IsPrefix(below, d)
    BY <1>1, <2>3, <2>4, <2>5, PrefixOrder DEF IsOn
  <2>7. ~(k < t)
    <3>1. k < t => t \in k + 1 .. j - 1
      BY <1>2, <2>3, <2>4
    <3> QED
      BY <2>4, <2>5, <2>6, <3>1 DEF IsOn
  <2>8. k # t
    <3>1. ASSUME k = t PROVE FALSE
      <4>1. IsStrictPrefix(NameIn(below, sub, d), NameIn(below, sub, q))
        BY <2>6, NamePrefix
      <4>2. Inner(t, d) = NameIn(below, sub, d) /\ Inner(t, q) = NameIn(below, sub, q)
        BY <2>5 DEF Inner, NameIn
      <4>3. Inner(t, q) \in DOMAIN FilesAt(d)
        BY <1>1, <2>4, <2>5, <3>1 DEF FilesAt
      <4> QED
        BY <1>1, <4>1, <4>2, <4>3 DEF DirectoryIsEmpty
    <3> QED
      BY <3>1
  <2>9. k \in t + 1 .. Len(mounts) /\ k < j
    BY SMTT(30), <1>2, <2>3, <2>4, <2>7, <2>8
  <2>10. ~IsPrefix(at, d)
    BY <1>1, <1>2, <2>5, <2>9 DEF Covering
  <2>11. IsPrefix(d, at) /\ d # at
    BY <2>6, <2>10, PrefixesCompare, PrefixOrder
  <2>12. k \in Later
    BY <2>5, <2>9, <2>11 DEF IsStrictPrefix
  <2> QED
    BY <2>2, <2>9, <2>12, <1>2
<1>5. ~(i > t)
  BY <1>2, <1>4
<1> QED
  BY <1>1, <1>2, <1>3, <1>5

-----------------------------------------------------------------------------
(* pivot_root.                                                             *)

\* The path of the rootfs.
LEMMA RootParts == RootDir \in Seq(Name) /\ Len(RootDir) = 1 /\ RootDir[1] = "rootfs"
<1>1. RootDir \in Seq(Name) /\ Len(RootDir) = 1
  BY DEF RootDir, Name
<1>2. RootDir[1] = "rootfs"
  BY DEF RootDir
<1> QED
  BY <1>1, <1>2

\* Where no path leads.
LEMMA UnmountedParts == Unmounted \in Seq(Name) /\ Len(Unmounted) = 1 /\ Unmounted[1] = "/"
<1>1. Unmounted \in Seq(Name) /\ Len(Unmounted) = 1
  BY DEF Unmounted, Name
<1>2. Unmounted[1] = "/"
  BY DEF Unmounted
<1> QED
  BY <1>1, <1>2

\* A path of the container, seen from the host.
LEMMA AtParts ==
  ASSUME NEW p \in Seq(Name)
  PROVE  /\ At(p) \in Seq(Name) /\ Len(At(p)) = Len(p) + 1
         /\ At(p)[1] = "rootfs"
         /\ \A k \in 1 .. Len(p) : At(p)[k + 1] = p[k]
         /\ RootDir \in Seq(Name) /\ Len(RootDir) = 1 /\ RootDir[1] = "rootfs"
         /\ IsPrefix(RootDir, At(p))
<1>1. RootDir \in Seq(Name) /\ Len(RootDir) = 1 /\ RootDir[1] = "rootfs"
  BY RootParts
<1>2. PICK r \in Seq(Name) : r = RootDir
  BY <1>1
<1>3. /\ r \o p \in Seq(Name) /\ Len(r \o p) = Len(r) + Len(p)
      /\ \A k \in 1 .. Len(r) + Len(p) :
           (r \o p)[k] = IF k <= Len(r) THEN r[k] ELSE p[k - Len(r)]
  BY ConcatProperties
<1>4. PICK a \in Seq(Name) : a = At(p) /\ a = r \o p
  BY <1>2, <1>3 DEF At
<1>5. Len(a) = Len(p) + 1 /\ a[1] = "rootfs" /\ \A k \in 1 .. Len(p) : a[k + 1] = p[k]
  <2>1. Len(a) = Len(p) + 1 /\ Len(p) \in Nat
    <3>1. Len(r) = 1
      BY <1>1, <1>2
    <3> QED
      BY <1>3, <1>4, <3>1
  <2>2. \A k \in 1 .. Len(p) + 1 : a[k] = IF k <= 1 THEN r[k] ELSE p[k - 1]
    <3>1. Len(r) = 1
      BY <1>1, <1>2
    <3>2. \A k \in 1 .. 1 + Len(p) : a[k] = IF k <= 1 THEN r[k] ELSE p[k - 1]
      BY <1>3, <1>4, <3>1
    <3> QED
      BY <2>1, <3>2
  <2>3. a[1] = "rootfs"
    BY <1>1, <1>2, <2>1, <2>2
  <2>4. ASSUME NEW k \in 1 .. Len(p)
        PROVE  a[k + 1] = p[k]
    <3>1. k + 1 \in 1 .. Len(p) + 1 /\ ~(k + 1 <= 1) /\ (k + 1) - 1 = k
      BY <2>1
    <3> QED
      BY <2>2, <3>1
  <2> QED
    BY <2>1, <2>3, <2>4
<1>6. IsPrefix(r, a)
  BY <1>1, <1>2, <1>5, PrefixParts
<1> QED
  BY <1>1, <1>2, <1>4, <1>5, <1>6

\* A path without its first part.
LEMMA RestParts ==
  ASSUME NEW p \in Seq(Name), Len(p) > 0
  PROVE  /\ SubSeq(p, 2, Len(p)) \in Seq(Name)
         /\ Len(SubSeq(p, 2, Len(p))) = Len(p) - 1
         /\ \A k \in 1 .. Len(p) - 1 : SubSeq(p, 2, Len(p))[k] = p[k + 1]
<1>1. PICK m \in Nat : m = Len(p) /\ m > 0
  OBVIOUS
<1>2. \A k \in 2 .. m : p[k] \in Name
  BY <1>1
<1>3. /\ SubSeq(p, 2, m) \in Seq(Name)
      /\ Len(SubSeq(p, 2, m)) = IF 2 <= m THEN m - 2 + 1 ELSE 0
      /\ \A k \in 1 .. m - 2 + 1 : SubSeq(p, 2, m)[k] = p[2 + k - 1]
  BY <1>2, SubSeqProperties
<1> QED
  BY <1>1, <1>3

\* What is below the mount is called the same from either side.
LEMMA NameShifts ==
  ASSUME NEW a \in Seq(Name), NEW b \in Seq(Name), NEW sub \in Seq(Name),
         NEW p \in Seq(Name), NEW q \in Seq(Name),
         Len(b) = Len(a) + 1, Len(q) = Len(p) + 1, Len(a) <= Len(p),
         \A k \in 1 .. Len(p) : q[k + 1] = p[k]
  PROVE  NameIn(b, sub, q) = NameIn(a, sub, p)
<1> DEFINE x == NameIn(b, sub, q)
           y == NameIn(a, sub, p)
<1>1. /\ Len(a) \in Nat /\ Len(b) \in Nat /\ Len(p) \in Nat /\ Len(q) \in Nat /\ Len(sub) \in Nat
      /\ Len(p) >= Len(a)
  OBVIOUS
<1>2. Len(q) >= Len(b)
  BY <1>1
<1>3. IsName(x, b, sub, q) /\ IsName(y, a, sub, p)
  BY <1>1, <1>2, NameWhole
<1> HIDE DEF x, y
<1>4. /\ Len(x) = Len(sub) + Len(q) - Len(b)
      /\ \A k \in 1 .. Len(sub) : x[k] = sub[k]
      /\ \A k \in Len(b) + 1 .. Len(q) : x[k + Len(sub) - Len(b)] = q[k]
      /\ x \in Seq(Name)
  BY <1>3 DEF IsName
<1>5. /\ Len(y) = Len(sub) + Len(p) - Len(a)
      /\ \A k \in 1 .. Len(sub) : y[k] = sub[k]
      /\ \A k \in Len(a) + 1 .. Len(p) : y[k + Len(sub) - Len(a)] = p[k]
      /\ y \in Seq(Name)
  BY <1>3 DEF IsName
<1>6. Len(x) = Len(y)
  BY <1>1, <1>4, <1>5
<1>7. ASSUME NEW k \in 1 .. Len(y)
      PROVE  x[k] = y[k]
  <2>1. CASE k <= Len(sub)
    BY <1>4, <1>5, <2>1
  <2>2. CASE k > Len(sub)
    <3>1. PICK l \in Len(a) + 1 .. Len(p) : l = k - Len(sub) + Len(a)
      <4>1. k - Len(sub) + Len(a) \in Len(a) + 1 .. Len(p)
        BY <1>1, <1>5, <2>2
      <4> QED
        BY <4>1
    <3>2. y[k] = p[l]
      <4>1. l + Len(sub) - Len(a) = k
        BY <1>1, <3>1
      <4> QED
        BY <1>5, <3>1, <4>1
    <3>3. x[k] = q[l + 1]
      <4>1. (l + 1) + Len(sub) - Len(b) = k /\ l + 1 \in Len(b) + 1 .. Len(q)
        BY <1>1, <3>1
      <4> QED
        BY <1>4, <4>1
    <3>4. l \in 1 .. Len(p)
      BY <1>1, <3>1
    <3> QED
      BY <3>2, <3>3, <3>4
  <2> QED
    BY <1>1, <2>1, <2>2
<1>8. x = y
  <2>1. x \in Seq(Name) /\ y \in Seq(Name)
    BY <1>4, <1>5
  <2> QED
    BY <1>6, <1>7, <2>1, SeqEqual
<1> QED
  BY <1>8 DEF x, y

\* A name by way of a directory on the path.
LEMMA NameThrough ==
  ASSUME NEW at \in Seq(Name), NEW sub \in Seq(Name), NEW p \in Seq(Name), IsPrefix(at, RootDir)
  PROVE  NameIn(<<>>, NameIn(at, sub, RootDir), p) = NameIn(at, sub, At(p))
<1>1. PICK r \in Seq(Name), q \in Seq(Name) : r = RootDir /\ q = At(p)
  BY AtParts
<1>2. PICK none \in Seq(Name) : none = <<>> /\ Len(none) = 0
  <2>1. <<>> \in Seq(Name) /\ Len(<<>>) = 0
    OBVIOUS
  <2> QED
    BY <2>1
<1>3. /\ Len(r) = 1 /\ Len(q) = Len(p) + 1 /\ r[1] = "rootfs" /\ q[1] = "rootfs"
      /\ \A k \in 1 .. Len(p) : q[k + 1] = p[k]
  BY <1>1, AtParts
<1>4. Len(at) \in Nat /\ Len(p) \in Nat /\ Len(sub) \in Nat /\ Len(at) <= Len(r)
  BY <1>1, PrefixParts
<1> DEFINE dir == NameIn(at, sub, r)
<1>5. /\ dir \in Seq(Name) /\ Len(dir) = Len(sub) + 1 - Len(at)
      /\ \A k \in 1 .. Len(sub) : dir[k] = sub[k]
      /\ \A k \in Len(at) + 1 .. 1 : dir[k + Len(sub) - Len(at)] = r[k]
  <2>1. Len(r) >= Len(at)
    BY <1>4
  <2>2. IsName(dir, at, sub, r)
    BY <2>1, NameWhole
  <2> HIDE DEF dir
  <2> QED
    BY <1>3, <2>2 DEF IsName
<1> HIDE DEF dir
<1> DEFINE x == NameIn(none, dir, p)
           y == NameIn(at, sub, q)
<1>6. /\ x \in Seq(Name) /\ Len(x) = Len(dir) + Len(p) - 0
      /\ \A k \in 1 .. Len(dir) : x[k] = dir[k]
      /\ \A k \in 1 .. Len(p) : x[k + Len(dir) - 0] = p[k]
  <2>1. Len(p) >= Len(none)
    BY <1>2, <1>4
  <2>2. IsName(x, none, dir, p)
    BY <1>5, <2>1, NameWhole
  <2> HIDE DEF x
  <2> QED
    BY <1>2, <2>2 DEF IsName
<1>7. /\ y \in Seq(Name) /\ Len(y) = Len(sub) + Len(q) - Len(at)
      /\ \A k \in 1 .. Len(sub) : y[k] = sub[k]
      /\ \A k \in Len(at) + 1 .. Len(q) : y[k + Len(sub) - Len(at)] = q[k]
  <2>1. Len(q) >= Len(at)
    BY <1>3, <1>4
  <2>2. IsName(y, at, sub, q)
    BY <2>1, NameWhole
  <2> HIDE DEF y
  <2> QED
    BY <2>2 DEF IsName
<1> HIDE DEF x, y
<1>8. Len(x) = Len(y) /\ Len(x) = Len(sub) + 1 - Len(at) + Len(p)
  BY <1>3, <1>4, <1>5, <1>6, <1>7
<1>9. ASSUME NEW k \in 1 .. Len(x)
      PROVE  x[k] = y[k]
  <2>1. CASE k <= Len(sub)
    <3>1. k \in 1 .. Len(dir)
      BY <1>4, <1>5, <2>1, <1>3
    <3> QED
      BY <1>5, <1>6, <1>7, <2>1, <3>1
  <2>2. CASE k > Len(sub) /\ k <= Len(dir)
    <3>1. Len(at) = 0 /\ k = 1 + Len(sub) /\ k \in 1 .. Len(dir)
      BY <1>3, <1>4, <1>5, <2>2
    <3>2. 1 \in Len(at) + 1 .. 1 /\ 1 \in Len(at) + 1 .. Len(q) /\ 1 + Len(sub) - Len(at) = k
      BY <1>3, <1>4, <3>1
    <3>3. dir[k] = r[1]
      <4>1. \A j \in Len(at) + 1 .. 1 : dir[j + Len(sub) - Len(at)] = r[j]
        BY <1>5
      <4>2. dir[1 + Len(sub) - Len(at)] = r[1]
        BY <3>2, <4>1
      <4> QED
        BY <3>2, <4>2
    <3>4. y[k] = q[1]
      BY <1>7, <3>2
    <3> QED
      BY <1>3, <1>6, <3>1, <3>3, <3>4
  <2>3. CASE k > Len(dir)
    <3>1. PICK l \in 1 .. Len(p) : l = k - Len(dir)
      <4>1. k - Len(dir) \in 1 .. Len(p)
        BY <1>4, <1>5, <1>6, <2>3
      <4> QED
        BY <4>1
    <3>2. x[k] = p[l]
      <4>1. l + Len(dir) - 0 = k
        BY <1>4, <1>5, <3>1
      <4> QED
        BY <1>6, <3>1, <4>1
    <3>3. y[k] = q[l + 1]
      <4>1. (l + 1) + Len(sub) - Len(at) = k /\ l + 1 \in Len(at) + 1 .. Len(q)
        BY <1>3, <1>4, <1>5, <3>1
      <4> QED
        BY <1>7, <4>1
    <3> QED
      BY <1>3, <3>1, <3>2, <3>3
  <2> QED
    BY <1>4, <1>5, <1>3, <2>1, <2>2, <2>3
<1>10. x = y
  BY <1>6, <1>7, <1>8, <1>9
<1> QED
  BY <1>1, <1>2, <1>10 DEF x, y, dir

\* Where a mount below the rootfs is seen from there.
LEMMA PivotPlaces ==
  ASSUME TableTypeOK, Rooted, mounts' = BelowRoot, NEW i \in 1 .. Len(mounts)
  PROVE  /\ mounts'[i].by = mounts[i].by /\ mounts'[i].fs = mounts[i].fs
         /\ IsStrictPrefix(RootDir, mounts[i].at) =>
              /\ mounts'[i].at \in Seq(Name)
              /\ Len(mounts[i].at) = Len(mounts'[i].at) + 1 /\ mounts[i].at[1] = "rootfs"
              /\ \A k \in 1 .. Len(mounts'[i].at) : mounts[i].at[k + 1] = mounts'[i].at[k]
              /\ mounts'[i].sub = mounts[i].sub
         /\ ~IsStrictPrefix(RootDir, mounts[i].at) =>
              IF i = Top(RootDir)
                THEN mounts'[i].at = <<>> /\ mounts'[i].sub = Inner(i, RootDir)
                ELSE mounts'[i].at = Unmounted
<1>1. mounts[i] \in MountRecord /\ mounts[i].at \in Seq(Name)
  BY MountType DEF TableTypeOK
<1>2. mounts'[i] = IF IsStrictPrefix(RootDir, mounts[i].at)
                     THEN [mounts[i] EXCEPT !.at = SubSeq(@, Len(RootDir) + 1, Len(@))]
                   ELSE IF i = Top(RootDir)
                     THEN [mounts[i] EXCEPT !.at = <<>>, !.sub = Inner(i, RootDir)]
                   ELSE [mounts[i] EXCEPT !.at = Unmounted]
  BY DEF BelowRoot
<1>3. mounts'[i].by = mounts[i].by /\ mounts'[i].fs = mounts[i].fs
  BY <1>1, <1>2 DEF MountRecord
<1>4. CASE IsStrictPrefix(RootDir, mounts[i].at)
  <2>1. PICK a \in Seq(Name) : a = mounts[i].at
    BY <1>1
  <2>2. Len(RootDir) = 1 /\ RootDir[1] = "rootfs" /\ RootDir \in Seq(Name)
    BY RootParts
  <2>3. PICK b : b = SubSeq(a, 2, Len(a))
    OBVIOUS
  <2>4. mounts'[i].at = b /\ mounts'[i].sub = mounts[i].sub
    BY <1>1, <1>2, <1>4, <2>1, <2>2, <2>3 DEF MountRecord
  <2>5. Len(a) > 0 /\ a[1] = "rootfs"
    <3>1. IsPrefix(RootDir, a)
      BY <1>4, <2>1 DEF IsStrictPrefix
    <3>2. Len(RootDir) <= Len(a) /\ \A k \in 1 .. Len(RootDir) : RootDir[k] = a[k]
      BY <2>2, <3>1, PrefixParts
    <3>3. 1 \in 1 .. Len(RootDir)
      BY <2>2
    <3> QED
      BY <2>2, <3>2, <3>3
  <2>6. /\ b \in Seq(Name) /\ Len(b) = Len(a) - 1
        /\ \A k \in 1 .. Len(a) - 1 : b[k] = a[k + 1]
    BY <2>3, <2>5, RestParts
  <2>7. Len(a) = Len(b) + 1 /\ \A k \in 1 .. Len(b) : a[k + 1] = b[k]
    BY <2>6
  <2> QED
    BY <1>3, <1>4, <2>1, <2>4, <2>5, <2>6, <2>7
<1>5. CASE ~IsStrictPrefix(RootDir, mounts[i].at)
  BY <1>1, <1>2, <1>3, <1>5 DEF MountRecord
<1> QED
  BY <1>4, <1>5

\* From the new root every path leads where it led below the rootfs.
LEMMA PivotLookup ==
  ASSUME TableTypeOK, Rooted, mounts' = BelowRoot, UNCHANGED fss,
         NEW p \in Seq(Name), Len(p) > 0, p[1] # "/"
  PROVE  \E t \in 1 .. Len(mounts) :
           /\ t = Top(At(p)) /\ Top(p)' = t /\ mounts'[t].by = mounts[t].by
           /\ mounts[t].at = At(p) => mounts'[t].at = p
           /\ TypeAt(p)' = TypeAt(At(p))
           /\ Exists(p)' <=> Exists(At(p))
<1>1. PICK q \in Seq(Name) :
        /\ q = At(p) /\ Len(q) = Len(p) + 1 /\ q[1] = "rootfs"
        /\ \A k \in 1 .. Len(p) : q[k + 1] = p[k]
        /\ IsPrefix(RootDir, q)
  BY AtParts
<1>2. PICK t \in 1 .. Len(mounts) :
        t = Top(q) /\ IsPrefix(mounts[t].at, q) /\ \A i \in Covering(q) : i <= t
  BY TopCovers
<1>3. /\ Len(mounts) \in Nat /\ Len(p) \in Nat /\ RootDir \in Seq(Name)
      /\ \A i \in 1 .. Len(mounts) :
           mounts[i].at \in Seq(Name) /\ mounts[i].sub \in Seq(Name) /\ mounts[i] \in MountRecord
  BY MountType, RootParts DEF TableTypeOK
<1>4. PICK r \in 1 .. Len(mounts) :
        r = Top(RootDir) /\ IsPrefix(mounts[r].at, RootDir) /\ \A i \in Covering(RootDir) : i <= r
  BY <1>3, TopCovers
<1>5. /\ TableTypeOK' /\ Len(mounts') = Len(mounts)
  BY BelowRootType
<1>6. ASSUME NEW i \in 1 .. Len(mounts), IsStrictPrefix(RootDir, mounts[i].at)
      PROVE  IsPrefix(mounts'[i].at, p) <=> IsPrefix(mounts[i].at, q)
  <2>1. PICK a \in Seq(Name), b \in Seq(Name) :
          /\ a = mounts[i].at /\ b = mounts'[i].at
          /\ Len(a) = Len(b) + 1 /\ a[1] = "rootfs"
          /\ \A k \in 1 .. Len(b) : a[k + 1] = b[k]
    BY SMTT(30), <1>3, <1>6, PivotPlaces
  <2>2. Len(a) <= Len(q) <=> Len(b) <= Len(p)
    BY <1>1, <2>1
  <2>3. ASSUME Len(b) <= Len(p), \A k \in 1 .. Len(b) : b[k] = p[k]
        PROVE  \A k \in 1 .. Len(a) : a[k] = q[k]
    <3>1. ASSUME NEW k \in 1 .. Len(a) PROVE a[k] = q[k]
      <4>1. CASE k = 1
        BY <1>1, <2>1, <4>1
      <4>2. CASE k # 1
        <5>1. PICK l \in 1 .. Len(b) : k = l + 1
          <6>1. k - 1 \in 1 .. Len(b) /\ k = (k - 1) + 1
            BY <2>1, <4>2
          <6> QED
            BY <6>1
        <5>2. l \in 1 .. Len(p)
          BY <1>3, <2>3
        <5>3. a[l + 1] = b[l] /\ q[l + 1] = p[l]
          BY <1>1, <2>1, <5>2
        <5> QED
          BY <2>3, <5>1, <5>3
      <4> QED
        BY <4>1, <4>2
    <3> QED
      BY <3>1
  <2>4. ASSUME Len(b) <= Len(p), \A k \in 1 .. Len(a) : a[k] = q[k]
        PROVE  \A k \in 1 .. Len(b) : b[k] = p[k]
    <3>1. ASSUME NEW k \in 1 .. Len(b) PROVE b[k] = p[k]
      <4>1. k \in 1 .. Len(p) /\ k + 1 \in 1 .. Len(a)
        BY SMTT(30), <1>3, <2>1, <2>4
      <4>2. a[k + 1] = b[k] /\ q[k + 1] = p[k] /\ a[k + 1] = q[k + 1]
        BY <1>1, <2>1, <2>4, <4>1
      <4> QED
        BY <4>2
    <3> QED
      BY <3>1
  <2>5. IsPrefix(b, p) <=> Len(b) <= Len(p) /\ \A k \in 1 .. Len(b) : b[k] = p[k]
    BY PrefixParts
  <2>6. IsPrefix(a, q) <=> Len(a) <= Len(q) /\ \A k \in 1 .. Len(a) : a[k] = q[k]
    BY PrefixParts
  <2>7. IsPrefix(b, p) <=> IsPrefix(a, q)
    BY <2>2, <2>3, <2>4, <2>5, <2>6
  <2> QED
    BY <2>1, <2>7
<1>7. IsPrefix(mounts[r].at, q) /\ r <= t
  <2>1. IsPrefix(mounts[r].at, q)
    BY <1>1, <1>3, <1>4, PrefixOrder
  <2>2. r \in Covering(q)
    BY <2>1 DEF Covering
  <2> QED
    BY <1>2, <2>1, <2>2
<1>8. ~IsStrictPrefix(RootDir, mounts[t].at) => t = r
  <2> SUFFICES ASSUME ~IsStrictPrefix(RootDir, mounts[t].at) PROVE t = r
    OBVIOUS
  <2>1. IsPrefix(mounts[t].at, RootDir)
    BY <1>1, <1>2, <1>3, PrefixesCompare, PrefixOrder DEF IsStrictPrefix
  <2>2. t \in Covering(RootDir)
    BY <2>1 DEF Covering
  <2> QED
    BY <1>4, <1>7, <2>2
<1>9. Covering(p)' = {i \in 1 .. Len(mounts) : IsPrefix(mounts'[i].at, p)}
  BY <1>5 DEF Covering
<1>10. t \in Covering(p)'
  <2>1. CASE IsStrictPrefix(RootDir, mounts[t].at)
    BY <1>2, <1>6, <1>9, <2>1
  <2>2. CASE ~IsStrictPrefix(RootDir, mounts[t].at)
    <3>1. mounts'[t].at = <<>>
      BY <1>4, <1>8, <2>2, PivotPlaces
    <3>2. IsPrefix(<<>>, p)
      BY PrefixOrder
    <3> QED
      BY <1>9, <3>1, <3>2
  <2> QED
    BY <2>1, <2>2
<1>11. ASSUME NEW i \in Covering(p)'
       PROVE  i <= t
  <2>1. i \in 1 .. Len(mounts) /\ IsPrefix(mounts'[i].at, p)
    BY <1>9, <1>11
  <2>2. CASE IsStrictPrefix(RootDir, mounts[i].at)
    <3>1. i \in Covering(q)
      BY <1>6, <2>1, <2>2 DEF Covering
    <3> QED
      BY <1>2, <3>1
  <2>3. CASE ~IsStrictPrefix(RootDir, mounts[i].at) /\ i # r
    <3>1. mounts'[i].at = Unmounted
      BY <1>4, <2>1, <2>3, PivotPlaces
    <3>2. PICK u \in Seq(Name) : u = Unmounted /\ Len(u) = 1 /\ u[1] = "/"
      BY UnmountedParts
    <3>3. ~IsPrefix(u, p)
      <4>1. IsPrefix(u, p) => \A k \in 1 .. Len(u) : u[k] = p[k]
        BY PrefixParts
      <4>2. 1 \in 1 .. Len(u)
        BY <3>2
      <4> QED
        BY <3>2, <4>1, <4>2
    <3> QED
      BY <2>1, <3>1, <3>2, <3>3
  <2> QED
    BY <1>7, <2>2, <2>3
<1>12. Top(p)' = t
  <2>1. Covering(p)' \subseteq 1 .. Len(mounts) /\ Covering(p)' # {}
    BY <1>9, <1>10
  <2>2. PICK T : T = Covering(p)'
    OBVIOUS
  <2>3. Max(T) \in T /\ \A y \in T : y <= Max(T)
    BY <1>3, <2>1, <2>2, MaxOfPositions
  <2>4. Max(T) = t
    <3>1. Max(T) <= t /\ t <= Max(T)
      BY <1>10, <1>11, <2>2, <2>3
    <3>2. Max(T) \in Nat /\ t \in Nat
      BY <1>3, <2>1, <2>2, <2>3
    <3> QED
      BY <3>1, <3>2
  <2> QED
    BY <2>2, <2>4 DEF Top
<1>13. Inner(t, p)' = Inner(t, q)
  <2>1. PICK a \in Seq(Name), sub \in Seq(Name) : a = mounts[t].at /\ sub = mounts[t].sub
    BY <1>3
  <2>2. Inner(t, q) = NameIn(a, sub, q)
    BY <2>1 DEF Inner, NameIn
  <2>3. CASE IsStrictPrefix(RootDir, mounts[t].at)
    <3>1. PICK b \in Seq(Name) :
            b = mounts'[t].at /\ Len(a) = Len(b) + 1 /\ mounts'[t].sub = sub
      BY <2>1, <2>3, PivotPlaces
    <3>2. Inner(t, p)' = NameIn(b, sub, p)
      BY <3>1 DEF Inner, NameIn
    <3>3. Len(b) <= Len(p)
      BY <1>1, <1>2, <2>1, <3>1, PrefixParts
    <3>4. NameIn(a, sub, q) = NameIn(b, sub, p)
      BY SMTT(30), <1>1, <3>1, <3>3, NameShifts
    <3> QED
      BY <2>2, <3>2, <3>4
  <2>4. CASE ~IsStrictPrefix(RootDir, mounts[t].at)
    <3>1. t = r /\ mounts'[t].at = <<>> /\ mounts'[t].sub = Inner(t, RootDir)
      BY <1>4, <1>8, <2>4, PivotPlaces
    <3>2. Inner(t, RootDir) = NameIn(a, sub, RootDir)
      BY <2>1 DEF Inner, NameIn
    <3>3. Inner(t, p)' = NameIn(<<>>, NameIn(a, sub, RootDir), p)
      <4>1. Inner(t, p)' = mounts'[t].sub \o SubSeq(p, Len(mounts'[t].at) + 1, Len(p))
        BY DEF Inner
      <4>2. PICK x : x = NameIn(a, sub, RootDir)
        OBVIOUS
      <4> QED
        BY <3>1, <3>2, <4>1, <4>2 DEF NameIn
    <3>4. NameIn(<<>>, NameIn(a, sub, RootDir), p) = NameIn(a, sub, At(p))
      BY <1>4, <2>1, <3>1, NameThrough
    <3> QED
      BY <1>1, <2>2, <3>3, <3>4
  <2> QED
    BY <2>3, <2>4
<1>14. mounts'[t].by = mounts[t].by /\ mounts'[t].fs = mounts[t].fs
  BY PivotPlaces
<1>15. mounts[t].at = q => mounts'[t].at = p
  <2> SUFFICES ASSUME mounts[t].at = q PROVE mounts'[t].at = p
    OBVIOUS
  <2>1. IsStrictPrefix(RootDir, q)
    <3>1. Len(q) # 1
      BY <1>1, <1>3
    <3>2. RootDir # q
      BY <3>1, RootParts
    <3> QED
      BY <1>1, <3>2 DEF IsStrictPrefix
  <2>2. PICK b \in Seq(Name) :
          b = mounts'[t].at /\ Len(q) = Len(b) + 1 /\ \A k \in 1 .. Len(b) : q[k + 1] = b[k]
    BY <2>1, PivotPlaces
  <2>3. Len(b) = Len(p)
    BY <1>1, <2>2
  <2>4. \A k \in 1 .. Len(b) : b[k] = p[k]
    BY <1>1, <2>2, <2>3
  <2>5. b = p
    BY <2>3, <2>4, SeqEqual
  <2> QED
    BY <2>2, <2>5
<1>16. TypeAt(p)' = TypeAt(q)
  BY <1>2, <1>12, <1>14 DEF TypeAt
<1>17. Exists(p)' <=> Exists(q)
  <2>1. Exists(q) <=> \E x \in {Inner(t, q)} :
                        x \in DOMAIN fss[mounts[t].fs].files
                        /\ fss[mounts[t].fs].files[x] \in FileKind
    BY <1>2 DEF Exists, Is
  <2>2. Exists(p)' <=> \E x \in {Inner(t, p)'} :
                         x \in DOMAIN fss'[mounts'[t].fs].files
                         /\ fss'[mounts'[t].fs].files[x] \in FileKind
    BY <1>12 DEF Exists, Is, Inner
  <2> QED
    BY <1>13, <1>14, <2>1, <2>2
<1> QED
  BY <1>1, <1>2, <1>12, <1>14, <1>15, <1>16, <1>17

-----------------------------------------------------------------------------
(* The places of the default file systems and devices.                     *)

\* One part tells two paths apart.
LEMMA PathsDiffer ==
  \A p, q \in Seq(Name) : \A k \in 1 .. Len(p) :
    (k \in 1 .. Len(q) => p[k] # q[k]) => ~IsPrefix(p, q)
<1> SUFFICES ASSUME NEW p \in Seq(Name), NEW q \in Seq(Name), NEW k \in 1 .. Len(p),
                    k \in 1 .. Len(q) => p[k] # q[k], IsPrefix(p, q)
             PROVE  FALSE
  OBVIOUS
<1>1. Len(p) <= Len(q) /\ p[k] = q[k]
  BY PrefixParts
<1>2. k \in 1 .. Len(q)
  BY <1>1
<1> QED
  BY <1>1, <1>2

\* The places of the default file systems: below the rootfs, and as mkdir takes
\* them.
LEMMA FixedParts ==
  /\ \A p \in {ProcDir, SysDir, DevDir, PtsDir, ShmDir} :
       p \in Seq(Name) /\ Len(p) >= 2 /\ p[1] = "rootfs"
  /\ Len(ProcDir) = 2 /\ ProcDir[2] = "proc"
  /\ Len(SysDir) = 2 /\ SysDir[2] = "sys"
  /\ Len(DevDir) = 2 /\ DevDir[2] = "dev"
  /\ PtsDir[2] = "dev" /\ ShmDir[2] = "dev"
  /\ \A p \in {<<"proc">>, <<"sys">>, <<"dev">>, <<"dev", "pts">>, <<"dev", "shm">>} :
       p \in Seq(Name) /\ Len(p) >= 1 /\ p[1] # "rootfs" /\ p[1] # "/"
<1>1. /\ "proc" \in Name /\ "sys" \in Name /\ "dev" \in Name /\ "pts" \in Name
      /\ "shm" \in Name
  BY DEF Name
<1>2. \A x, y \in Name : <<x>> \in Seq(Name) /\ <<x, y>> \in Seq(Name)
  OBVIOUS
<1>3. \A x \in Name : Len(At(<<x>>)) = 2 /\ At(<<x>>)[1] = "rootfs" /\ At(<<x>>)[2] = x
  <2> SUFFICES ASSUME NEW x \in Name
               PROVE  Len(At(<<x>>)) = 2 /\ At(<<x>>)[1] = "rootfs" /\ At(<<x>>)[2] = x
    OBVIOUS
  <2>1. PICK p \in Seq(Name) : p = <<x>>
    BY <1>2
  <2>2. Len(p) = 1 /\ p[1] = x
    BY <2>1
  <2>3. Len(At(p)) = Len(p) + 1 /\ At(p)[1] = "rootfs" /\ \A k \in 1 .. Len(p) : At(p)[k + 1] = p[k]
    BY AtParts
  <2>4. At(p)[1 + 1] = p[1] /\ 1 + 1 = 2
    BY <2>2, <2>3
  <2> QED
    BY <2>1, <2>2, <2>3, <2>4
<1>4. \A x, y \in Name :
        Len(At(<<x, y>>)) = 3 /\ At(<<x, y>>)[1] = "rootfs" /\ At(<<x, y>>)[2] = x
        /\ At(<<x, y>>)[3] = y
  <2> SUFFICES ASSUME NEW x \in Name, NEW y \in Name
               PROVE  Len(At(<<x, y>>)) = 3 /\ At(<<x, y>>)[1] = "rootfs"
                      /\ At(<<x, y>>)[2] = x /\ At(<<x, y>>)[3] = y
    OBVIOUS
  <2>1. PICK p \in Seq(Name) : p = <<x, y>>
    BY <1>2
  <2>2. Len(p) = 2 /\ p[1] = x /\ p[2] = y
    BY <2>1
  <2>3. Len(At(p)) = Len(p) + 1 /\ At(p)[1] = "rootfs" /\ \A k \in 1 .. Len(p) : At(p)[k + 1] = p[k]
    BY AtParts
  <2>4. At(p)[1 + 1] = p[1] /\ 1 + 1 = 2 /\ At(p)[2 + 1] = p[2] /\ 2 + 1 = 3
    BY <2>2, <2>3
  <2> QED
    BY <2>1, <2>2, <2>3, <2>4
<1>5. \A p \in {ProcDir, SysDir, DevDir, PtsDir, ShmDir} :
       p \in Seq(Name) /\ Len(p) >= 2 /\ p[1] = "rootfs"
  BY <1>1, <1>3, <1>4, FixedPaths DEF ProcDir, SysDir, DevDir, PtsDir, ShmDir
<1>6. /\ Len(ProcDir) = 2 /\ ProcDir[2] = "proc"
      /\ Len(SysDir) = 2 /\ SysDir[2] = "sys"
      /\ Len(DevDir) = 2 /\ DevDir[2] = "dev"
      /\ PtsDir[2] = "dev" /\ ShmDir[2] = "dev"
  BY <1>1, <1>3, <1>4 DEF ProcDir, SysDir, DevDir, PtsDir, ShmDir
<1>7. \A p \in {<<"proc">>, <<"sys">>, <<"dev">>, <<"dev", "pts">>, <<"dev", "shm">>} :
       p \in Seq(Name) /\ Len(p) >= 1 /\ p[1] # "rootfs" /\ p[1] # "/"
  <2>1. \A x \in Name : <<x>> \in Seq(Name) /\ Len(<<x>>) >= 1 /\ <<x>>[1] = x
    OBVIOUS
  <2>2. \A x, y \in Name : <<x, y>> \in Seq(Name) /\ Len(<<x, y>>) >= 1 /\ <<x, y>>[1] = x
    OBVIOUS
  <2>3. /\ "proc" # "rootfs" /\ "sys" # "rootfs" /\ "dev" # "rootfs"
        /\ "proc" # "/" /\ "sys" # "/" /\ "dev" # "/"
    OBVIOUS
  <2>4. \A p \in {<<"proc">>, <<"sys">>, <<"dev">>} :
          p \in Seq(Name) /\ Len(p) >= 1 /\ p[1] # "rootfs" /\ p[1] # "/"
    BY <1>1, <2>1, <2>3
  <2>5. \A p \in {<<"dev", "pts">>, <<"dev", "shm">>} :
          p \in Seq(Name) /\ Len(p) >= 1 /\ p[1] # "rootfs" /\ p[1] # "/"
    BY ZenonT(30), <1>1, <2>2, <2>3
  <2> QED
    BY <2>4, <2>5
<1> QED
  BY <1>5, <1>6, <1>7

\* The places of a default device.
LEMMA DeviceParts ==
  ASSUME NEW d \in 1 .. Len(Devices)
  PROVE  /\ DeviceAt(d) \in Seq(Name) /\ Len(DeviceAt(d)) = 3
         /\ DeviceAt(d)[1] = "rootfs" /\ DeviceAt(d)[2] = "dev" /\ DeviceAt(d)[3] = Devices[d]
         /\ <<"dev", Devices[d]>> \in Seq(Name) /\ Len(<<"dev", Devices[d]>>) = 2
         /\ <<"dev", Devices[d]>>[1] = "dev"
<1>1. PICK p : p = <<"dev", Devices[d]>>
  OBVIOUS
<1>2. "dev" \in Name /\ Devices[d] \in Name
  <2>1. "dev" \in Name
    BY DEF Name
  <2>2. Devices[d] \in Name
    BY DevicesAssumption
  <2> QED
    BY <2>1, <2>2
<1>3. p \in Seq(Name) /\ Len(p) = 2 /\ p[1] = "dev" /\ p[2] = Devices[d]
  BY <1>1, <1>2
<1>4. /\ At(p) \in Seq(Name) /\ Len(At(p)) = Len(p) + 1
      /\ At(p)[1] = "rootfs" /\ \A k \in 1 .. Len(p) : At(p)[k + 1] = p[k]
  BY <1>3, AtParts
<1>5. At(p)[1 + 1] = p[1] /\ At(p)[2 + 1] = p[2] /\ 1 + 1 = 2 /\ 2 + 1 = 3
  BY <1>3, <1>4
<1> QED
  BY <1>1, <1>3, <1>4, <1>5 DEF DeviceAt

\* What mounts at the other places do not hide.
LEMMA FixedBeside ==
  /\ \A p \in {SysDir, <<"sys">>, DevDir, <<"dev">>, <<"dev", "pts">>, <<"dev", "shm">>} :
       ~IsPrefix(p, ProcDir)
  /\ \A p \in {<<"sys">>, DevDir, <<"dev">>, <<"dev", "pts">>, <<"dev", "shm">>} :
       ~IsPrefix(p, SysDir)
  /\ \A x \in Seq(Name) : IsStrictPrefix(DevDir, x) =>
       \A p \in {ProcDir, SysDir, <<"proc">>, <<"sys">>, <<"dev">>, <<"dev", "pts">>,
                 <<"dev", "shm">>} :
         ~IsPrefix(p, x)
<1>1. \A q \in Seq(Name) : Len(q) >= 1 /\ q[1] = "rootfs" =>
        \A p \in {<<"proc">>, <<"sys">>, <<"dev">>, <<"dev", "pts">>, <<"dev", "shm">>} :
          ~IsPrefix(p, q)
  <2> DEFINE Relative == {<<"proc">>, <<"sys">>, <<"dev">>, <<"dev", "pts">>, <<"dev", "shm">>}
  <2>1. \A p \in Relative : p \in Seq(Name) /\ Len(p) >= 1 /\ p[1] # "rootfs"
    BY FixedParts
  <2> HIDE DEF Relative
  <2>2. ASSUME NEW q \in Seq(Name), Len(q) >= 1, q[1] = "rootfs", NEW p \in Relative
        PROVE  ~IsPrefix(p, q)
    <3>1. p \in Seq(Name) /\ 1 \in 1 .. Len(p) /\ p[1] # q[1]
      BY <2>1, <2>2
    <3> QED
      BY <2>2, <3>1, PathsDiffer
  <2> USE DEF Relative
  <2> QED
    BY <2>2
<1>2. \A p \in {<<"proc">>, <<"sys">>, <<"dev">>, <<"dev", "pts">>, <<"dev", "shm">>} :
        ~IsPrefix(p, ProcDir) /\ ~IsPrefix(p, SysDir)
  <2>1. \A q \in {ProcDir, SysDir} : q \in Seq(Name) /\ Len(q) >= 1 /\ q[1] = "rootfs"
    BY FixedParts
  <2> QED
    BY <1>1, <2>1
<1>3. ~IsPrefix(SysDir, ProcDir) /\ ~IsPrefix(DevDir, ProcDir) /\ ~IsPrefix(DevDir, SysDir)
  <2>1. /\ ProcDir \in Seq(Name) /\ SysDir \in Seq(Name) /\ DevDir \in Seq(Name)
        /\ 2 \in 1 .. Len(SysDir) /\ 2 \in 1 .. Len(DevDir)
        /\ SysDir[2] # ProcDir[2] /\ DevDir[2] # ProcDir[2] /\ DevDir[2] # SysDir[2]
    BY FixedParts
  <2> QED
    BY <2>1, PathsDiffer
<1>4. ASSUME NEW x \in Seq(Name), IsStrictPrefix(DevDir, x)
      PROVE  /\ Len(x) >= 2 /\ x[1] = "rootfs" /\ x[2] = "dev"
  <2>1. PICK d \in Seq(Name) : d = DevDir /\ Len(d) = 2 /\ d[1] = "rootfs" /\ d[2] = "dev"
    BY FixedParts
  <2>2. Len(d) <= Len(x) /\ \A k \in 1 .. Len(d) : d[k] = x[k]
    BY <1>4, <2>1, PrefixParts DEF IsStrictPrefix
  <2> QED
    BY <2>1, <2>2
<1>5. ASSUME NEW x \in Seq(Name), IsStrictPrefix(DevDir, x)
      PROVE  ~IsPrefix(ProcDir, x) /\ ~IsPrefix(SysDir, x)
  <2>1. /\ ProcDir \in Seq(Name) /\ SysDir \in Seq(Name)
        /\ 2 \in 1 .. Len(SysDir) /\ 2 \in 1 .. Len(ProcDir)
        /\ SysDir[2] # x[2] /\ ProcDir[2] # x[2]
    BY <1>4, <1>5, FixedParts
  <2> QED
    BY <2>1, PathsDiffer
<1>6. \A x \in Seq(Name) : IsStrictPrefix(DevDir, x) =>
        \A p \in {<<"proc">>, <<"sys">>, <<"dev">>, <<"dev", "pts">>, <<"dev", "shm">>} :
          ~IsPrefix(p, x)
  <2>1. \A x \in Seq(Name) : IsStrictPrefix(DevDir, x) => Len(x) >= 1 /\ x[1] = "rootfs"
    BY <1>4
  <2> QED
    BY <1>1, <2>1
<1> QED
  BY <1>2, <1>3, <1>5, <1>6

\* What a default device does not hide.
LEMMA DeviceBeside ==
  ASSUME NEW d \in 1 .. Len(Devices)
  PROVE  /\ \A p \in {DeviceAt(d), <<"dev", Devices[d]>>} :
              /\ ~IsPrefix(p, ProcDir) /\ ~IsPrefix(p, SysDir)
              /\ \A e \in 1 .. Len(Devices) : e # d => ~IsPrefix(p, DeviceAt(e))
         /\ ~IsPrefix(<<"dev", Devices[d]>>, DeviceAt(d))
         /\ ~IsPrefix(DeviceAt(d), <<"dev", Devices[d]>>)
<1>1. PICK a \in Seq(Name), r \in Seq(Name) :
        /\ a = DeviceAt(d) /\ r = <<"dev", Devices[d]>>
        /\ Len(a) = 3 /\ a[1] = "rootfs" /\ a[2] = "dev" /\ a[3] = Devices[d]
        /\ Len(r) = 2 /\ r[1] = "dev"
  BY DeviceParts
<1>2. 1 \in 1 .. Len(a) /\ 2 \in 1 .. Len(a) /\ 3 \in 1 .. Len(a) /\ 1 \in 1 .. Len(r)
  BY <1>1
<1>3. ASSUME NEW e \in 1 .. Len(Devices)
      PROVE  ~IsPrefix(r, DeviceAt(e)) /\ (e # d => ~IsPrefix(a, DeviceAt(e)))
  <2>1. PICK b \in Seq(Name) :
          b = DeviceAt(e) /\ Len(b) = 3 /\ b[1] = "rootfs" /\ b[3] = Devices[e]
    BY DeviceParts
  <2>2. r[1] # b[1] /\ (e # d => a[3] # b[3])
    BY <1>1, <2>1, DevicesAssumption
  <2> QED
    BY <1>1, <1>2, <2>1, <2>2, PathsDiffer
<1>4. ~IsPrefix(a, r)
  BY <1>1, <1>2, PathsDiffer
<1>5. /\ ~IsPrefix(a, ProcDir) /\ ~IsPrefix(a, SysDir)
      /\ ~IsPrefix(r, ProcDir) /\ ~IsPrefix(r, SysDir)
  BY <1>1, <1>2, FixedParts, PathsDiffer
<1> QED
  BY <1>1, <1>3, <1>4, <1>5

\* Where the job at work is to mount, and where its destination would be made.
LEMMA JobPlaces ==
  ASSUME OwnerInv, step # "idle"
  PROVE  /\ stage = "proc" => Wanted = {ProcDir} /\ Made = {<<"proc">>}
         /\ stage = "sys" => Wanted = {SysDir} /\ Made = {<<"sys">>}
         /\ stage = "dev" => Wanted = {DevDir} /\ Made = {<<"dev">>}
         /\ stage = "pts" => Wanted = {PtsDir} /\ Made = {<<"dev", "pts">>}
         /\ stage = "shm" => Wanted = {ShmDir} /\ Made = {<<"dev", "shm">>}
         /\ stage = "devices" =>
              Wanted = {DeviceAt(n)} /\ Made = {<<"dev", Devices[n]>>}
<1>1. \A x : Names(<<"/", x>>) = <<x>> /\ Absolute(<<"/", x>>)
  BY DEF Names, Absolute
<1>2. \A x, y : Names(<<"/", x, y>>) = <<x, y>> /\ Absolute(<<"/", x, y>>)
  BY DEF Names, Absolute
<1>3. \A d : job.destination = {d} => Wanted = {InRoot(d)} /\ Made = {MkdirTarget(d)}
  BY DEF Wanted, Made
<1>4. \A d : Absolute(d) => InRoot(d) = At(Names(d)) /\ MkdirTarget(d) = Names(d)
  BY DEF InRoot, At, MkdirTarget
<1>5. /\ stage = "proc" => job.destination = {<<"/", "proc">>}
      /\ stage = "sys"  => job.destination = {<<"/", "sys">>}
      /\ stage = "dev"  => job.destination = {<<"/", "dev">>}
      /\ stage = "pts"  => job.destination = {<<"/", "dev", "pts">>}
      /\ stage = "shm"  => job.destination = {<<"/", "dev", "shm">>}
      /\ stage = "devices" => job.destination = {<<"/", "dev", Devices[n]>>}
  BY DEF OwnerInv
<1>6. \A x : job.destination = {<<"/", x>>} => Wanted = {At(<<x>>)} /\ Made = {<<x>>}
  BY <1>1, <1>3, <1>4
<1>7. \A x, y : job.destination = {<<"/", x, y>>} => Wanted = {At(<<x, y>>)} /\ Made = {<<x, y>>}
  <2> SUFFICES ASSUME NEW x, NEW y, NEW d, d = <<"/", x, y>>, job.destination = {d}
               PROVE  Wanted = {At(<<x, y>>)} /\ Made = {<<x, y>>}
    OBVIOUS
  <2>1. Names(d) = <<x, y>> /\ Absolute(d)
    BY <1>2
  <2> QED
    BY <1>3, <1>4, <2>1
<1>8. /\ stage = "proc" => Wanted = {ProcDir} /\ Made = {<<"proc">>}
      /\ stage = "sys" => Wanted = {SysDir} /\ Made = {<<"sys">>}
      /\ stage = "dev" => Wanted = {DevDir} /\ Made = {<<"dev">>}
  BY <1>5, <1>6, Zenon DEF ProcDir, SysDir, DevDir
<1>9. /\ stage = "pts" => Wanted = {PtsDir} /\ Made = {<<"dev", "pts">>}
      /\ stage = "shm" => Wanted = {ShmDir} /\ Made = {<<"dev", "shm">>}
  BY <1>5, <1>7, Zenon DEF PtsDir, ShmDir
<1>10. stage = "devices" => Wanted = {DeviceAt(n)} /\ Made = {<<"dev", Devices[n]>>}
  BY <1>5, <1>7, Zenon DEF DeviceAt
<1> QED
  BY <1>8, <1>9, <1>10

-----------------------------------------------------------------------------
(* What a step does to what the invariants say of the table.               *)

\* No mount of the configuration below /dev is hidden by one of the defaults.
Visible ==
  \A i, j \in 1 .. Len(mounts) :
    /\ i < j
    /\ mounts[i].by.kind = "entry" /\ IsStrictPrefix(DevDir, mounts[i].at)
    /\ mounts[j].by.kind = "default" /\ IsPrefix(mounts[j].at, mounts[i].at)
    => \E k \in i + 1 .. j - 1 : IsPrefix(mounts[k].at, mounts[i].at)

\* There is something at a mount point.
LEMMA MountPointMeans ==
  TableTypeOK /\ Rooted /\ RootsThere =>
    \A p \in Seq(Name) : mounts[Top(p)].at = p => Exists(p)
BY MountPointExists

\* The same after a step.
LEMMA MountPointThen ==
  ASSUME TableTypeOK', Rooted', RootsThere'
  PROVE  \A p \in Seq(Name) : mounts'[Top(p)'].at = p => Exists(p)'
<1>1. (TableTypeOK /\ Rooted /\ RootsThere =>
         \A p \in Seq(Name) : mounts[Top(p)].at = p => Exists(p))'
  BY MountPointMeans, PTL
<1> QED
  BY <1>1

\* Nothing happens to the table.
LEMMA TableSame ==
  ASSUME UNCHANGED tvars
  PROVE  /\ \A p : /\ Top(p)' = Top(p) /\ TypeAt(p)' = TypeAt(p)
                   /\ Exists(p)' <=> Exists(p)
                   /\ Found(p)' <=> Found(p)
                   /\ DirectoryIsEmpty(p)' <=> DirectoryIsEmpty(p)
         /\ PointsThere' <=> PointsThere
         /\ NoneByDefault' <=> NoneByDefault
         /\ Visible' <=> Visible
         /\ ProcThere' <=> ProcThere
         /\ SysThere' <=> SysThere
         /\ \A d : DeviceBound(d)' <=> DeviceBound(d)
<1>1. \A p : Top(p)' = Top(p) /\ TypeAt(p)' = TypeAt(p)
  BY DEF tvars, TypeAt, Top, Covering
<1>2. \A p, kinds : Is(p, kinds)' <=> Is(p, kinds)
  BY <1>1 DEF tvars, Is, Inner
<1>3. \A p : Exists(p)' <=> Exists(p)
  BY <1>2 DEF Exists
<1>4. \A p : Found(p)' <=> Found(p)
  BY <1>2, <1>3 DEF Found, Blocked
<1>5. \A p : DirectoryIsEmpty(p)' <=> DirectoryIsEmpty(p)
  BY <1>1 DEF tvars, DirectoryIsEmpty, FilesAt, Inner
<1>6. PointsThere' <=> PointsThere
  BY DEF tvars, PointsThere, Inner
<1>7. NoneByDefault' <=> NoneByDefault
  BY DEF tvars, NoneByDefault
<1>8. Visible' <=> Visible
  BY DEF tvars, Visible
<1>9. (ProcThere' <=> ProcThere) /\ (SysThere' <=> SysThere)
  BY <1>1 DEF tvars, ProcThere, SysThere
<1>10. \A d : DeviceBound(d)' <=> DeviceBound(d)
  BY <1>1, <1>3 DEF tvars, DeviceBound
<1> QED
  BY <1>1, <1>3, <1>4, <1>5, <1>6, <1>7, <1>8, <1>9, <1>10

\* Files are made, or a mount gets other attributes.
LEMMA TableStays ==
  ASSUME TableTypeOK, Rooted, TableTypeOK', SameMounts, FilesKept
  PROVE  /\ PointsThere => PointsThere'
         /\ NoneByDefault => NoneByDefault'
         /\ Visible => Visible'
         /\ ProcThere => ProcThere'
         /\ SysThere => SysThere'
         /\ \A p \in Seq(Name) : Exists(p) => Exists(p)'
         /\ FilesSame => \A p \in Seq(Name) : Exists(p)' => Exists(p)
         /\ \A d \in 1 .. Len(Devices) :
              DeviceBound(d) /\ (Exists(DeviceAt(d))' => Exists(DeviceAt(d))) => DeviceBound(d)'
<1>1. \A p \in Seq(Name) : SameAt(p) /\ Top(p) \in 1 .. Len(mounts)
  BY SameLookup, TopCovers
<1>2. PointsThere => PointsThere'
  BY PointsKept
<1>3. NoneByDefault => NoneByDefault'
  BY DEF NoneByDefault, SameMounts
<1>4. Visible => Visible'
  <2>1. Len(mounts) \in Nat
    BY MountType DEF TableTypeOK
  <2> SUFFICES ASSUME Visible, NEW i \in 1 .. Len(mounts), NEW j \in 1 .. Len(mounts), i < j,
                      mounts[i].by.kind = "entry", IsStrictPrefix(DevDir, mounts[i].at),
                      mounts[j].by.kind = "default", IsPrefix(mounts[j].at, mounts[i].at)
               PROVE  \E k \in i + 1 .. j - 1 : IsPrefix(mounts'[k].at, mounts'[i].at)
    BY DEF Visible, SameMounts
  <2>2. PICK k \in i + 1 .. j - 1 : IsPrefix(mounts[k].at, mounts[i].at)
    BY DEF Visible
  <2>3. k \in 1 .. Len(mounts)
    BY <2>1, <2>2
  <2> QED
    BY <2>2, <2>3 DEF SameMounts
<1>5. ProcThere => ProcThere'
  <2>1. ProcDir \in Seq(Name)
    BY FixedParts
  <2>2. SameAt(ProcDir)
    BY <1>1, <2>1
  <2> QED
    BY <2>2 DEF ProcThere, SameAt, SameMounts
<1>6. SysThere => SysThere'
  <2>1. SysDir \in Seq(Name)
    BY FixedParts
  <2>2. SameAt(SysDir)
    BY <1>1, <2>1
  <2> QED
    BY <2>2 DEF SysThere, SameAt
<1>7. \A p \in Seq(Name) : Exists(p) => Exists(p)'
  BY <1>1 DEF SameAt
<1>8. FilesSame => \A p \in Seq(Name) : Exists(p)' => Exists(p)
  BY SameLookup
<1>9. ASSUME NEW d \in 1 .. Len(Devices), DeviceBound(d),
             Exists(DeviceAt(d))' => Exists(DeviceAt(d))
      PROVE  DeviceBound(d)'
  <2>1. SameAt(DeviceAt(d))
    BY <1>1, DeviceParts
  <2> QED
    BY <1>9, <2>1 DEF DeviceBound, SameAt
<1> QED
  BY <1>2, <1>3, <1>4, <1>5, <1>6, <1>7, <1>8, <1>9

\* A mount is added.
LEMMA TableGrows ==
  ASSUME TableTypeOK, Rooted, TableTypeOK', RootsThere', FilesSame,
         NEW m \in MountRecord, mounts' = Append(mounts, m)
  PROVE  /\ PointsThere /\ Exists(m.at) => PointsThere'
         /\ NoneByDefault /\ m.by.kind # "default" => NoneByDefault'
         /\ /\ Visible
            /\ m.by.kind = "default" =>
                 \A i \in 1 .. Len(mounts) :
                   IsStrictPrefix(DevDir, mounts[i].at) /\ IsPrefix(m.at, mounts[i].at)
                   => \E k \in i + 1 .. Len(mounts) : IsPrefix(mounts[k].at, mounts[i].at)
            => Visible'
         /\ ProcThere /\ ~IsPrefix(m.at, ProcDir) => ProcThere'
         /\ SysThere /\ ~IsPrefix(m.at, SysDir) => SysThere'
         /\ \A d \in 1 .. Len(Devices) :
              DeviceBound(d) /\ ~IsPrefix(m.at, DeviceAt(d)) => DeviceBound(d)'
         /\ \A p \in Seq(Name) : ~IsPrefix(m.at, p) => (Exists(p)' <=> Exists(p))
         /\ Exists(m.at)' /\ mounts'[Top(m.at)'] = m /\ TypeAt(m.at)' = fss'[m.fs].type
<1>1. FilesKept
  BY DEF FilesSame, FilesKept
<1>2. /\ Rooted' /\ Len(mounts) \in Nat /\ Len(mounts') = Len(mounts) + 1
      /\ mounts'[Len(mounts) + 1] = m /\ m.at \in Seq(Name)
      /\ \A i \in 1 .. Len(mounts) : mounts'[i] = mounts[i]
  <2>1. <<>> \in Seq(Name) /\ m.at \in Seq(Name)
    BY DEF MountRecord
  <2> QED
    BY <2>1, TopAfterMount
<1>3. \A p \in Seq(Name) : ~IsPrefix(m.at, p) =>
        SameAt(p) /\ Top(p) \in 1 .. Len(mounts) /\ (Exists(p)' => Exists(p))
  BY <1>1, LookupBeside, TopCovers
<1>4. PointsThere /\ Exists(m.at) => PointsThere'
  BY <1>1, PointsAdded
<1>5. NoneByDefault /\ m.by.kind # "default" => NoneByDefault'
  BY <1>2 DEF NoneByDefault
<1>6. ASSUME Visible,
             m.by.kind = "default" =>
               \A i \in 1 .. Len(mounts) :
                 IsStrictPrefix(DevDir, mounts[i].at) /\ IsPrefix(m.at, mounts[i].at)
                 => \E k \in i + 1 .. Len(mounts) : IsPrefix(mounts[k].at, mounts[i].at)
      PROVE  Visible'
  <2> SUFFICES ASSUME NEW i \in 1 .. Len(mounts'), NEW j \in 1 .. Len(mounts'), i < j,
                      mounts'[i].by.kind = "entry", IsStrictPrefix(DevDir, mounts'[i].at),
                      mounts'[j].by.kind = "default", IsPrefix(mounts'[j].at, mounts'[i].at)
               PROVE  \E k \in i + 1 .. j - 1 : IsPrefix(mounts'[k].at, mounts'[i].at)
    BY DEF Visible
  <2>1. i \in 1 .. Len(mounts) /\ mounts'[i] = mounts[i]
    BY <1>2
  <2>2. \E k \in i + 1 .. j - 1 : IsPrefix(mounts[k].at, mounts[i].at)
    <3>1. CASE j \in 1 .. Len(mounts)
      BY <1>2, <1>6, <2>1, <3>1 DEF Visible
    <3>2. CASE j = Len(mounts) + 1
      <4>1. m.by.kind = "default" /\ IsPrefix(m.at, mounts[i].at) /\ j - 1 = Len(mounts)
        BY <1>2, <2>1, <3>2
      <4> QED
        BY <1>6, <2>1, <4>1
    <3> QED
      BY <1>2, <3>1, <3>2
  <2>3. \A k \in i + 1 .. j - 1 : mounts'[k] = mounts[k]
    BY <1>2
  <2> QED
    BY <2>1, <2>2, <2>3
<1>7. ASSUME ProcThere, ~IsPrefix(m.at, ProcDir)
      PROVE  ProcThere'
  <2>1. ProcDir \in Seq(Name)
    BY FixedParts
  <2>2. SameAt(ProcDir)
    BY <1>3, <1>7, <2>1
  <2>3. \A i \in 1 .. Len(mounts) : i \in 1 .. Len(mounts')
    BY <1>2
  <2> QED
    BY <1>2, <1>7, <2>2, <2>3 DEF ProcThere, SameAt
<1>8. ASSUME SysThere, ~IsPrefix(m.at, SysDir)
      PROVE  SysThere'
  <2>1. SysDir \in Seq(Name)
    BY FixedParts
  <2>2. SameAt(SysDir)
    BY <1>3, <1>8, <2>1
  <2> QED
    BY <1>8, <2>2 DEF SysThere, SameAt
<1>9. ASSUME NEW d \in 1 .. Len(Devices), DeviceBound(d), ~IsPrefix(m.at, DeviceAt(d))
      PROVE  DeviceBound(d)'
  <2>1. SameAt(DeviceAt(d)) /\ (Exists(DeviceAt(d))' => Exists(DeviceAt(d)))
    BY <1>3, <1>9, DeviceParts
  <2> QED
    BY <1>9, <2>1 DEF DeviceBound, SameAt
<1>10. \A p \in Seq(Name) : ~IsPrefix(m.at, p) => (Exists(p)' <=> Exists(p))
  BY <1>3 DEF SameAt
<1>11. Top(m.at)' = Len(mounts) + 1 /\ mounts'[Top(m.at)'] = m /\ TypeAt(m.at)' = fss'[m.fs].type
  BY LookupAtMount
<1>12. Exists(m.at)'
  BY <1>2, <1>11, MountPointThen
<1> QED
  BY <1>4, <1>5, <1>6, <1>7, <1>8, <1>9, <1>10, <1>11, <1>12

\* Opening the destination: it fails, it is found, or it has to be made; only
\* the path of the descriptor matters here.
LEMMA EnsurePlaces ==
  ASSUME MounterTypeOK, NEW next, EnsureDestination(next)
  PROVE  \E p \in Wanted, q \in Made :
           /\ p \in Seq(Name) /\ q \in Seq(Name)
           /\ \/ Fail /\ UNCHANGED tvars
              \/ Found(p) /\ dst'.path = p /\ Goto(next) /\ UNCHANGED tvars
              \/ /\ Missing(p) /\ dst'.path = q /\ Goto(next) /\ UNCHANGED mounts
                 /\ \E kind \in FileKind : Create(q, kind)
<1>1. PICK p \in Seq(Name), q \in Seq(Name), kind \in FileKind :
        /\ p \in Wanted /\ q \in Made
        /\ \/ Fail /\ UNCHANGED <<dst, tvars>>
           \/ Found(p) /\ dst' = Handle(p) /\ Goto(next) /\ UNCHANGED tvars
           \/ /\ Missing(p) /\ Create(q, kind) /\ UNCHANGED mounts
              /\ dst' = Created(q, kind) /\ Goto(next)
  BY EnsureCases
<1>2. Handle(p).path = p /\ Created(q, kind).path = q
  BY DEF Handle, Created
<1> QED
  BY <1>1, <1>2, Zenon

\* Nothing happens to the table.
LEMMA NothingMoves ==
  ASSUME UNCHANGED tvars
  PROVE  SameMounts /\ FilesKept /\ FilesSame
BY DEF tvars, SameMounts, FilesKept, FilesSame

\* When the clone gives up, what it has done so far is right.
LEMMA FailedDefaults ==
  ASSUME DefaultsInv, MountInv, MountInv', stage # "done", stage' = "failed",
         SameMounts, FilesKept
  PROVE  DefaultsInv'
<1>1. TableTypeOK /\ TableTypeOK' /\ Rooted
  BY DEF MountInv, SetupInv
<1>2. PointsThere /\ Visible
  BY DEF DefaultsInv, DoneInv, DevMountsStayVisible, Visible
<1>3. PointsThere' /\ Visible'
  BY <1>1, <1>2, TableStays
<1>4. DoneInv'
  BY <1>3 DEF DoneInv, DevMountsStayVisible, Visible, After
<1>5. OwnerInv' /\ ProcJob' /\ SysJob' /\ DevJob' /\ DeviceJob'
  BY DEF OwnerInv, ProcJob, SysJob, DevJob, DeviceJob, DefaultStages
<1>6. ProcAndSysMounted' /\ DevicePathsAreDevices'
  BY DEF ProcAndSysMounted, DevicePathsAreDevices
<1> QED
  BY <1>4, <1>5, <1>6 DEF DefaultsInv

\* The stage stays, and a job begins or goes on.
LEMMA StageStays ==
  ASSUME UNCHANGED <<stage, n, list>>,
         stage \in {"entries", "devices"} \cup DefaultStages,
         PointsThere', Visible',
         stage = "entries" => NoneByDefault',
         stage = "proc" /\ step' # "propagate" => NoneByDefault',
         stage \in {"sys", "dev", "pts", "shm", "devices"} => ProcThere',
         stage \in {"dev", "pts", "shm", "devices"} => SysThere',
         stage = "devices" => \A d \in 1 .. Len(Devices) : d < n => DeviceBound(d)',
         OwnerInv', ProcJob', SysJob', DevJob', DeviceJob'
  PROVE  DefaultsInv'
<1>1. stage' \notin {"parse", "pivot", "done"}
  BY DEF DefaultStages
<1>2. DoneInv'
  <2>1. DevMountsStayVisible'
    BY DEF DevMountsStayVisible, Visible
  <2>2. (\A d \in 1 .. Len(Devices) : d < n => DeviceBound(d))' <=>
          \A d \in 1 .. Len(Devices) : d < n => DeviceBound(d)'
    OBVIOUS
  <2> QED
    BY <1>1, <2>1, <2>2 DEF DoneInv, After
<1>3. ProcAndSysMounted' /\ DevicePathsAreDevices'
  BY <1>1 DEF ProcAndSysMounted, DevicePathsAreDevices
<1> QED
  BY <1>2, <1>3 DEF DefaultsInv

\* A job goes on.
LEMMA JobGoesOn ==
  ASSUME DefaultsInv, step # "idle", UNCHANGED <<stage, n, job, by, list>>,
         stage \in {"entries", "devices"} \cup DefaultStages,
         PointsThere', Visible',
         stage = "entries" => NoneByDefault',
         stage = "proc" /\ step' # "propagate" => NoneByDefault',
         stage \in {"sys", "dev", "pts", "shm", "devices"} => ProcThere',
         stage \in {"dev", "pts", "shm", "devices"} => SysThere',
         stage = "devices" => \A d \in 1 .. Len(Devices) : d < n => DeviceBound(d)',
         ProcJob', SysJob', DevJob', DeviceJob'
  PROVE  DefaultsInv'
<1>1. OwnerInv'
  BY DEF DefaultsInv, OwnerInv, IsBind
<1> QED
  BY <1>1, StageStays

\* One stage is over, or one entry or device, and nothing happens to the table.
LEMMA StageMoves ==
  ASSUME UNCHANGED tvars, step' = "idle", PointsThere, Visible,
         stage' \notin MounterEnds,
         stage' \in DefaultStages => n' = 1,
         stage' \in {"parse", "entries", "proc"} => NoneByDefault,
         stage' \in {"sys", "dev", "pts", "shm", "devices"}
           \/ (stage' = "pivot" /\ list' # <<>>) => ProcThere,
         stage' \in {"dev", "pts", "shm", "devices"}
           \/ (stage' = "pivot" /\ list' # <<>>) => SysThere,
         stage' = "devices" => \A d \in 1 .. Len(Devices) : d < n' => DeviceBound(d),
         stage' = "pivot" /\ list' # <<>> => \A d \in 1 .. Len(Devices) : DeviceBound(d)
  PROVE  DefaultsInv'
<1>1. stage' # "done"
  BY DEF MounterEnds
<1>2. OwnerInv' /\ ProcJob' /\ SysJob' /\ DevJob' /\ DeviceJob'
  BY DEF OwnerInv, ProcJob, SysJob, DevJob, DeviceJob
<1>3. DoneInv'
  <2>1. PointsThere' /\ DevMountsStayVisible'
    BY TableSame DEF DevMountsStayVisible, Visible
  <2>2. (ProcThere => ProcThere') /\ (SysThere => SysThere') /\ (NoneByDefault => NoneByDefault')
        /\ \A d : DeviceBound(d) => DeviceBound(d)'
    BY TableSame
  <2> QED
    BY <2>1, <2>2 DEF DoneInv, After
<1>4. ProcAndSysMounted' /\ DevicePathsAreDevices'
  BY <1>1 DEF ProcAndSysMounted, DevicePathsAreDevices
<1> QED
  BY <1>2, <1>3, <1>4 DEF DefaultsInv

\* What has been done before the job at work.
LEMMA DoneSoFar ==
  ASSUME DefaultsInv, stage \in {"entries", "devices"} \cup DefaultStages
  PROVE  /\ PointsThere /\ Visible
         /\ stage = "entries" \/ (stage = "proc" /\ step # "propagate") => NoneByDefault
         /\ stage \in {"sys", "dev", "pts", "shm", "devices"} => ProcThere
         /\ stage \in {"dev", "pts", "shm", "devices"} => SysThere
         /\ stage = "devices" => \A d \in 1 .. Len(Devices) : d < n => DeviceBound(d)
         /\ OwnerInv /\ ProcJob /\ SysJob /\ DevJob /\ DeviceJob
BY DEF DefaultsInv, DoneInv, After, DevMountsStayVisible, Visible, DefaultStages

\* A job goes on that leaves the mounts where they are, and the files too if it
\* is for a device.
LEMMA JobGoesOnQuietly ==
  ASSUME DefaultsInv, MountInv, MountInv', StageInv, stage # "failed", step # "idle",
         step = "propagate" => step' = "propagate",
         UNCHANGED <<stage, n, job, by, list>>, SameMounts, FilesKept,
         stage = "devices" => FilesSame,
         ProcJob', SysJob', DevJob', DeviceJob'
  PROVE  DefaultsInv'
<1>1. stage \in {"entries", "devices"} \cup DefaultStages /\ TableTypeOK /\ Rooted
  BY AtWork
<1>2. TableTypeOK'
  BY DEF MountInv
<1>3. /\ PointsThere /\ Visible
      /\ stage = "entries" \/ (stage = "proc" /\ step # "propagate") => NoneByDefault
      /\ stage \in {"sys", "dev", "pts", "shm", "devices"} => ProcThere
      /\ stage \in {"dev", "pts", "shm", "devices"} => SysThere
      /\ stage = "devices" => \A d \in 1 .. Len(Devices) : d < n => DeviceBound(d)
  BY <1>1, DoneSoFar
<1>4. /\ PointsThere' /\ Visible'
      /\ stage = "entries" \/ (stage = "proc" /\ step' # "propagate") => NoneByDefault'
      /\ stage \in {"sys", "dev", "pts", "shm", "devices"} => ProcThere'
      /\ stage \in {"dev", "pts", "shm", "devices"} => SysThere'
  BY <1>1, <1>2, <1>3, TableStays
<1>5. stage = "devices" => \A d \in 1 .. Len(Devices) : d < n => DeviceBound(d)'
  BY <1>1, <1>2, <1>3, TableStays, DeviceParts
<1> QED
  BY <1>1, <1>4, <1>5, JobGoesOn

\* A call that fails changes nothing.
LEMMA FailDefaults ==
  ASSUME DefaultsInv, MountInv, MountInv', stage # "done", Fail, UNCHANGED tvars
  PROVE  DefaultsInv'
BY NothingMoves, FailedDefaults DEF Fail

\* The source is opened.
LEMMA OpenSourceDefaults ==
  ASSUME DefaultsInv, MountInv, MountInv', StageInv, OpenSource
  PROVE  DefaultsInv'
<1>1. step = "source" /\ stage # "failed" /\ step # "idle" /\ IsBind /\ UNCHANGED tvars
  BY DEF OpenSource, StageInv
<1>2. stage \in {"entries", "devices"} \cup DefaultStages /\ stage # "done"
  BY <1>1, AtWork
<1>3. CASE Fail
  BY <1>1, <1>2, <1>3, FailDefaults
<1>4. CASE Goto("destination")
           /\ \E q \in job.source : Absolute(q) /\ Found(Names(q))
  <2>1. PICK q \in job.source : Absolute(q) /\ Found(Names(q))
    BY <1>4
  <2>2. ProcJob /\ SysJob /\ DevJob /\ OwnerInv
    BY DEF DefaultsInv
  <2>3. stage # "proc"
    <3>1. ~Absolute(<<"proc">>)
      BY DEF Absolute
    <3> QED
      BY <1>1, <2>1, <2>2, <3>1 DEF ProcJob
  <2>4. stage \notin {"dev", "pts", "shm"}
    BY <1>1, <2>2 DEF DevJob
  <2>5. UNCHANGED <<stage, n, job, by, list>> /\ step' = "destination"
    BY <1>4 DEF OpenSource, Goto, pvars
  <2>6. SysJob'
    BY <1>1, <2>2, <2>5, TableSame DEF SysJob, IsBind
  <2>7. DeviceJob'
    <3> SUFFICES ASSUME stage = "devices" PROVE Exists(<<"dev", Devices[n]>>)'
      BY <2>5 DEF DeviceJob
    <3>1. q = <<"/", "dev", Devices[n]>>
      BY <1>1, <2>1, <2>2 DEF OwnerInv
    <3>2. Names(q) = <<"dev", Devices[n]>>
      BY <3>1 DEF Names, Absolute
    <3> QED
      BY <1>1, <2>1, <2>5, <3>2, TableSame DEF Found
  <2>8. ProcJob' /\ DevJob'
    BY <2>3, <2>4, <2>5 DEF ProcJob, DevJob
  <2> QED
    BY <1>1, <2>5, <2>6, <2>7, <2>8, NothingMoves, JobGoesOnQuietly
<1> QED
  BY <1>3, <1>4 DEF OpenSource

\* The destination is opened, or made.
LEMMA OpenDestinationDefaults ==
  ASSUME DefaultsInv, MountInv, MountInv', StageInv, OpenDestination
  PROVE  DefaultsInv'
<1>1. /\ step = "destination" /\ stage # "failed" /\ step # "idle"
      /\ EnsureDestination("mount") /\ UNCHANGED <<job, by, list>>
  BY DEF OpenDestination, pvars
<1>2. /\ stage \in {"entries", "devices"} \cup DefaultStages /\ stage # "done"
      /\ TableTypeOK /\ Rooted /\ RootsThere /\ MounterTypeOK
  BY <1>1, AtWork
<1>3. PICK p \in Wanted, q \in Made :
        /\ p \in Seq(Name) /\ q \in Seq(Name)
        /\ \/ Fail /\ UNCHANGED tvars
           \/ Found(p) /\ dst'.path = p /\ Goto("mount") /\ UNCHANGED tvars
           \/ /\ Missing(p) /\ dst'.path = q /\ Goto("mount") /\ UNCHANGED mounts
              /\ \E kind \in FileKind : Create(q, kind)
  BY <1>1, <1>2, EnsurePlaces
<1>4. CASE Fail /\ UNCHANGED tvars
  BY <1>2, <1>4, FailDefaults
<1>5. /\ OwnerInv /\ ProcJob /\ SysJob /\ DevJob /\ DeviceJob /\ TableTypeOK'
  BY DEF DefaultsInv, MountInv
<1>6. /\ stage = "proc" => p = ProcDir /\ q = <<"proc">>
      /\ stage = "sys" => p = SysDir /\ q = <<"sys">>
      /\ stage = "dev" => p = DevDir
      /\ stage = "pts" => p = PtsDir /\ q = <<"dev", "pts">>
      /\ stage = "shm" => p = ShmDir /\ q = <<"dev", "shm">>
      /\ stage = "devices" => p = DeviceAt(n) /\ q = <<"dev", Devices[n]>>
  BY <1>1, <1>3, <1>5, JobPlaces
<1>7. CASE Found(p) /\ dst'.path = p /\ Goto("mount") /\ UNCHANGED tvars
  <2>1. UNCHANGED <<stage, n, job, by, list>> /\ step' = "mount" /\ Exists(p)
    BY <1>1, <1>7 DEF Goto, Found
  <2>2. ProcJob'
    BY <1>1, <1>5, <1>6, <1>7, <2>1 DEF ProcJob, IsBind
  <2>3. SysJob'
    BY <1>1, <1>5, <1>6, <1>7, <2>1 DEF SysJob, IsBind
  <2>4. DevJob'
    BY <1>1, <1>5, <1>6, <1>7, <2>1, TableSame DEF DevJob, IsBind
  <2>5. DeviceJob'
    BY <1>1, <1>5, <1>6, <1>7, <2>1, TableSame DEF DeviceJob
  <2> QED
    BY <1>1, <1>7, <2>1, <2>2, <2>3, <2>4, <2>5, NothingMoves, JobGoesOnQuietly
<1>8. CASE /\ Missing(p) /\ dst'.path = q /\ Goto("mount") /\ UNCHANGED mounts
           /\ \E kind \in FileKind : Create(q, kind)
  <2>1. UNCHANGED <<stage, n, job, by, list>> /\ step' = "mount" /\ ~Exists(p)
    BY <1>1, <1>8 DEF Goto, Missing
  <2>2. SameMounts /\ FilesKept
    BY <1>2, <1>3, <1>8, CreateKeeps
  <2>3. stage \notin {"proc", "dev"}
    BY <1>1, <1>5, <1>6, <2>1 DEF ProcJob, DevJob
  <2>4. ProcJob'
    BY <2>1, <2>3 DEF ProcJob
  <2>5. SysJob'
    <3>1. SysThere => SysThere'
      BY <1>2, <1>5, <2>2, TableStays
    <3> QED
      BY <1>1, <1>5, <1>6, <2>1, <3>1 DEF SysJob, IsBind
  <2>6. DevJob'
    BY <1>1, <1>5, <1>6, <1>8, <2>1, <2>3 DEF DevJob, IsBind
  <2>7. stage = "devices" => FilesSame
    BY <1>1, <1>2, <1>3, <1>5, <1>6, <1>8, CreateExisting DEF DeviceJob
  <2>8. DeviceJob'
    <3> SUFFICES ASSUME stage = "devices"
                 PROVE  /\ Exists(<<"dev", Devices[n]>>)'
                        /\ dst'.path = <<"dev", Devices[n]>> /\ ~Exists(DeviceAt(n))'
      BY <2>1 DEF DeviceJob
    <3>1. Exists(q) /\ Exists(q)' /\ ~Exists(p)'
      BY <1>1, <1>2, <1>3, <1>5, <1>6, <2>1, <2>2, <2>7, TableStays DEF DeviceJob
    <3> QED
      BY <1>6, <1>8, <2>1, <3>1
  <2> QED
    BY <1>1, <2>1, <2>2, <2>4, <2>5, <2>6, <2>7, <2>8, JobGoesOnQuietly
<1> QED
  BY <1>3, <1>4, <1>7, <1>8

\* The destination of a bind is opened again.
LEMMA ReopenDestinationDefaults ==
  ASSUME DefaultsInv, MountInv, MountInv', StageInv, ReopenDestination
  PROVE  DefaultsInv'
<1>1. /\ step = "reopen" /\ stage # "failed" /\ step # "idle" /\ IsBind
      /\ EnsureDestination("remount") /\ UNCHANGED <<job, by, list>>
  BY DEF ReopenDestination, pvars, StageInv
<1>2. /\ stage \in {"entries", "devices"} \cup DefaultStages /\ stage # "done"
      /\ TableTypeOK /\ Rooted /\ RootsThere /\ MounterTypeOK
  BY <1>1, AtWork
<1>3. PICK p \in Wanted, q \in Made :
        /\ p \in Seq(Name) /\ q \in Seq(Name)
        /\ \/ Fail /\ UNCHANGED tvars
           \/ Found(p) /\ dst'.path = p /\ Goto("remount") /\ UNCHANGED tvars
           \/ /\ Missing(p) /\ dst'.path = q /\ Goto("remount") /\ UNCHANGED mounts
              /\ \E kind \in FileKind : Create(q, kind)
  BY <1>1, <1>2, EnsurePlaces
<1>4. CASE Fail /\ UNCHANGED tvars
  BY <1>2, <1>4, FailDefaults
<1>5. CASE /\ Goto("remount") /\ SameMounts /\ FilesKept
           /\ stage = "devices" => FilesSame
  <2>1. UNCHANGED <<stage, n, job, by, list>> /\ step' = "remount"
    BY <1>1, <1>5 DEF Goto
  <2>2. /\ OwnerInv /\ ProcJob /\ SysJob /\ DevJob /\ DeviceJob /\ TableTypeOK'
    BY DEF DefaultsInv, MountInv
  <2>3. stage \notin {"proc", "dev", "pts", "shm"}
    BY <1>1, <2>2 DEF ProcJob, DevJob
  <2>4. ProcJob' /\ DevJob'
    BY <2>1, <2>3 DEF ProcJob, DevJob
  <2>5. SysJob'
    <3>1. SysThere => SysThere'
      BY <1>2, <1>5, <2>2, TableStays
    <3> QED
      BY <1>1, <2>1, <2>2, <3>1 DEF SysJob, IsBind
  <2>6. DeviceJob'
    <3> SUFFICES ASSUME stage = "devices" PROVE DeviceBound(n)'
      BY <2>1 DEF DeviceJob
    <3>1. n \in 1 .. Len(Devices) /\ DeviceBound(n)
      BY <1>1, <2>2 DEF OwnerInv, DeviceJob
    <3>2. DeviceAt(n) \in Seq(Name)
      BY <3>1, DeviceParts
    <3>3. PICK d \in 1 .. Len(Devices) : d = n
      BY <3>1
    <3>4. DeviceBound(d)'
      BY <1>2, <1>5, <2>2, <3>1, <3>2, <3>3, TableStays
    <3> QED
      BY <2>1, <3>3, <3>4
  <2> QED
    BY <1>1, <1>5, <2>1, <2>4, <2>5, <2>6, JobGoesOnQuietly
<1>6. CASE Found(p) /\ dst'.path = p /\ Goto("remount") /\ UNCHANGED tvars
  BY <1>5, <1>6, NothingMoves
<1>7. CASE /\ Missing(p) /\ dst'.path = q /\ Goto("remount") /\ UNCHANGED mounts
           /\ \E kind \in FileKind : Create(q, kind)
  <2>1. SameMounts /\ FilesKept
    BY <1>2, <1>3, <1>7, CreateKeeps
  <2>2. stage = "devices" => FilesSame
    <3> SUFFICES ASSUME stage = "devices" PROVE FilesSame
      OBVIOUS
    <3>1. OwnerInv /\ DeviceJob
      BY DEF DefaultsInv
    <3>2. q = <<"dev", Devices[n]>> /\ Exists(<<"dev", Devices[n]>>)
      BY <1>1, <1>3, <3>1, JobPlaces DEF DeviceJob
    <3> QED
      BY <1>2, <1>3, <1>7, <3>2, CreateExisting
  <2> QED
    BY <1>5, <1>7, <2>1, <2>2
<1> QED
  BY <1>3, <1>4, <1>6, <1>7

\* The file systems when one is added, or none.
LEMMA MountKeepsFiles ==
  ASSUME TableTypeOK
  PROVE  /\ UNCHANGED fss => FilesSame
         /\ (\A f \in 1 .. Len(fss) : fss'[f] = fss[f]) => FilesSame
BY DEF FilesSame

\* A mount with its place found is where the job is to mount, and there is
\* something.
LEMMA PlaceExists ==
  ASSUME MountInv, StageInv, stage # "failed", step = "mount"
  PROVE  Exists(dst.path) /\ dst.path \in Wanted \cup Made /\ dst.path \in Seq(Name)
<1>1. /\ TableTypeOK /\ Rooted /\ MounterTypeOK /\ JobInv
  BY AtWork
<1>2. /\ Stands(dst) /\ dst.mount = Top(dst.path) /\ IsDestination(dst.path)
      /\ dst.path \in Seq(Name)
  BY <1>1 DEF JobInv, DestinationInv, MounterTypeOK, HandleType
<1>3. Inner(Top(dst.path), dst.path) \in DOMAIN fss[mounts[Top(dst.path)].fs].files
  BY <1>2 DEF Stands
<1> QED
  BY <1>1, <1>2, <1>3, ExistsMeans DEF IsDestination

\* Where a job for a default file system mounts hides nothing of the
\* configuration below /dev.
LEMMA PlaceHidesNothing ==
  ASSUME DefaultsInv, MountInv, StageInv, stage \in DefaultStages, step = "mount",
         NEW i \in 1 .. Len(mounts), IsStrictPrefix(DevDir, mounts[i].at),
         IsPrefix(dst.path, mounts[i].at)
  PROVE  \E k \in i + 1 .. Len(mounts) : IsPrefix(mounts[k].at, mounts[i].at)
<1>1. /\ stage # "failed" /\ stage # "done" /\ step # "idle"
      /\ TableTypeOK /\ Rooted /\ Len(mounts) \in Nat
  BY AtWork DEF DefaultStages
<1>2. OwnerInv /\ ProcJob /\ SysJob /\ DevJob /\ PointsThere
  BY <1>1 DEF DefaultsInv, DoneInv
<1>3. PICK x \in Seq(Name) : x = mounts[i].at
  BY <1>1, MountType DEF TableTypeOK
<1>4. /\ stage = "proc" => dst.path = ProcDir
      /\ stage = "sys" => dst.path \in {SysDir, <<"sys">>}
      /\ stage = "dev" => dst.path \in {DevDir, <<"dev">>}
      /\ stage = "pts" => dst.path = <<"dev", "pts">>
      /\ stage = "shm" => dst.path = <<"dev", "shm">>
  BY <1>1, <1>2, JobPlaces, PlaceExists DEF ProcJob, DevJob
<1>5. dst.path = DevDir /\ stage = "dev"
  BY <1>3, <1>4, FixedBeside DEF DefaultStages
<1>6. DirectoryIsEmpty(DevDir) /\ DevDir \in Seq(Name)
  BY <1>2, <1>5, FixedParts DEF DevJob
<1>7. PICK k \in 1 .. Len(mounts) : k = Top(DevDir) /\ IsPrefix(mounts[k].at, DevDir)
  BY <1>1, <1>6, TopCovers
<1>8. i < k
  BY <1>1, <1>2, <1>6, <1>7, MountsBelow
<1>9. IsPrefix(mounts[k].at, x)
  <2>1. mounts[k].at \in Seq(Name)
    BY <1>1, MountType DEF TableTypeOK
  <2> QED
    BY <1>3, <1>5, <1>6, <1>7, <2>1, PrefixOrder
<1> QED
  BY <1>1, <1>3, <1>7, <1>8, <1>9

\* A job mounts.
LEMMA JobMounts ==
  ASSUME DefaultsInv, MountInv, MountInv', StageInv, stage # "failed", step = "mount",
         NEW next \in {"reopen", "propagate"}, Goto(next), UNCHANGED <<job, by, list>>,
         next = "reopen" => IsBind, NEW m \in MountRecord, mounts' = Append(mounts, m),
         m.at = dst.path, m.by = by, FilesSame, stage = "proc" => fss'[m.fs].type = "proc"
  PROVE  DefaultsInv'
<1>1. /\ stage \in {"entries", "devices"} \cup DefaultStages /\ stage # "done" /\ step # "idle"
      /\ TableTypeOK /\ Rooted /\ Len(mounts) \in Nat
  BY AtWork
<1>2. stage' = stage /\ n' = n /\ step' = next
  BY DEF Goto
<1>3. TableTypeOK' /\ RootsThere'
  BY <1>1, <1>2 DEF MountInv, SetupInv
<1>4. /\ PointsThere /\ Visible
      /\ stage = "entries" \/ stage = "proc" => NoneByDefault
      /\ stage \in {"sys", "dev", "pts", "shm", "devices"} => ProcThere
      /\ stage \in {"dev", "pts", "shm", "devices"} => SysThere
      /\ stage = "devices" => \A d \in 1 .. Len(Devices) : d < n => DeviceBound(d)
      /\ OwnerInv /\ ProcJob /\ SysJob /\ DevJob /\ DeviceJob
  BY <1>1, DoneSoFar
<1>5. /\ stage = "entries" => m.by.kind = "entry"
      /\ stage \in DefaultStages => m.by.kind = "default"
      /\ stage = "devices" => m.by.kind = "device" /\ n \in 1 .. Len(Devices)
  BY <1>1, <1>4 DEF OwnerInv
<1>6. /\ stage = "proc" => m.at = ProcDir
      /\ stage = "sys" => m.at \in {SysDir, <<"sys">>} /\ (SysThere \/ m.at = SysDir)
      /\ stage = "dev" => m.at \in {DevDir, <<"dev">>}
      /\ stage = "pts" => m.at = <<"dev", "pts">>
      /\ stage = "shm" => m.at = <<"dev", "shm">>
      /\ stage = "devices" => m.at \in {DeviceAt(n), <<"dev", Devices[n]>>}
  BY <1>1, <1>4, JobPlaces, PlaceExists DEF ProcJob, SysJob, DevJob
<1>7. PointsThere'
  BY <1>1, <1>3, <1>4, TableGrows, PlaceExists
<1>8. Visible'
  <2>1. m.by.kind = "default" => stage \in DefaultStages
    BY <1>1, <1>5
  <2>2. m.by.kind = "default" =>
          \A i \in 1 .. Len(mounts) :
            IsStrictPrefix(DevDir, mounts[i].at) /\ IsPrefix(m.at, mounts[i].at)
            => \E k \in i + 1 .. Len(mounts) : IsPrefix(mounts[k].at, mounts[i].at)
    BY <2>1, PlaceHidesNothing
  <2> QED
    BY <1>1, <1>3, <1>4, <2>2, TableGrows
<1>9. stage = "entries" => NoneByDefault'
  BY <1>1, <1>3, <1>4, <1>5, TableGrows
<1>10. stage = "proc" => ProcThere' /\ step' = "propagate"
  <2> SUFFICES ASSUME stage = "proc" PROVE ProcThere' /\ step' = "propagate"
    OBVIOUS
  <2>1. TypeAt(m.at)' = fss'[m.fs].type
    BY <1>1, <1>3, TableGrows
  <2>2. TypeAt(ProcDir)' = "proc"
    BY <1>6, <2>1
  <2> QED
    BY <1>1, <1>2, <1>4, <2>2 DEF ProcThere, ProcJob
<1>11. stage \in {"sys", "dev", "pts", "shm", "devices"} => ProcThere'
  <2> SUFFICES ASSUME stage \in {"sys", "dev", "pts", "shm", "devices"} PROVE ProcThere'
    OBVIOUS
  <2>1. ~IsPrefix(m.at, ProcDir)
    BY <1>5, <1>6, FixedBeside, DeviceBeside
  <2> QED
    BY <1>1, <1>3, <1>4, <2>1, TableGrows
<1>12. stage \in {"dev", "pts", "shm", "devices"} => SysThere'
  <2> SUFFICES ASSUME stage \in {"dev", "pts", "shm", "devices"} PROVE SysThere'
    OBVIOUS
  <2>1. ~IsPrefix(m.at, SysDir)
    BY <1>5, <1>6, FixedBeside, DeviceBeside
  <2> QED
    BY <1>1, <1>3, <1>4, <2>1, TableGrows
<1>13. stage = "sys" => SysThere'
  <2> SUFFICES ASSUME stage = "sys" PROVE SysThere'
    OBVIOUS
  <2>1. CASE m.at = SysDir
    <3>1. mounts'[Top(m.at)'] = m
      BY <1>1, <1>3, TableGrows
    <3>2. mounts'[Top(SysDir)'] = m
      BY <2>1, <3>1
    <3> QED
      BY <1>5, <2>1, <3>2 DEF SysThere, DefaultStages
  <2>2. CASE m.at # SysDir
    <3>1. SysThere /\ ~IsPrefix(m.at, SysDir)
      BY <1>6, <2>2, FixedBeside
    <3> QED
      BY <1>1, <1>3, <3>1, TableGrows
  <2> QED
    BY <2>1, <2>2
<1>14. stage = "devices" => \A d \in 1 .. Len(Devices) : d < n => DeviceBound(d)'
  <2> SUFFICES ASSUME stage = "devices", NEW d \in 1 .. Len(Devices), d < n
               PROVE  DeviceBound(d)'
    OBVIOUS
  <2>1. n \in 1 .. Len(Devices) /\ d # n
    BY <1>5
  <2>2. ~IsPrefix(m.at, DeviceAt(d))
    BY <1>6, <2>1, DeviceBeside
  <2> QED
    BY <1>1, <1>3, <1>4, <2>2, TableGrows
<1>15. stage = "devices" => DeviceBound(n)' /\ Exists(<<"dev", Devices[n]>>)'
  <2> SUFFICES ASSUME stage = "devices"
               PROVE  DeviceBound(n)' /\ Exists(<<"dev", Devices[n]>>)'
    OBVIOUS
  <2>1. PICK d \in 1 .. Len(Devices), p \in Seq(Name), q \in Seq(Name) :
          d = n /\ p = DeviceAt(d) /\ q = <<"dev", Devices[d]>>
    BY <1>5, DeviceParts
  <2>2. ~IsPrefix(p, q) /\ ~IsPrefix(q, p)
    BY <2>1, DeviceBeside
  <2>3. /\ Exists(m.at)' /\ mounts'[Top(m.at)'] = m
        /\ \A r \in Seq(Name) : ~IsPrefix(m.at, r) => (Exists(r)' <=> Exists(r))
    BY <1>1, <1>3, TableGrows
  <2>4. Exists(q) /\ (m.at = p \/ (m.at = q /\ ~Exists(p)))
    BY <1>4, <2>1 DEF DeviceJob
  <2>5. CASE m.at = p
    <3>1. mounts'[Top(p)'] = m /\ Exists(q)'
      BY <2>2, <2>3, <2>4, <2>5
    <3> QED
      BY <1>2, <1>5, <2>1, <2>5, <3>1 DEF DeviceBound
  <2>6. CASE m.at = q /\ ~Exists(p)
    <3>1. Exists(q)' /\ ~Exists(p)'
      BY <2>2, <2>3, <2>6
    <3> QED
      BY <1>2, <2>1, <3>1 DEF DeviceBound
  <2> QED
    BY <2>4, <2>5, <2>6
<1>16. ProcJob'
  BY <1>1, <1>2, <1>4, <1>10 DEF ProcJob, IsBind
<1>17. SysJob'
  BY <1>1, <1>2, <1>4, <1>13 DEF SysJob, IsBind
<1>18. DevJob'
  BY <1>1, <1>2, <1>4 DEF DevJob, IsBind
<1>19. DeviceJob'
  BY <1>2, <1>15 DEF DeviceJob
<1> QED
  BY <1>1, <1>2, <1>7, <1>8, <1>9, <1>10, <1>11, <1>12, <1>14, <1>16, <1>17, <1>18, <1>19,
     JobGoesOn

\* The first mount of a bind.
LEMMA MountBindDefaults ==
  ASSUME DefaultsInv, MountInv, MountInv', StageInv, MountBind
  PROVE  DefaultsInv'
<1>1. step = "mount" /\ stage # "failed" /\ step # "idle" /\ IsBind /\ UNCHANGED <<job, by, list>>
  BY DEF MountBind, jvars, pvars
<1>2. stage # "done" /\ TableTypeOK
  BY <1>1, AtWork
<1>3. CASE Fail /\ UNCHANGED tvars
  BY <1>2, <1>3, FailDefaults
<1>4. CASE BindMount(src, dst, by, Attributes(job.flags)) /\ Goto("reopen")
  <2>1. PICK m \in MountRecord :
          mounts' = Append(mounts, m) /\ m.at = dst.path /\ m.by = by /\ fss' = fss
    BY <1>1, <1>4, BindMade
  <2>2. FilesSame
    BY <1>2, <2>1, MountKeepsFiles
  <2>3. stage # "proc"
    BY <1>1 DEF DefaultsInv, ProcJob
  <2> QED
    BY <1>1, <1>4, <2>1, <2>2, <2>3, JobMounts
<1> QED
  BY <1>3, <1>4 DEF MountBind

\* A mount gets other attributes.
LEMMA RemountMovesNothing ==
  ASSUME MountInv, stage # "done", OnMountRoot(dst),
         NEW flags \in SUBSET Flag, NEW asked \in SUBSET Flag, Remount(dst, flags, asked)
  PROVE  /\ SameMounts /\ FilesKept /\ FilesSame
         /\ dst.mount \in 1 .. Len(mounts) /\ mounts[dst.mount].at = dst.path
<1>1. TableTypeOK /\ Rooted /\ RootsThere /\ MounterTypeOK /\ Len(mounts) \in Nat
  BY MountType DEF MountInv, SetupInv, TableTypeOK
<1>2. dst.mount \in 1 .. Len(mounts) /\ mounts[dst.mount].at = dst.path
  BY <1>1 DEF OnMountRoot, MounterTypeOK, HandleType
<1>3. /\ UNCHANGED fss /\ Len(mounts') = Len(mounts)
      /\ \A i \in 1 .. Len(mounts) :
           /\ mounts'[i].at = mounts[i].at /\ mounts'[i].by = mounts[i].by
           /\ mounts'[i].fs = mounts[i].fs /\ mounts'[i].sub = mounts[i].sub
  <2>1. PICK target : target = dst
    OBVIOUS
  <2>2. Remount(target, flags, asked) /\ target.mount \in 1 .. Len(mounts)
    BY <1>2, <2>1
  <2> QED
    BY <1>1, <2>2, RemountChanges
<1> QED
  BY <1>2, <1>3 DEF SameMounts, FilesKept, FilesSame

\* The second mount of a bind.
LEMMA RemountBindDefaults ==
  ASSUME DefaultsInv, MountInv, MountInv', StageInv, RemountBind
  PROVE  DefaultsInv'
<1>1. /\ step = "remount" /\ stage # "failed" /\ step # "idle" /\ IsBind
      /\ UNCHANGED <<job, by, list>>
  BY DEF RemountBind, jvars, pvars, StageInv
<1>2. stage # "done" /\ TableTypeOK /\ Rooted /\ MounterTypeOK
  BY <1>1, AtWork
<1>3. CASE Fail /\ UNCHANGED tvars
  BY <1>2, <1>3, FailDefaults
<1>4. CASE /\ OnMountRoot(dst)
           /\ Remount(dst, Attributes(job.flags), mounts[dst.mount].asked)
           /\ Goto("propagate")
  <2>1. dst.mount \in 1 .. Len(mounts)
    BY <1>2, <1>4 DEF OnMountRoot, MounterTypeOK, HandleType
  <2>2. mounts[dst.mount].asked \in SUBSET Flag
    BY <1>2, <2>1, MountType DEF TableTypeOK, MountRecord
  <2>3. Attributes(job.flags) \in SUBSET Flag
    BY <1>2, JobParts DEF Attributes
  <2>4. SameMounts /\ FilesKept /\ FilesSame
    BY <1>2, <1>4, <2>2, <2>3, RemountMovesNothing
  <2>5. UNCHANGED <<stage, n, job, by, list>> /\ step' = "propagate"
    BY <1>1, <1>4 DEF Goto
  <2>6. OwnerInv /\ ProcJob /\ SysJob /\ DevJob /\ DeviceJob /\ TableTypeOK'
    BY DEF DefaultsInv, MountInv
  <2>7. stage \notin {"proc", "dev", "pts", "shm"}
    BY <1>1, <2>6 DEF ProcJob, DevJob
  <2>8. ProcJob' /\ DevJob'
    BY <2>5, <2>7 DEF ProcJob, DevJob
  <2>9. SysJob'
    <3>1. SysThere => SysThere'
      BY <1>2, <2>4, <2>6, TableStays
    <3> QED
      BY <1>1, <2>5, <2>6, <3>1 DEF SysJob, IsBind
  <2>10. DeviceJob'
    <3> SUFFICES ASSUME stage = "devices" PROVE DeviceBound(n)'
      BY <2>5 DEF DeviceJob
    <3>1. PICK d \in 1 .. Len(Devices) : d = n /\ DeviceBound(d) /\ DeviceAt(d) \in Seq(Name)
      BY <1>1, <2>6, DeviceParts DEF OwnerInv, DeviceJob
    <3>2. DeviceBound(d)'
      BY <1>2, <2>4, <2>6, <3>1, TableStays
    <3> QED
      BY <2>5, <3>1, <3>2
  <2> QED
    BY <1>1, <2>4, <2>5, <2>8, <2>9, <2>10, JobGoesOnQuietly
<1> QED
  BY <1>3, <1>4 DEF RemountBind

\* Any other mount.
LEMMA MountOtherDefaults ==
  ASSUME DefaultsInv, MountInv, MountInv', StageInv, MountOther
  PROVE  DefaultsInv'
<1>1. /\ step = "mount" /\ stage # "failed" /\ step # "idle" /\ ~IsBind
      /\ UNCHANGED <<job, by, list>>
  BY DEF MountOther, jvars, pvars
<1>2. /\ stage \in {"entries", "devices"} \cup DefaultStages /\ stage # "done"
      /\ TableTypeOK /\ Rooted /\ RootsThere /\ MounterTypeOK
  BY <1>1, AtWork
<1>3. OwnerInv /\ ProcJob /\ SysJob /\ DevJob /\ DeviceJob /\ TableTypeOK'
  BY DEF DefaultsInv, MountInv
<1>4. CASE Fail /\ UNCHANGED tvars
  BY <1>2, <1>4, FailDefaults
<1>5. ASSUME NEW asked \in SUBSET Flag, "REMOUNT" \in job.flags, OnMountRoot(dst),
             Remount(dst, asked, asked), Goto("propagate")
      PROVE  DefaultsInv'
  <2>1. /\ SameMounts /\ FilesKept /\ FilesSame
        /\ dst.mount \in 1 .. Len(mounts) /\ mounts[dst.mount].at = dst.path
    BY <1>2, <1>5, RemountMovesNothing
  <2>2. UNCHANGED <<stage, n, job, by, list>> /\ step' = "propagate"
    BY <1>1, <1>5 DEF Goto
  <2>3. ProcJob'
    <3> SUFFICES ASSUME stage = "proc" PROVE ProcThere'
      BY <1>1, <1>3, <2>2 DEF ProcJob, IsBind
    <3>1. NoneByDefault
      BY <1>1, <1>2, DoneSoFar
    <3>2. dst.path = ProcDir
      BY <1>1, <1>3 DEF ProcJob
    <3>3. ProcThere
      BY <2>1, <3>1, <3>2 DEF ProcThere, NoneByDefault
    <3> QED
      BY <1>2, <1>3, <2>1, <3>3, TableStays
  <2>4. stage # "sys"
    BY <1>1, <1>3, <1>5 DEF SysJob
  <2>5. stage # "devices"
    BY <1>1, <1>3 DEF OwnerInv
  <2>6. SysJob' /\ DeviceJob'
    BY <2>2, <2>4, <2>5 DEF SysJob, DeviceJob
  <2>7. DevJob'
    BY <1>1, <2>2 DEF DevJob, IsBind
  <2> QED
    BY <1>1, <2>1, <2>2, <2>3, <2>5, <2>6, <2>7, JobGoesOnQuietly
<1>6. ASSUME NEW asked \in SUBSET Flag, job.type \in Mountable,
             NewMount(job.type, dst, by, asked), Goto("propagate")
      PROVE  DefaultsInv'
  <2>1. PICK type \in FsType, who \in JobID : type = job.type /\ who = by
    BY <1>2, <1>6 DEF Mountable, FsType, MounterTypeOK
  <2>2. PICK target : target = dst /\ target.path \in Seq(Name)
    BY <1>2 DEF MounterTypeOK, HandleType
  <2>3. NewMount(type, target, who, asked)
    BY <1>6, <2>1, <2>2
  <2>4. /\ \A f \in 1 .. Len(fss) : fss'[f] = fss[f]
        /\ fss'[Len(fss) + 1].type = type
        /\ \E m \in MountRecord :
             /\ mounts' = Append(mounts, m)
             /\ m.at = target.path /\ m.by = who /\ m.fs = Len(fss) + 1
    BY <1>2, <2>2, <2>3, NewMountAdds
  <2>5. PICK m \in MountRecord :
          mounts' = Append(mounts, m) /\ m.at = dst.path /\ m.by = by /\ fss'[m.fs].type = type
    BY <2>1, <2>2, <2>4
  <2>6. FilesSame
    BY <1>2, <2>4, MountKeepsFiles
  <2>7. stage = "proc" => type = "proc"
    BY <1>1, <1>3, <2>1 DEF ProcJob
  <2> QED
    BY <1>1, <1>6, <2>5, <2>6, <2>7, JobMounts
<1> QED
  BY <1>2, <1>4, <1>5, <1>6, OtherCases

\* The job is done.
LEMMA PropagateDefaults ==
  ASSUME DefaultsInv, MountInv, MountInv', StageInv, Propagate
  PROVE  DefaultsInv'
<1>1. step = "propagate" /\ stage # "failed" /\ step # "idle" /\ UNCHANGED tvars /\ list' = list
  BY DEF Propagate, pvars
<1>2. stage \in {"entries", "devices"} \cup DefaultStages /\ stage # "done"
  BY <1>1, AtWork
<1>3. CASE Fail
  BY <1>1, <1>2, <1>3, FailDefaults
<1>4. CASE AfterJob
  <2>1. /\ PointsThere /\ Visible
        /\ stage = "entries" => NoneByDefault
        /\ stage \in {"sys", "dev", "pts", "shm", "devices"} => ProcThere
        /\ stage \in {"dev", "pts", "shm", "devices"} => SysThere
        /\ stage = "devices" => \A d \in 1 .. Len(Devices) : d < n => DeviceBound(d)
        /\ OwnerInv /\ ProcJob /\ SysJob /\ DevJob /\ DeviceJob
    BY <1>2, DoneSoFar
  <2>2. /\ stage = "proc" => ProcThere
        /\ stage = "sys" => SysThere
        /\ stage = "devices" => DeviceBound(n) /\ n \in 1 .. Len(Devices)
    BY <1>1, <2>1 DEF ProcJob, SysJob, DeviceJob, OwnerInv
  <2>3. /\ step' = "idle"
        /\ stage = "entries" => stage' = "entries"
        /\ stage = "devices" => stage' = "devices" /\ n' = n + 1
        /\ stage = "proc" => stage' = "sys"
        /\ stage = "sys" => stage' = "dev"
        /\ stage = "dev" => stage' = "pts"
        /\ stage = "pts" => stage' = "shm"
        /\ stage = "shm" => stage' = "devices"
        /\ stage \in DefaultStages => n' = n
    BY <1>4 DEF AfterJob, AfterDefault, DefaultStages
  <2>4. stage \in DefaultStages => n' = 1
    BY <2>1, <2>3 DEF OwnerInv
  <2>5. stage' = "devices" => \A d \in 1 .. Len(Devices) : d < n' => DeviceBound(d)
    <3> SUFFICES ASSUME stage' = "devices", NEW d \in 1 .. Len(Devices), d < n'
                 PROVE  DeviceBound(d)
      OBVIOUS
    <3>1. stage = "devices"
      <4>1. stage \notin DefaultStages
        BY <2>4
      <4> QED
        BY <1>2, <2>3, <4>1
    <3>2. d < n \/ d = n
      BY <2>2, <2>3, <3>1
    <3> QED
      BY <2>1, <2>2, <3>1, <3>2
  <2> QED
    BY <1>1, <1>2, <2>1, <2>2, <2>3, <2>4, <2>5, StageMoves DEF DefaultStages, MounterEnds
<1> QED
  BY <1>3, <1>4 DEF Propagate

\* A step of a job.
LEMMA DoMountDefaults ==
  DefaultsInv /\ MountInv /\ MountInv' /\ StageInv /\ DoMount => DefaultsInv'
BY OpenSourceDefaults, OpenDestinationDefaults, MountBindDefaults, ReopenDestinationDefaults,
   RemountBindDefaults, MountOtherDefaults, PropagateDefaults DEF DoMount

\* A job begins, unless it has no destination or a bind no source.
LEMMA BeginCases ==
  ASSUME NEW m, NEW who, Begin(m, who)
  PROVE  \/ Fail
         \/ /\ step' \in {"source", "destination"} /\ UNCHANGED <<stage, n>>
            /\ job' = m /\ by' = who
            /\ "BIND" \in m.flags <=> step' = "source"
BY DEF Begin, Goto

\* The job for a default file system.
LEMMA BeginDefaultCases ==
  ASSUME NEW source, NEW destination, NEW type, NEW flags,
         BeginDefault(source, destination, type, flags)
  PROVE  \/ Fail
         \/ /\ step' \in {"source", "destination"} /\ UNCHANGED <<stage, n>>
            /\ job'.source = {source} /\ job'.destination = {destination}
            /\ job'.type = type /\ by'.kind = "default"
            /\ flags # {} => job'.flags = flags
            /\ IsBind' <=> step' = "source"
<1>1. PICK g \in Garbage :
        Begin([source |-> {source}, destination |-> {destination}, type |-> type,
               flags |-> IF flags = {} THEN g.flags ELSE flags,
               propagation |-> g.propagation, data |-> <<>>],
              [kind |-> "default", k |-> 0])
  BY DEF BeginDefault
<1>2. CASE Fail
  BY <1>2
<1>3. CASE ~Fail
  <2>1. /\ step' \in {"source", "destination"} /\ UNCHANGED <<stage, n>>
        /\ job' = [source |-> {source}, destination |-> {destination}, type |-> type,
                   flags |-> IF flags = {} THEN g.flags ELSE flags,
                   propagation |-> g.propagation, data |-> <<>>]
        /\ by' = [kind |-> "default", k |-> 0]
        /\ "BIND" \in job'.flags <=> step' = "source"
    BY <1>1, <1>3, BeginCases
  <2> QED
    BY <2>1 DEF IsBind
<1> QED
  BY <1>2, <1>3

\* A job begins and nothing happens to the table.
LEMMA JobBegins ==
  ASSUME DefaultsInv, UNCHANGED <<stage, n, list, tvars>>, step = "idle",
         stage \in {"entries", "devices"} \cup DefaultStages,
         OwnerInv', ProcJob', SysJob', DevJob', DeviceJob'
  PROVE  DefaultsInv'
<1>1. UNCHANGED tvars
  OBVIOUS
<1>2. /\ PointsThere /\ Visible
      /\ stage = "entries" \/ stage = "proc" => NoneByDefault
      /\ stage \in {"sys", "dev", "pts", "shm", "devices"} => ProcThere
      /\ stage \in {"dev", "pts", "shm", "devices"} => SysThere
      /\ stage = "devices" => \A d \in 1 .. Len(Devices) : d < n => DeviceBound(d)
  BY DoneSoFar
<1>3. /\ PointsThere' /\ Visible'
      /\ stage = "entries" \/ stage = "proc" => NoneByDefault'
      /\ stage \in {"sys", "dev", "pts", "shm", "devices"} => ProcThere'
      /\ stage \in {"dev", "pts", "shm", "devices"} => SysThere'
      /\ stage = "devices" => \A d \in 1 .. Len(Devices) : d < n => DeviceBound(d)'
  BY <1>1, <1>2, TableSame
<1> QED
  BY <1>3, StageStays

\* The next entry, and the end of the list.
LEMMA EntriesDefaults ==
  ASSUME DefaultsInv, MountInv, MountInv', StageInv, StartEntry \/ EntriesDone
  PROVE  DefaultsInv'
<1>1. /\ stage = "entries" /\ step = "idle" /\ UNCHANGED tvars /\ list' = list
      /\ stage # "done" /\ stage \notin DefaultStages
  BY DEF StartEntry, EntriesDone, Idle, pvars, DefaultStages
<1>2. PointsThere /\ Visible /\ NoneByDefault /\ OwnerInv
  BY <1>1, DoneSoFar
<1>3. CASE StartEntry
  <2>1. CASE Fail
    BY <1>1, <2>1, FailDefaults
  <2>2. CASE ~Fail
    <3>1. /\ UNCHANGED <<stage, n>> /\ step' # "idle" /\ by' = [kind |-> "entry", k |-> n]
      BY <1>3, <2>2, BeginCases DEF StartEntry
    <3>2. OwnerInv'
      BY <1>1, <3>1 DEF OwnerInv, DefaultStages
    <3>3. ProcJob' /\ SysJob' /\ DevJob' /\ DeviceJob'
      BY <1>1, <3>1 DEF ProcJob, SysJob, DevJob, DeviceJob
    <3> QED
      BY <1>1, <3>1, <3>2, <3>3, JobBegins
  <2> QED
    BY <2>1, <2>2
<1>4. CASE EntriesDone
  <2>1. stage' = "proc" /\ n' = 1 /\ step' = "idle"
    BY <1>1, <1>4 DEF EntriesDone
  <2> QED
    BY <1>1, <1>2, <2>1, StageMoves DEF MounterEnds
<1> QED
  BY <1>3, <1>4

\* /proc.
LEMMA ConfigureProcDefaults ==
  ASSUME DefaultsInv, MountInv, MountInv', StageInv, ConfigureProc
  PROVE  DefaultsInv'
<1>1. /\ stage = "proc" /\ step = "idle" /\ UNCHANGED tvars /\ list' = list
      /\ stage # "done" /\ stage \in DefaultStages
  BY DEF ConfigureProc, Idle, pvars, DefaultStages
<1>2. PointsThere /\ Visible /\ OwnerInv /\ n = 1
  BY <1>1, DoneSoFar DEF OwnerInv
<1>3. CASE TypeAt(ProcDir) = "proc" /\ Skip("sys")
  <2>1. stage' = "sys" /\ n' = 1 /\ step' = "idle"
    BY <1>1, <1>2, <1>3 DEF Skip
  <2>2. ProcThere
    BY <1>3 DEF ProcThere
  <2> QED
    BY <1>1, <1>2, <2>1, <2>2, StageMoves DEF MounterEnds
<1>4. CASE Fail
  BY <1>1, <1>4, FailDefaults
<1>5. CASE /\ Found(ProcDir)
           /\ BeginDefault(<<"proc">>, <<"/", "proc">>, "proc", {})
           /\ ~Fail
  <2>1. /\ step' \in {"source", "destination"} /\ UNCHANGED <<stage, n>>
        /\ job'.source = {<<"proc">>} /\ job'.destination = {<<"/", "proc">>}
        /\ job'.type = "proc" /\ by'.kind = "default"
        /\ IsBind' <=> step' = "source"
    BY <1>5, BeginDefaultCases
  <2>2. OwnerInv'
    BY <1>1, <1>2, <2>1 DEF OwnerInv, DefaultStages
  <2>3. Exists(ProcDir)'
    BY <1>1, <1>5, TableSame DEF Found
  <2>4. ProcJob'
    BY <2>1, <2>3 DEF ProcJob
  <2>5. SysJob' /\ DevJob' /\ DeviceJob'
    BY <1>1, <2>1 DEF SysJob, DevJob, DeviceJob
  <2> QED
    BY <1>1, <2>1, <2>2, <2>4, <2>5, JobBegins
<1> QED
  BY <1>3, <1>4, <1>5 DEF ConfigureProc

\* /sys.
LEMMA ConfigureSysDefaults ==
  ASSUME DefaultsInv, MountInv, MountInv', StageInv, ConfigureSys
  PROVE  DefaultsInv'
<1>1. /\ stage = "sys" /\ step = "idle" /\ UNCHANGED tvars /\ list' = list
      /\ stage # "done" /\ stage \in DefaultStages
  BY DEF ConfigureSys, Idle, pvars, DefaultStages
<1>2. PointsThere /\ Visible /\ ProcThere /\ OwnerInv /\ n = 1
  BY <1>1, DoneSoFar DEF OwnerInv
<1>3. CASE TypeAt(SysDir) = "sysfs" /\ Skip("dev")
  <2>1. stage' = "dev" /\ n' = 1 /\ step' = "idle"
    BY <1>1, <1>2, <1>3 DEF Skip
  <2>2. SysThere
    BY <1>3 DEF SysThere
  <2> QED
    BY <1>1, <1>2, <2>1, <2>2, StageMoves DEF MounterEnds
<1>4. CASE Fail
  BY <1>1, <1>4, FailDefaults
<1>5. CASE /\ Found(SysDir)
           /\ BeginDefault(<<"sysfs">>, <<"/", "sys">>, "sysfs", {"NOSUID", "NOEXEC", "NODEV"})
           /\ ~Fail
  <2>1. /\ step' \in {"source", "destination"} /\ UNCHANGED <<stage, n>>
        /\ job'.source = {<<"sysfs">>} /\ job'.destination = {<<"/", "sys">>}
        /\ job'.type = "sysfs" /\ by'.kind = "default"
        /\ job'.flags = {"NOSUID", "NOEXEC", "NODEV"}
        /\ IsBind' <=> step' = "source"
    BY <1>5, BeginDefaultCases
  <2>2. OwnerInv'
    BY <1>1, <1>2, <2>1 DEF OwnerInv, DefaultStages
  <2>3. Exists(SysDir)'
    BY <1>1, <1>5, TableSame DEF Found
  <2>4. SysJob'
    BY <2>1, <2>3 DEF SysJob
  <2>5. ProcJob' /\ DevJob' /\ DeviceJob'
    BY <1>1, <2>1 DEF ProcJob, DevJob, DeviceJob
  <2> QED
    BY <1>1, <2>1, <2>2, <2>4, <2>5, JobBegins
<1> QED
  BY <1>3, <1>4, <1>5 DEF ConfigureSys

\* The host's /sys instead.
LEMMA SysfsNotPermittedDefaults ==
  ASSUME DefaultsInv, MountInv, MountInv', StageInv, SysfsNotPermitted
  PROVE  DefaultsInv'
<1>1. /\ stage = "sys" /\ step # "idle" /\ ~IsBind /\ UNCHANGED tvars /\ list' = list
      /\ stage # "done" /\ stage # "failed" /\ stage \in DefaultStages
  BY DEF SysfsNotPermitted, BindHostSys, pvars, DefaultStages
<1>2. /\ PointsThere /\ Visible /\ ProcThere /\ OwnerInv /\ SysJob
  BY <1>1, DoneSoFar
<1>3. CASE Fail
  BY <1>1, <1>3, FailDefaults
<1>4. CASE ~Fail
  <2>1. PICK m : m = [job EXCEPT !.source = {<<"/", "sys">>}, !.type = "bind",
                                 !.flags = {"BIND", "REC", "NOSUID", "NOEXEC", "NODEV"}]
    OBVIOUS
  <2>2. Begin(m, by)
    BY <2>1 DEF SysfsNotPermitted, BindHostSys
  <2>3. /\ step' \in {"source", "destination"} /\ UNCHANGED <<stage, n>>
        /\ job' = m /\ by' = by /\ ("BIND" \in m.flags <=> step' = "source")
    BY <1>4, <2>2, BeginCases
  <2>4. /\ m.destination = job.destination
        /\ m.flags = {"BIND", "REC", "NOSUID", "NOEXEC", "NODEV"}
    <3>1. job \in MountT
      BY DEF MountInv, MounterTypeOK
    <3> QED
      BY <2>1, <3>1 DEF MountT
  <2>5. step' = "source" /\ IsBind' /\ "REMOUNT" \notin job'.flags
    BY <2>3, <2>4 DEF IsBind
  <2>6. OwnerInv'
    BY <1>1, <1>2, <2>3, <2>4 DEF OwnerInv, DefaultStages
  <2>7. SysThere \/ Exists(SysDir)
    <3>1. step = "mount" => Exists(dst.path)
      BY <1>1, PlaceExists
    <3>2. step \in Steps
      BY DEF StageInv
    <3> QED
      BY <1>1, <1>2, <3>1, <3>2 DEF SysJob, Steps
  <2>8. SysJob'
    BY <1>1, <2>5, <2>7, TableSame DEF SysJob
  <2>9. ProcJob' /\ DevJob' /\ DeviceJob'
    BY <1>1, <2>3 DEF ProcJob, DevJob, DeviceJob
  <2>10. PointsThere' /\ Visible' /\ ProcThere'
    BY <1>1, <1>2, TableSame
  <2> QED
    BY <1>1, <2>3, <2>6, <2>8, <2>9, <2>10, StageStays
<1> QED
  BY <1>3, <1>4

\* /dev.
LEMMA ConfigureDevDefaults ==
  ASSUME DefaultsInv, MountInv, MountInv', StageInv, ConfigureDev
  PROVE  DefaultsInv'
<1>1. /\ stage = "dev" /\ step = "idle" /\ UNCHANGED tvars /\ list' = list
      /\ stage # "done" /\ stage \in DefaultStages
  BY DEF ConfigureDev, Idle, pvars, DefaultStages
<1>2. PointsThere /\ Visible /\ ProcThere /\ SysThere /\ OwnerInv /\ n = 1
  BY <1>1, DoneSoFar DEF OwnerInv
<1>3. CASE Skip("pts")
  <2>1. stage' = "pts" /\ n' = 1 /\ step' = "idle"
    BY <1>1, <1>2, <1>3 DEF Skip
  <2> QED
    BY <1>1, <1>2, <2>1, StageMoves DEF MounterEnds
<1>4. CASE Fail
  BY <1>1, <1>4, FailDefaults
<1>5. CASE /\ Found(DevDir) /\ DirectoryIsEmpty(DevDir)
           /\ BeginDev /\ ~Fail
  <2>1. /\ step' \in {"source", "destination"} /\ UNCHANGED <<stage, n>>
        /\ job'.destination = {<<"/", "dev">>} /\ by'.kind = "default"
        /\ job'.flags = {"NOSUID", "STRICTATIME", "NODEV"}
        /\ IsBind' <=> step' = "source"
    BY <1>5, BeginDefaultCases DEF BeginDev
  <2>2. ~IsBind'
    BY <2>1 DEF IsBind
  <2>3. OwnerInv'
    BY <1>1, <1>2, <2>1 DEF OwnerInv, DefaultStages
  <2>4. Exists(DevDir)' /\ DirectoryIsEmpty(DevDir)'
    BY <1>1, <1>5, TableSame DEF Found
  <2>5. DevJob'
    BY <1>1, <2>1, <2>2, <2>4 DEF DevJob
  <2>6. ProcJob' /\ SysJob' /\ DeviceJob'
    BY <1>1, <2>1 DEF ProcJob, SysJob, DeviceJob
  <2> QED
    BY <1>1, <2>1, <2>3, <2>5, <2>6, JobBegins
<1> QED
  BY <1>3, <1>4, <1>5 DEF ConfigureDev

\* /dev/pts and /dev/shm.
LEMMA ConfigureBelowDevDefaults ==
  ASSUME DefaultsInv, MountInv, MountInv', StageInv, ConfigurePts \/ ConfigureShm
  PROVE  DefaultsInv'
<1>1. /\ stage \in {"pts", "shm"} /\ step = "idle" /\ UNCHANGED tvars /\ list' = list
      /\ stage # "done" /\ stage \in DefaultStages
  BY DEF ConfigurePts, ConfigureShm, ConfigureBelowDev, Idle, pvars, DefaultStages
<1>2. PointsThere /\ Visible /\ ProcThere /\ SysThere /\ OwnerInv /\ n = 1
  BY <1>1, DoneSoFar DEF OwnerInv
<1>3. CASE Skip(IF stage = "pts" THEN "shm" ELSE "devices")
  <2>1. stage' \in {"shm", "devices"} /\ n' = 1 /\ step' = "idle"
    BY <1>1, <1>2, <1>3 DEF Skip
  <2>2. \A d \in 1 .. Len(Devices) : ~(d < n')
    BY <2>1
  <2> QED
    BY <1>1, <1>2, <2>1, <2>2, StageMoves DEF MounterEnds
<1>4. CASE Fail
  BY <1>1, <1>4, FailDefaults
<1>5. CASE /\ stage = "pts" /\ Missing(PtsDir) /\ ~Fail
           /\ BeginDefault(<<"devpts">>, <<"/", "dev", "pts">>, "devpts", {"NOSUID", "NOEXEC"})
  <2>1. /\ step' \in {"source", "destination"} /\ UNCHANGED <<stage, n>>
        /\ job'.destination = {<<"/", "dev", "pts">>} /\ by'.kind = "default"
        /\ job'.flags = {"NOSUID", "NOEXEC"}
        /\ IsBind' <=> step' = "source"
    BY <1>5, BeginDefaultCases
  <2>2. ~IsBind'
    BY <2>1 DEF IsBind
  <2>3. OwnerInv'
    BY <1>2, <1>5, <2>1 DEF OwnerInv, DefaultStages
  <2>4. ~Found(PtsDir)'
    BY <1>1, <1>5, TableSame DEF Found, Missing
  <2>5. DevJob'
    BY <1>5, <2>1, <2>2, <2>4 DEF DevJob
  <2>6. ProcJob' /\ SysJob' /\ DeviceJob'
    BY <1>5, <2>1 DEF ProcJob, SysJob, DeviceJob
  <2> QED
    BY <1>1, <2>1, <2>3, <2>5, <2>6, JobBegins
<1>6. CASE /\ stage = "shm" /\ Missing(ShmDir) /\ ~Fail
           /\ BeginDefault(<<"shm">>, <<"/", "dev", "shm">>, "tmpfs",
                           {"NOSUID", "NOEXEC", "NODEV"})
  <2>1. /\ step' \in {"source", "destination"} /\ UNCHANGED <<stage, n>>
        /\ job'.destination = {<<"/", "dev", "shm">>} /\ by'.kind = "default"
        /\ job'.flags = {"NOSUID", "NOEXEC", "NODEV"}
        /\ IsBind' <=> step' = "source"
    BY <1>6, BeginDefaultCases
  <2>2. ~IsBind'
    BY <2>1 DEF IsBind
  <2>3. OwnerInv'
    BY <1>2, <1>6, <2>1 DEF OwnerInv, DefaultStages
  <2>4. ~Found(ShmDir)'
    BY <1>1, <1>6, TableSame DEF Found, Missing
  <2>5. DevJob'
    BY <1>6, <2>1, <2>2, <2>4 DEF DevJob
  <2>6. ProcJob' /\ SysJob' /\ DeviceJob'
    BY <1>6, <2>1 DEF ProcJob, SysJob, DeviceJob
  <2> QED
    BY <1>1, <2>1, <2>3, <2>5, <2>6, JobBegins
<1> QED
  BY <1>3, <1>4, <1>5, <1>6 DEF ConfigurePts, ConfigureShm, ConfigureBelowDev, Idle

\* A bind for a device begins.
LEMMA BeginDeviceDefaults ==
  ASSUME DefaultsInv, MountInv, MountInv', StageInv, NextDevice, BeginDevice,
         SameMounts, FilesKept, list' = list,
         \A d \in 1 .. Len(Devices) :
           d < n => (Exists(DeviceAt(d))' => Exists(DeviceAt(d)))
  PROVE  DefaultsInv'
<1>1. /\ stage = "devices" /\ step = "idle" /\ stage # "done" /\ n \in 1 .. Len(Devices)
      /\ TableTypeOK /\ TableTypeOK' /\ Rooted
  <2>1. stage = "devices" /\ step = "idle" /\ n <= Len(Devices)
    BY DEF NextDevice, Idle
  <2>2. n \in Nat \ {0} /\ Len(Devices) \in Nat
    BY DevicesAssumption DEF StageInv
  <2> QED
    BY <2>1, <2>2 DEF MountInv, SetupInv
<1>2. /\ PointsThere /\ Visible /\ ProcThere /\ SysThere
      /\ \A d \in 1 .. Len(Devices) : d < n => DeviceBound(d)
  BY <1>1, DoneSoFar
<1>3. PointsThere' /\ Visible' /\ ProcThere' /\ SysThere'
  BY <1>1, <1>2, TableStays
<1>4. \A d \in 1 .. Len(Devices) : d < n => DeviceBound(d)'
  BY <1>1, <1>2, TableStays
<1>5. CASE Fail
  BY <1>1, <1>5, FailedDefaults DEF Fail
<1>6. CASE ~Fail
  <2>1. PICK g \in Garbage :
          Begin([source |-> {<<"/", "dev", Devices[n]>>},
                 destination |-> {<<"/", "dev", Devices[n]>>}, type |-> "bind",
                 flags |-> {"BIND", "REC", "NOSUID", "NOEXEC", "NODEV"},
                 propagation |-> g.propagation, data |-> <<>>],
                [kind |-> "device", k |-> n])
    BY DEF BeginDevice
  <2>2. /\ step' \in {"source", "destination"} /\ UNCHANGED <<stage, n>>
        /\ job' = [source |-> {<<"/", "dev", Devices[n]>>},
                   destination |-> {<<"/", "dev", Devices[n]>>}, type |-> "bind",
                   flags |-> {"BIND", "REC", "NOSUID", "NOEXEC", "NODEV"},
                   propagation |-> g.propagation, data |-> <<>>]
        /\ by' = [kind |-> "device", k |-> n]
        /\ "BIND" \in job'.flags <=> step' = "source"
    BY <1>6, <2>1, BeginCases
  <2>3. /\ step' = "source" /\ IsBind' /\ by'.kind = "device"
        /\ job'.source = {<<"/", "dev", Devices[n]>>}
        /\ job'.destination = {<<"/", "dev", Devices[n]>>}
    BY <2>2 DEF IsBind
  <2>4. OwnerInv'
    BY <1>1, <2>2, <2>3 DEF OwnerInv, DefaultStages
  <2>5. ProcJob' /\ SysJob' /\ DevJob' /\ DeviceJob'
    BY <1>1, <2>2, <2>3 DEF ProcJob, SysJob, DevJob, DeviceJob
  <2> QED
    BY <1>1, <1>3, <1>4, <2>2, <2>4, <2>5, StageStays
<1> QED
  BY <1>5, <1>6

\* A device, whose node may have to be made.
LEMMA ConfigureDeviceDefaults ==
  ASSUME DefaultsInv, MountInv, MountInv', StageInv, ConfigureDevice \/ ConfigureMissingDevice
  PROVE  DefaultsInv'
<1>1. /\ stage = "devices" /\ step = "idle" /\ stage # "done" /\ n \in 1 .. Len(Devices)
      /\ TableTypeOK /\ TableTypeOK' /\ Rooted /\ RootsThere /\ NextDevice
  <2>1. NextDevice /\ stage = "devices" /\ step = "idle" /\ n <= Len(Devices)
    BY DEF ConfigureDevice, ConfigureMissingDevice, NextDevice, Idle
  <2>2. n \in Nat \ {0} /\ Len(Devices) \in Nat
    BY DevicesAssumption DEF StageInv
  <2> QED
    BY <2>1, <2>2 DEF MountInv, SetupInv
<1>2. UNCHANGED tvars \/ ConfigureMissingDevice
  BY DEF ConfigureDevice
<1>3. (Fail \/ BeginDevice) /\ list' = list
  BY DEF ConfigureDevice, ConfigureMissingDevice, pvars
<1>4. ASSUME SameMounts, FilesKept,
             \A d \in 1 .. Len(Devices) :
               d < n => (Exists(DeviceAt(d))' => Exists(DeviceAt(d)))
      PROVE  DefaultsInv'
  BY <1>1, <1>3, <1>4, BeginDeviceDefaults, FailedDefaults DEF Fail
<1>5. CASE UNCHANGED tvars
  BY <1>4, <1>5, NothingMoves, TableSame
<1>6. CASE /\ Missing(DevicePath) /\ Create(DevicePath, "file") /\ UNCHANGED mounts
  <2>1. PICK p \in Seq(Name), kind \in FileKind :
          p = DevicePath /\ p = DeviceAt(n) /\ kind = "file"
    BY <1>1, DevicePaths DEF DevicePath, DeviceAt, FileKind
  <2>2. Create(p, kind) /\ ~Exists(p) /\ mounts' = mounts
    BY <1>6, <2>1 DEF Missing
  <2>3. SameMounts /\ FilesKept
    BY <1>1, <2>2, CreateKeeps
  <2>4. ASSUME NEW d \in 1 .. Len(Devices), d < n, ~Exists(DeviceAt(d))
        PROVE  ~Exists(DeviceAt(d))'
    <3>1. PICK q \in Seq(Name) :
            q = DeviceAt(d) /\ Len(q) = 3 /\ q[1] = "rootfs" /\ q[2] = "dev"
            /\ q[3] = Devices[d]
      BY DeviceParts
    <3>2. Len(p) = 3 /\ p[1] = "rootfs" /\ p[2] = "dev" /\ p[3] = Devices[n]
      BY <1>1, <2>1, DeviceParts
    <3>3. Devices[d] # Devices[n]
      BY <1>1, <2>4, DevicesAssumption
    <3>4. Len(q) = Len(p) /\ Len(p) # 0 /\ q[Len(p)] # p[Len(p)] /\ ~Exists(q)
      BY <2>4, <3>1, <3>2, <3>3
    <3>5. \A k \in 1 .. Len(p) - 1 : q[k] = p[k]
      BY <3>1, <3>2
    <3> QED
      BY <1>1, <2>2, <3>1, <3>4, <3>5, CreateBeside
  <2> QED
    BY <1>4, <2>3, <2>4
<1> QED
  BY <1>2, <1>5, <1>6 DEF ConfigureMissingDevice, MakeNode

\* The end of the devices, and what comes before the list.
LEMMA OtherStagesDefaults ==
  ASSUME DefaultsInv, MountInv, StageInv,
         DevicesDone \/ Clone \/ (PNext /\ UNCHANGED mvars)
  PROVE  DefaultsInv'
<1>1. CASE DevicesDone
  <2>1. /\ stage = "devices" /\ step = "idle" /\ stage' = "pivot" /\ step' = "idle"
        /\ UNCHANGED tvars /\ n > Len(Devices)
    BY <1>1 DEF DevicesDone, Idle
  <2>2. /\ PointsThere /\ Visible /\ ProcThere /\ SysThere
        /\ \A d \in 1 .. Len(Devices) : d < n => DeviceBound(d)
    BY <2>1, DoneSoFar
  <2>3. \A d \in 1 .. Len(Devices) : DeviceBound(d)
    <3>1. n \in Nat /\ Len(Devices) \in Nat
      BY DevicesAssumption DEF StageInv
    <3> QED
      BY <2>1, <2>2, <3>1
  <2> QED
    BY <2>1, <2>2, <2>3, StageMoves DEF MounterEnds, DefaultStages
<1>2. CASE Clone \/ (PNext /\ UNCHANGED mvars)
  <2>1. /\ stage = "parse" /\ UNCHANGED <<tvars, n, step>>
        /\ stage' = "parse" \/ stage' = "entries" \/ (stage' = "pivot" /\ list' = <<>>)
    BY <1>2 DEF Clone, PNext, CheckVersion, ParseSections, ParseMountOption, PushMount,
                MoreEntries, MountsParsed, ParserThrows, StageInv, mvars, pvars
  <2>2. step' = "idle" /\ stage # "done"
    BY <2>1 DEF StageInv, DefaultStages
  <2>3. PointsThere /\ Visible /\ NoneByDefault
    BY <2>1, <2>2 DEF DefaultsInv, DoneInv, DevMountsStayVisible, Visible
  <2> QED
    BY <2>1, <2>2, <2>3, StageMoves DEF MounterEnds, DefaultStages
<1> QED
  BY <1>1, <1>2

\* Nothing happens to the mounts and the mounter.
LEMMA QuietDefaults ==
  ASSUME DefaultsInv, UNCHANGED <<mvars, list>>
  PROVE  DefaultsInv'
<1>1. /\ UNCHANGED <<stage, n, step, job, by, src, dst, mounts, fss, list>>
      /\ UNCHANGED tvars
  BY DEF mvars, jvars, tvars
<1>2. OwnerInv'
  BY <1>1 DEF DefaultsInv, OwnerInv, IsBind
<1>3. ProcJob' /\ SysJob' /\ DevJob' /\ DeviceJob'
  <2>1. ProcJob'
    BY <1>1, TableSame DEF DefaultsInv, ProcJob, IsBind
  <2>2. SysJob'
    BY <1>1, TableSame DEF DefaultsInv, SysJob, IsBind
  <2>3. DevJob'
    BY <1>1, TableSame DEF DefaultsInv, DevJob, IsBind
  <2>4. DeviceJob'
    BY <1>1, TableSame DEF DefaultsInv, DeviceJob
  <2> QED
    BY <2>1, <2>2, <2>3, <2>4
<1>4. DoneInv'
  <2>1. DoneInv
    BY DEF DefaultsInv
  <2>2. DevMountsStayVisible'
    BY <1>1, <2>1, TableSame DEF DoneInv, DevMountsStayVisible, Visible
  <2> QED
    BY <1>1, <2>1, <2>2, TableSame DEF DoneInv, After
<1>5. ProcAndSysMounted'
  BY <1>1, TableSame DEF DefaultsInv, ProcAndSysMounted
<1>6. DevicePathsAreDevices'
  BY <1>1, TableSame DEF DefaultsInv, DevicePathsAreDevices
<1> QED
  BY <1>2, <1>3, <1>4, <1>5, <1>6 DEF DefaultsInv

\* The rootfs becomes the root: what the defaults have come to is found at the
\* same places.
LEMMA PivotRootDefaults ==
  ASSUME DefaultsInv, MountInv, StageInv, PivotRoot
  PROVE  DefaultsInv'
<1>1. /\ stage = "pivot" /\ stage' = "done" /\ mounts' = BelowRoot /\ fss' = fss
      /\ list' = list /\ step' = "idle" /\ TableTypeOK /\ Rooted
  BY DEF PivotRoot, pvars, StageInv, MountInv, SetupInv, DefaultStages
<1>2. Len(mounts') = Len(mounts)
  BY <1>1, BelowRootType
<1>3. list # <<>> => ProcThere /\ SysThere /\ \A d \in 1 .. Len(Devices) : DeviceBound(d)
  BY <1>1 DEF DefaultsInv, DoneInv, After
<1>4. \A p \in Seq(Name) : Len(p) > 0 /\ p[1] # "/" =>
        \E t \in 1 .. Len(mounts) :
          /\ t = Top(At(p)) /\ Top(p)' = t /\ mounts'[t].by = mounts[t].by
          /\ mounts[t].at = At(p) => mounts'[t].at = p
          /\ TypeAt(p)' = TypeAt(At(p))
          /\ Exists(p)' <=> Exists(At(p))
  BY <1>1, PivotLookup
<1>5. /\ <<"proc">> \in Seq(Name) /\ Len(<<"proc">>) > 0 /\ <<"proc">>[1] # "/"
      /\ <<"sys">> \in Seq(Name) /\ Len(<<"sys">>) > 0 /\ <<"sys">>[1] # "/"
  BY FixedParts
<1>6. ASSUME list # <<>>
      PROVE  \/ TypeAt(<<"sys">>)' = "sysfs"
             \/ mounts'[Top(<<"sys">>)'].at = <<"sys">>
                  /\ mounts'[Top(<<"sys">>)'].by.kind = "default"
  <2>1. PICK p \in Seq(Name) : p = <<"sys">> /\ Len(p) > 0 /\ p[1] # "/"
    BY <1>5
  <2>2. PICK t \in 1 .. Len(mounts) :
          /\ t = Top(At(p)) /\ Top(p)' = t /\ mounts'[t].by = mounts[t].by
          /\ mounts[t].at = At(p) => mounts'[t].at = p
          /\ TypeAt(p)' = TypeAt(At(p))
    BY <1>4, <2>1
  <2>3. At(p) = SysDir
    BY <2>1 DEF SysDir
  <2> QED
    BY <1>3, <1>6, <2>1, <2>2, <2>3 DEF SysThere
<1>7. ASSUME list # <<>>
      PROVE  \/ TypeAt(<<"proc">>)' = "proc"
             \/ \E i \in 1 .. Len(mounts') :
                  mounts'[i].at = <<"proc">> /\ mounts'[i].by.kind # "default"
  <2>1. PICK p \in Seq(Name) : p = <<"proc">> /\ Len(p) > 0 /\ p[1] # "/" /\ At(p) = ProcDir
    BY <1>5 DEF ProcDir
  <2>2. CASE TypeAt(ProcDir) = "proc"
    BY <1>4, <2>1, <2>2
  <2>3. ASSUME NEW i \in 1 .. Len(mounts), mounts[i].at = ProcDir,
               mounts[i].by.kind # "default"
        PROVE  mounts'[i].at = <<"proc">> /\ mounts'[i].by.kind # "default"
    <3>1. IsStrictPrefix(RootDir, ProcDir)
      <4>1. Len(ProcDir) # 1
        BY FixedParts
      <4>2. RootDir # ProcDir
        BY <4>1, RootParts
      <4> QED
        BY <2>1, <4>2, AtParts DEF IsStrictPrefix
    <3>2. PICK b \in Seq(Name) :
            /\ b = mounts'[i].at /\ Len(ProcDir) = Len(b) + 1
            /\ \A k \in 1 .. Len(b) : ProcDir[k + 1] = b[k]
            /\ mounts'[i].by = mounts[i].by
      BY <1>1, <2>3, <3>1, PivotPlaces
    <3>3. Len(ProcDir) = Len(p) + 1 /\ \A k \in 1 .. Len(p) : ProcDir[k + 1] = p[k]
      BY <2>1, AtParts
    <3>4. Len(b) = Len(p) /\ \A k \in 1 .. Len(b) : b[k] = p[k]
      BY <3>2, <3>3
    <3>5. b = p
      BY <3>4, SeqEqual
    <3> QED
      BY <2>1, <2>3, <3>2, <3>5
  <2> QED
    BY <1>2, <1>3, <1>7, <2>2, <2>3 DEF ProcThere
<1>8. ProcAndSysMounted'
  BY <1>1, <1>6, <1>7 DEF ProcAndSysMounted
<1>9. ASSUME list # <<>>, NEW d \in 1 .. Len(Devices), Exists(<<"dev", Devices[d]>>)'
      PROVE  /\ mounts'[Top(<<"dev", Devices[d]>>)'].at = <<"dev", Devices[d]>>
             /\ mounts'[Top(<<"dev", Devices[d]>>)'].by.kind = "device"
  <2>1. PICK p \in Seq(Name) :
          /\ p = <<"dev", Devices[d]>> /\ Len(p) > 0 /\ p[1] # "/" /\ At(p) = DeviceAt(d)
    <3>1. "dev" # "/"
      OBVIOUS
    <3> QED
      BY <3>1, DeviceParts DEF DeviceAt
  <2>2. PICK t \in 1 .. Len(mounts) :
          /\ t = Top(At(p)) /\ Top(p)' = t /\ mounts'[t].by = mounts[t].by
          /\ mounts[t].at = At(p) => mounts'[t].at = p
          /\ Exists(p)' <=> Exists(At(p))
    BY <1>4, <2>1
  <2>3. DeviceBound(d) /\ Exists(DeviceAt(d))
    BY <1>3, <1>9, <2>1, <2>2
  <2> QED
    BY <2>1, <2>2, <2>3 DEF DeviceBound
<1>10. DevicePathsAreDevices'
  BY <1>1, <1>9 DEF DevicePathsAreDevices
<1>11. OwnerInv' /\ ProcJob' /\ SysJob' /\ DevJob' /\ DeviceJob'
  BY <1>1 DEF OwnerInv, ProcJob, SysJob, DevJob, DeviceJob, DefaultStages
<1>12. DoneInv'
  BY <1>1 DEF DoneInv, DevMountsStayVisible, After
<1> QED
  BY <1>8, <1>10, <1>11, <1>12 DEF DefaultsInv

\* No step breaks the invariant.
LEMMA DefaultsStep ==
  DefaultsInv /\ MountInv /\ StageInv /\ ParserInv /\ [Next]_vars => DefaultsInv'
<1> SUFFICES ASSUME DefaultsInv, MountInv, StageInv, ParserInv, [Next]_vars
             PROVE  DefaultsInv'
  OBVIOUS
<1>1. MountInv'
  BY MountStep
<1>2. CASE UNCHANGED <<mvars, list>>
  BY <1>2, QuietDefaults
<1>3. CASE Throws
  BY <1>1, <1>3, FailDefaults DEF Throws, MounterEnds
<1>4. CASE ExecuteProcess \/ ProcessThrows
  <2>1. UNCHANGED <<mvars, list>>
    BY <1>4 DEF ExecuteProcess, ProcessThrows, ChangeDirectory, SetGid, SetGroups,
                SetUid, Execvpe, Succeeds, pvars
  <2> QED
    BY <2>1, QuietDefaults
<1>5. CASE UNCHANGED vars
  <2>1. UNCHANGED <<mvars, list>>
    BY <1>5 DEF vars, pvars
  <2> QED
    BY <2>1, QuietDefaults
<1>6. CASE MounterNext
  BY <1>1, <1>3, <1>6, EntriesDefaults, ConfigureProcDefaults, ConfigureSysDefaults,
     ConfigureDevDefaults, ConfigureBelowDevDefaults, ConfigureDeviceDefaults,
     OtherStagesDefaults, DoMountDefaults, PivotRootDefaults, SysfsNotPermittedDefaults
     DEF MounterNext, MounterSteps, ConfigureMounts
<1> QED
  BY <1>4, <1>5, <1>6 DEF Next

\* It holds on every host at the beginning.
LEMMA DefaultsInitially == Init => DefaultsInv
<1> SUFFICES ASSUME Init PROVE DefaultsInv
  OBVIOUS
<1>1. PICK h \in Hosts :
        /\ mounts = [i \in 1 .. Len(h.mounts) |->
                       [at |-> h.mounts[i].at, fs |-> h.mounts[i].fs, sub |-> <<>>,
                        flags |-> h.mounts[i].flags, by |-> Nobody,
                        asked |-> h.mounts[i].flags]]
        /\ fss = h.fss
  BY DEF Init, MounterInit
<1>2. stage = "parse" /\ step = "idle"
  BY DEF Init, MounterInit
<1>3. IsHost(h)
  BY HostsAssumption
<1>4. TableTypeOK /\ Rooted
  BY <1>2, MountInitially DEF MountInv, SetupInv
<1>5. PICK m \in Nat : m = Len(h.mounts) /\ m = Len(mounts)
  <2>1. h.mounts \in Seq([at : Seq(Name), fs : Nat, flags : SUBSET Flag])
    BY <1>3 DEF IsHost
  <2>2. PICK m \in Nat : m = Len(h.mounts)
    BY <2>1, LenProperties
  <2>3. DOMAIN mounts = 1 .. m
    BY <1>1, <2>2
  <2>4. Len(mounts) = m
    BY <1>4, <2>2, <2>3, LenProperties DEF TableTypeOK
  <2> QED
    BY <2>2, <2>4
<1>6. \A i \in 1 .. m : /\ mounts[i].at = h.mounts[i].at /\ mounts[i].fs = h.mounts[i].fs
                        /\ mounts[i].sub = <<>> /\ mounts[i].by = Nobody
  BY <1>1, <1>5
<1>7. PointsThere
  <2> SUFFICES ASSUME NEW i \in 2 .. m
               PROVE  \E k \in 1 .. i - 1 :
                        IsOn(mounts, i, k)
                        /\ Inner(k, mounts[i].at) \in DOMAIN fss[mounts[k].fs].files
    BY <1>5 DEF PointsThere
  <2>1. PICK k \in 1 .. i - 1 :
          /\ IsOn(h.mounts, i, k)
          /\ SubSeq(h.mounts[i].at, Len(h.mounts[k].at) + 1, Len(h.mounts[i].at))
               \in DOMAIN h.fss[h.mounts[k].fs].files
    BY <1>3, <1>5 DEF IsHost
  <2>2. i \in 1 .. m /\ k \in 1 .. m /\ \A l \in k + 1 .. i - 1 : l \in 1 .. m
    BY <1>5
  <2>3. IsOn(mounts, i, k)
    BY <1>6, <2>1, <2>2 DEF IsOn
  <2>4. PICK a \in Seq(Name), b \in Seq(Name) : a = mounts[i].at /\ b = mounts[k].at
    BY <1>4, <1>5, <2>2, MountType DEF TableTypeOK
  <2>5. Inner(k, a) = <<>> \o SubSeq(a, Len(b) + 1, Len(a))
    BY <1>6, <2>2, <2>4 DEF Inner
  <2>6. <<>> \o SubSeq(a, Len(b) + 1, Len(a)) = SubSeq(a, Len(b) + 1, Len(a))
    OBVIOUS
  <2>7. SubSeq(a, Len(b) + 1, Len(a)) \in DOMAIN fss[mounts[k].fs].files
    BY <1>1, <1>6, <2>1, <2>2, <2>4
  <2> QED
    BY <2>3, <2>4, <2>5, <2>6, <2>7
<1>8. NoneByDefault
  BY <1>5, <1>6 DEF NoneByDefault, Nobody
<1>9. DoneInv
  BY <1>2, <1>5, <1>7, <1>8 DEF DoneInv, DevMountsStayVisible, NoneByDefault, After
<1>10. OwnerInv /\ ProcJob /\ SysJob /\ DevJob /\ DeviceJob
  BY <1>2 DEF OwnerInv, ProcJob, SysJob, DevJob, DeviceJob, DefaultStages
<1>11. ProcAndSysMounted /\ DevicePathsAreDevices
  BY <1>2 DEF ProcAndSysMounted, DevicePathsAreDevices
<1> QED
  BY <1>9, <1>10, <1>11 DEF DefaultsInv

\* What the default file systems and devices have done to the mounts is right at
\* every step.
THEOREM DefaultsInvariant == Spec => []DefaultsInv
BY MountInvariant, DefaultsInitially, DefaultsStep, PTL DEF Spec

\* The default file systems hide nothing of the configuration's below /dev that
\* could be seen before.
THEOREM NothingHiddenBelowDev == Spec => []DevMountsStayVisible
<1>1. DefaultsInv => DevMountsStayVisible
  BY DEF DefaultsInv, DoneInv
<1> QED
  BY <1>1, DefaultsInvariant, PTL

\* A container with mounts has a sysfs or the host's /sys, and a proc at /proc
\* unless something else had been mounted there.
THEOREM ProcAndSysAreMounted == Spec => []ProcAndSysMounted
<1>1. DefaultsInv => ProcAndSysMounted
  BY DEF DefaultsInv
<1> QED
  BY <1>1, DefaultsInvariant, PTL

\* What is at the path of a default device, if anything, is the device.
THEOREM DevicesAreBound == Spec => []DevicePathsAreDevices
<1>1. DefaultsInv => DevicePathsAreDevices
  BY DEF DefaultsInv
<1> QED
  BY <1>1, DefaultsInvariant, PTL

=============================================================================
