-------------------------- MODULE ApiServerProofs --------------------------
(***************************************************************************)
(* What a write and a delivery do to stores, caches and watches, whatever  *)
(* the kinds K, the names N and the objects T[k] of each kind are.         *)
(***************************************************************************)
EXTENDS ApiServer, Integers, TLAPS

\* Store, cache and watches hold objects of their kinds.
ApiTyped(K, N, T) ==
    /\ DOMAIN store = K /\ DOMAIN cache = K /\ DOMAIN watch = K
    /\ \A k \in K : /\ store[k] \in [N -> T[k]] /\ cache[k] \in [N -> T[k]]
                    /\ watch[k] \in Seq([name : N, obj : T[k]])

\* The effect of a write on the store and on the watch of its kind.
Wrote(K, k, n, obj) ==
    /\ cache' = cache
    /\ \A j \in K : j # k => store'[j] = store[j] /\ watch'[j] = watch[j]
    /\ store'[k] = [store[k] EXCEPT ![n] = obj]
    /\ \A i \in 1..Len(watch'[k]) :
           \/ i \in 1..Len(watch[k]) /\ watch'[k][i] = watch[k][i]
           \/ watch'[k][i] = [name |-> n, obj |-> obj]

\* A write that changes something is one more event, behind those on their way.
Announced(k, n, obj) ==
    \/ store[k][n] = obj /\ watch'[k] = watch[k]
    \/ /\ Len(watch'[k]) = Len(watch[k]) + 1
       /\ \A i \in 1..Len(watch[k]) : watch'[k][i] = watch[k][i]
       /\ watch'[k][Len(watch[k]) + 1].obj = obj

\* The effect of a delivery on the cache and on the watch of its kind.
Moved(K, k) ==
    /\ store' = store
    /\ \A j \in K : j # k => cache'[j] = cache[j] /\ watch'[j] = watch[j]
    /\ Len(watch[k]) > 0 /\ Head(watch[k]) = watch[k][1]
    /\ cache'[k] = [cache[k] EXCEPT ![watch[k][1].name] = watch[k][1].obj]
    /\ Len(watch'[k]) = Len(watch[k]) - 1
    /\ \A i \in 1..Len(watch'[k]) :
           i + 1 \in 1..Len(watch[k]) /\ watch'[k][i] = watch[k][i + 1]

\* The cache agrees with the store on object n of kind k, and nothing about it is on
\* its way.
UpToDate(k, n) ==
    /\ cache[k][n] = store[k][n]
    /\ \A i \in 1..Len(watch[k]) : watch[k][i].name # n

\* Unless it agrees already, the cache will agree with the store on object n of kind
\* k once all events are delivered: the last one about n carries what is stored.
Tracked(k, n) ==
    \/ UpToDate(k, n)
    \/ \E i \in 1..Len(watch[k]) :
           /\ watch[k][i].name = n /\ watch[k][i].obj = store[k][n]
           /\ \A j \in 1..Len(watch[k]) : j > i => watch[k][j].name # n

\* What the cache shows of object n of kind k, now and after each event on its way.
Views(k, n) ==
    {cache[k][n]} \cup
    {watch[k][i].obj : i \in {j \in 1..Len(watch[k]) : watch[k][j].name = n}}

\* An event holds a name and an object of its kind.
EventTyped(N, T, k) == watch[k][1].name \in N /\ watch[k][1].obj \in T[k]

\* Write puts one well-formed object into the store and at most one event at the
\* end of the watch of its kind.
LEMMA WriteEffect ==
    ASSUME NEW K, NEW N, NEW T, ApiTyped(K, N, T),
           NEW k \in K, NEW n \in N, NEW obj \in T[k], Write(k, n, obj)
    PROVE  Wrote(K, k, n, obj) /\ Announced(k, n, obj) /\ ApiTyped(K, N, T)'
<1> DEFINE E == [name |-> n, obj |-> obj]
<1>1. /\ DOMAIN store' = K /\ DOMAIN watch' = K /\ cache' = cache
      /\ \A j \in K : j # k => store'[j] = store[j] /\ watch'[j] = watch[j]
      /\ store'[k] = [store[k] EXCEPT ![n] = obj]
  BY DEF Write, ApiTyped
<1>2. store[k] \in [N -> T[k]] /\ watch[k] \in Seq([name : N, obj : T[k]])
  BY DEF ApiTyped
<1>3. store'[k] \in [N -> T[k]]
  BY <1>1, <1>2
<1>4. watch'[k] = watch[k] \/ watch'[k] = Append(watch[k], E)
  BY DEF Write, ApiTyped
<1>5. E \in [name : N, obj : T[k]]
  OBVIOUS
<1> HIDE DEF E
<1>6. /\ watch'[k] \in Seq([name : N, obj : T[k]])
      /\ \A i \in 1..Len(watch'[k]) :
            \/ i \in 1..Len(watch[k]) /\ watch'[k][i] = watch[k][i]
            \/ watch'[k][i] = E
  <2>1. CASE watch'[k] = watch[k]
    BY <1>2, <2>1
  <2>2. CASE watch'[k] = Append(watch[k], E)
    BY <1>2, <1>5, <2>2
  <2> QED
    BY <1>4, <2>1, <2>2
<1>7. ApiTyped(K, N, T)'
  BY <1>1, <1>3, <1>6 DEF ApiTyped
<1>8. Announced(k, n, obj)
  <2>1. CASE store[k][n] = obj
    BY <2>1, <1>1 DEF Write, Announced
  <2>2. CASE store[k][n] # obj
    <3>1. watch'[k] = Append(watch[k], E)
      BY <2>2 DEF Write, ApiTyped, E
    <3> QED
      BY <1>2, <1>5, <3>1 DEF Announced, E
  <2> QED
    BY <2>1, <2>2
<1> QED
  BY <1>1, <1>6, <1>7, <1>8 DEF E, Wrote

\* Deliver moves the first event of the watch into the cache and the others up.
LEMMA DeliverEffect ==
    ASSUME NEW K, NEW N, NEW T, ApiTyped(K, N, T), NEW k \in K, Deliver(k)
    PROVE  Moved(K, k) /\ EventTyped(N, T, k) /\ ApiTyped(K, N, T)'
<1> DEFINE E == [name : N, obj : T[k]]
           w == watch[k]
<1>1. w \in Seq(E) /\ w # <<>> /\ cache[k] \in [N -> T[k]]
  BY DEF Deliver, ApiTyped
<1>2. /\ DOMAIN cache' = K /\ DOMAIN watch' = K /\ store' = store
      /\ \A j \in K : j # k => cache'[j] = cache[j] /\ watch'[j] = watch[j]
      /\ cache'[k] = [cache[k] EXCEPT ![Head(w).name] = Head(w).obj]
      /\ watch'[k] = Tail(w)
  BY DEF Deliver, ApiTyped
<1> HIDE DEF E
<1>3. Len(w) > 0 /\ Head(w) = w[1] /\ w[1] \in E
  BY <1>1
<1>4. /\ Tail(w) \in Seq(E) /\ Len(Tail(w)) = Len(w) - 1
      /\ \A i \in 1..Len(Tail(w)) : i + 1 \in 1..Len(w) /\ Tail(w)[i] = w[i + 1]
  BY <1>1
<1>5. w[1].name \in N /\ w[1].obj \in T[k]
  BY <1>3 DEF E
<1>6. cache'[k] \in [N -> T[k]]
  BY <1>1, <1>2, <1>3, <1>5
<1>7. ApiTyped(K, N, T)'
  BY <1>2, <1>4, <1>6 DEF ApiTyped, E
<1> QED
  BY <1>2, <1>3, <1>4, <1>5, <1>7 DEF Moved, EventTyped

-----------------------------------------------------------------------------
(* What the cache shows of one object. *)

\* The store is the last thing the cache will show.
LEMMA TrackedShows ==
    ASSUME NEW k, NEW n, Tracked(k, n)
    PROVE  /\ store[k][n] \in Views(k, n)
           /\ watch[k] = <<>> => UpToDate(k, n) /\ Views(k, n) = {store[k][n]}
<1>1. store[k][n] \in Views(k, n)
  BY DEF Tracked, UpToDate, Views
<1>2. ASSUME watch[k] = <<>> PROVE UpToDate(k, n) /\ Views(k, n) = {store[k][n]}
  <2>1. 1..Len(watch[k]) = {}
    BY <1>2
  <2> QED
    BY <2>1 DEF Tracked, UpToDate, Views
<1> QED
  BY <1>1, <1>2

\* Views are objects of their kind.
LEMMA ViewsTyped ==
    ASSUME NEW K, NEW N, NEW T, ApiTyped(K, N, T), NEW k \in K, NEW n \in N
    PROVE  Views(k, n) \subseteq T[k]
<1> DEFINE E == [name : N, obj : T[k]]
<1>1. cache[k] \in [N -> T[k]] /\ watch[k] \in Seq(E)
  BY DEF ApiTyped
<1>2. cache[k][n] \in T[k]
  BY <1>1
<1> HIDE DEF E
<1>3. \A i \in 1..Len(watch[k]) : watch[k][i] \in E
  BY <1>1
<1>4. \A i \in 1..Len(watch[k]) : watch[k][i].obj \in T[k]
  BY <1>3 DEF E
<1> QED
  BY <1>2, <1>4 DEF Views

\* A write adds what it wrote to the views of that object, and leaves what is shown
\* of the others alone.
LEMMA WriteViews ==
    ASSUME NEW K, NEW N, NEW T, ApiTyped(K, N, T),
           NEW k \in K, NEW n \in N, NEW obj \in T[k], Write(k, n, obj),
           NEW j \in K, NEW m \in N, Tracked(j, m)
    PROVE  /\ Tracked(j, m)'
           /\ Views(j, m) \subseteq Views(j, m)'
           /\ j = k /\ m = n => Views(j, m)' = Views(j, m) \cup {obj}
           /\ ~(j = k /\ m = n) => /\ Views(j, m)' = Views(j, m)
                                   /\ UpToDate(j, m) => UpToDate(j, m)'
<1> DEFINE E == [name |-> n, obj |-> obj]
           w == watch[j]
           v == watch'[j]
<1>1. /\ cache' = cache
      /\ store'[j][m] = IF j = k /\ m = n THEN obj ELSE store[j][m]
  BY DEF Write, ApiTyped
<1>2. CASE v = w /\ (j = k /\ m = n => store[k][n] = obj)
  <2>1. store'[j][m] = store[j][m]
    BY <1>1, <1>2
  <2>2. Tracked(j, m)' /\ Views(j, m)' = Views(j, m) /\ (UpToDate(j, m) => UpToDate(j, m)')
    BY <1>1, <1>2, <2>1 DEF Tracked, UpToDate, Views
  <2>3. j = k /\ m = n => obj \in Views(j, m)
    BY <1>2, TrackedShows
  <2> QED
    BY <2>2, <2>3
<1>3. CASE j = k /\ v = Append(w, E)
  <2>1. w \in Seq([name : N, obj : T[j]])
    BY DEF ApiTyped
  <2>2. /\ Len(w) \in Nat /\ Len(v) = Len(w) + 1
        /\ \A i \in 1..Len(w) : v[i] = w[i]
        /\ v[Len(w) + 1] = E
    BY <1>3, <2>1
  <2>3. E.name = n /\ E.obj = obj
    OBVIOUS
  <2> HIDE DEF E, w, v
  <2>4. CASE m = n
    <3>1. store'[j][m] = obj
      BY <1>1, <1>3, <2>4
    <3>2. Tracked(j, m)'
      <4>1. /\ Len(w) + 1 \in 1..Len(v) /\ v[Len(w) + 1].name = m
            /\ v[Len(w) + 1].obj = store'[j][m]
            /\ \A i \in 1..Len(v) : ~(i > Len(w) + 1)
        BY <2>2, <2>3, <2>4, <3>1
      <4> QED
        BY <4>1 DEF Tracked, v
    <3>3. {v[i].obj : i \in {h \in 1..Len(v) : v[h].name = m}}
             = {w[i].obj : i \in {h \in 1..Len(w) : w[h].name = m}} \cup {obj}
      <4>1. ASSUME NEW i \in 1..Len(v)
            PROVE  (i \in 1..Len(w) /\ v[i] = w[i]) \/ (i = Len(w) + 1 /\ v[i] = E)
        BY <2>2
      <4>2. \A i \in 1..Len(w) : i \in 1..Len(v)
        BY <2>2
      <4>3. Len(w) + 1 \in 1..Len(v)
        BY <2>2
      <4> QED
        BY <2>2, <2>3, <2>4, <4>1, <4>2, <4>3
    <3>4. Views(j, m)' = Views(j, m) \cup {obj}
      BY <1>1, <3>3 DEF Views, v, w
    <3> QED
      BY <1>3, <2>4, <3>2, <3>4
  <2>5. CASE m # n
    <3>1. store'[j][m] = store[j][m]
      BY <1>1, <2>5
    <3>2. \A i \in 1..Len(v) : (i \in 1..Len(w) /\ v[i] = w[i]) \/ v[i].name # m
      BY <2>2, <2>3, <2>5
    <3>3. \A i \in 1..Len(w) : i \in 1..Len(v) /\ v[i] = w[i]
      BY <2>2
    <3>4. UpToDate(j, m) => UpToDate(j, m)'
      BY <1>1, <3>1, <3>2 DEF UpToDate, v, w
    <3>5. Views(j, m)' = Views(j, m)
      <4>1. {v[i].obj : i \in {h \in 1..Len(v) : v[h].name = m}}
               = {w[i].obj : i \in {h \in 1..Len(w) : w[h].name = m}}
        BY <3>2, <3>3
      <4> QED
        BY <1>1, <4>1 DEF Views, v, w
    <3>6. Tracked(j, m)'
      <4>1. CASE UpToDate(j, m)
        BY <3>4, <4>1 DEF Tracked
      <4>2. ASSUME NEW i \in 1..Len(w), w[i].name = m, w[i].obj = store[j][m],
                   \A h \in 1..Len(w) : h > i => w[h].name # m
            PROVE  Tracked(j, m)'
        <5>1. /\ i \in 1..Len(v) /\ v[i].name = m /\ v[i].obj = store'[j][m]
              /\ \A h \in 1..Len(v) : h > i => v[h].name # m
          BY <3>1, <3>2, <3>3, <4>2
        <5> QED
          BY <5>1 DEF Tracked, v
      <4> QED
        BY <4>1, <4>2 DEF Tracked, w
    <3> QED
      BY <2>5, <3>4, <3>5, <3>6
  <2> QED
    BY <2>4, <2>5
<1>4. \/ v = w /\ (j = k /\ m = n => store[k][n] = obj)
      \/ j = k /\ v = Append(w, E)
  BY DEF Write, ApiTyped
<1> QED
  BY <1>2, <1>3, <1>4

\* A delivery shows of one object what comes next, and nothing else changes.
LEMMA DeliverViews ==
    ASSUME NEW K, NEW N, NEW T, ApiTyped(K, N, T), NEW k \in K, Deliver(k),
           NEW j \in K, NEW m \in N
    PROVE  /\ Tracked(j, m) => Tracked(j, m)'
           /\ UpToDate(j, m) => UpToDate(j, m)'
           /\ Views(j, m) \subseteq Views(j, m)' \cup {cache[j][m]}
           /\ Views(j, m)' \subseteq Views(j, m)
           /\ ~(j = k /\ Head(watch[k]).name = m) => Views(j, m)' = Views(j, m)
           /\ j = k /\ Head(watch[k]).name = m => Head(watch[k]).obj \in Views(j, m)'
<1> DEFINE w == watch[j]
           v == watch'[j]
<1>1. store' = store
  BY DEF Deliver
<1>2. CASE j # k
  <2>1. v = w /\ cache'[j] = cache[j]
    BY <1>2 DEF Deliver, ApiTyped
  <2> QED
    BY <1>1, <1>2, <2>1 DEF Tracked, UpToDate, Views
<1>3. CASE j = k
  <2>1. w \in Seq([name : N, obj : T[j]]) /\ w # <<>> /\ v = Tail(w) /\ cache[j] \in [N -> T[j]]
    BY <1>3 DEF Deliver, ApiTyped
  <2>2. /\ Len(w) \in Nat /\ Len(w) > 0 /\ Len(v) = Len(w) - 1 /\ Head(w) = w[1]
        /\ \A i \in 1..Len(v) : v[i] = w[i + 1]
    BY <2>1
  <2>3. cache'[j][m] = IF w[1].name = m THEN w[1].obj ELSE cache[j][m]
    <3>1. cache'[j] = [cache[j] EXCEPT ![w[1].name] = w[1].obj]
      BY <1>3, <2>2 DEF Deliver, ApiTyped
    <3> QED
      BY <2>1, <3>1
  <2> HIDE DEF w, v
  <2>4. \A i \in 1..Len(v) : i + 1 \in 1..Len(w) /\ v[i] = w[i + 1]
    BY <2>2
  <2>5. \A i \in 1..Len(w) : i = 1 \/ (i - 1 \in 1..Len(v) /\ v[i - 1] = w[i])
    BY <2>2
  <2>6. 1 \in 1..Len(w)
    BY <2>2
  <2>7. UpToDate(j, m) => UpToDate(j, m)'
    BY <1>1, <2>3, <2>4, <2>6 DEF UpToDate, w, v
  <2>8. Tracked(j, m) => Tracked(j, m)'
    <3>1. CASE UpToDate(j, m)
      BY <2>7, <3>1 DEF Tracked
    <3>2. ASSUME NEW i \in 1..Len(w), w[i].name = m, w[i].obj = store[j][m],
                 \A h \in 1..Len(w) : h > i => w[h].name # m
          PROVE  Tracked(j, m)'
      <4>1. CASE i = 1
        <5>1. \A h \in 1..Len(v) : v[h].name # m
          BY <2>2, <2>4, <3>2, <4>1
        <5> QED
          BY <1>1, <2>3, <3>2, <4>1, <5>1 DEF Tracked, UpToDate, v
      <4>2. CASE i # 1
        <5>1. i - 1 \in 1..Len(v) /\ v[i - 1] = w[i]
          BY <2>5, <4>2
        <5>2. \A h \in 1..Len(v) : h > i - 1 => v[h].name # m
          BY <2>2, <2>4, <3>2
        <5> QED
          BY <1>1, <3>2, <5>1, <5>2 DEF Tracked, v
      <4> QED
        BY <4>1, <4>2
    <3> QED
      BY <3>1, <3>2 DEF Tracked, w
  <2>9. Views(j, m) = {cache[j][m]} \cup {w[i].obj : i \in {h \in 1..Len(w) : w[h].name = m}}
    BY DEF Views, w
  <2>10. Views(j, m)' = {cache'[j][m]} \cup {v[i].obj : i \in {h \in 1..Len(v) : v[h].name = m}}
    BY DEF Views, v
  <2>11. Views(j, m)' \subseteq Views(j, m)
    BY <2>3, <2>4, <2>6, <2>9, <2>10
  <2>12. Views(j, m) \subseteq Views(j, m)' \cup {cache[j][m]}
    BY <2>3, <2>5, <2>9, <2>10
  <2>13. w[1].name # m => Views(j, m)' = Views(j, m)
    BY <2>3, <2>10, <2>11, <2>12
  <2>14. w[1].name = m => w[1].obj \in Views(j, m)'
    BY <2>3, <2>10
  <2> QED
    BY <1>3, <2>2, <2>7, <2>8, <2>11, <2>12, <2>13, <2>14 DEF w
<1> QED
  BY <1>2, <1>3
=============================================================================
