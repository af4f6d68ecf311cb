---------------------- MODULE DmBufioClients_proofs ----------------------
(***************************************************************************)
(* ClientsInv is an invariant of DmBufioClients, and what follows from it. *)
(***************************************************************************)
EXTENDS DmBufioClients, FiniteSetTheorems, TLAPS

USE ThreadsAssumption, ClientsAssumption, SizesAssumption, CallsAssumption

-----------------------------------------------------------------------------
(* Steps.                                                                  *)

\* A thread that goes on leaves the others where they are.
Moves(t, l, r) ==
  /\ pc'[t] = l /\ loc'[t] = r
  /\ \A u \in Threads \ {t} : pc'[u] = pc[u] /\ loc'[u] = loc[u]
  /\ pc' \in [Threads -> Global \cup Local] /\ loc' \in [Threads -> Locals]

LEMMA GoMoves ==
  ASSUME TypeOK, NEW t \in Threads, NEW l \in Global \cup Local, NEW r \in Locals,
         Go(t, l, r)
  PROVE  Moves(t, l, r)
  BY DEF TypeOK, Go, Moves

LEMMA RestTyped ==
  /\ Rest \in Locals /\ Rest.client = NoClient /\ Rest.walk = {} /\ ~Rest.changed
  /\ \A c \in Clients : /\ On(c) \in Locals
                        /\ On(c).client = c /\ On(c).walk = {} /\ On(c).then = "idle"
  BY DEF Rest, On, Locals, Local

LEMMA ShareTyped ==
  ASSUME NEW size \in Nat, NEW n \in Nat
  PROVE  Share(size, n) \in Nat
  <1>1. \A m \in Nat : m > 0 => size \div m \in Nat
    OBVIOUS
  <1> QED
    BY <1>1 DEF Share

\* A step of t that leaves the clients as they are, and no other thread's c->lock.
LEMMA QuietLife ==
  ASSUME LifeInv, NEW t \in Threads,
         UNCHANGED clientVars, TypeOK', LockOwner', ThreadOK(t)',
         \A u \in Threads \ {t} : pc'[u] = pc[u] /\ loc'[u] = loc[u],
         (Creating(t) \/ Closing(t))' =>
            (Creating(t) \/ Closing(t)) /\ loc'[t].client = loc[t].client,
         \A c \in Clients : clientLock[c] \in Threads \ {t} => clientLock'[c] = clientLock[c]
  PROVE  LifeInv'
  <1>1. OneKeeper'
    BY DEF LifeInv, OneKeeper, Creating, Closing, In
  <1>2. ASSUME NEW u \in Threads \ {t} PROVE ThreadOK(u)'
    <2>1. ThreadOK(u) /\ loc[u].client \in Clients \cup {NoClient}
      BY DEF LifeInv, TypeOK, Locals
    <2> QED
      BY <2>1 DEF ThreadOK, clientVars, In, At, Creating, Closing, Using, Refreshing
  <1> QED
    BY <1>1, <1>2 DEF LifeInv, ClientOK, CountOK, clientVars

-----------------------------------------------------------------------------
(* The steps that leave the clients as they are.                           *)

LEMMA LatchLife ==
  ASSUME LifeInv, NEW t \in Threads, Latch(t)
  PROVE  LifeInv'
  <1> DEFINE l == IF cacheSize = 0 THEN "zero" ELSE "share"
             r == loc[t]
  <1>1. TypeOK /\ LockOwner /\ ThreadOK(t) /\ loc[t] \in Locals
    BY DEF LifeInv, TypeOK
  <1>2. l \in Global \cup Local /\ r \in Locals
    BY <1>1 DEF Latch, TypeOK, ThreadOK, Locals, Local, Global, Refreshing, At
  <1>3. Moves(t, l, r)
    BY <1>1, <1>2, GoMoves DEF Latch
  <1>4. TypeOK' /\ LockOwner'
    BY <1>1, <1>3 DEF Latch, TypeOK, LockOwner, Moves, At, Global, Refreshing, clientVars, Local
  <1>5. ThreadOK(t)'
    BY <1>1, <1>3 DEF Latch, ThreadOK, TypeOK, Moves, In, At, Creating, Closing, Using,
       Refreshing, clientVars, Locals, Local
  <1>6. (Creating(t) \/ Closing(t))' =>
          (Creating(t) \/ Closing(t)) /\ loc'[t].client = loc[t].client
    BY <1>1, <1>3 DEF Latch, Moves, In, At, Creating, Closing, Refreshing, ThreadOK, TypeOK, Locals
  <1>7. \A c1 \in Clients : clientLock[c1] \in Threads \ {t} => clientLock'[c1] = clientLock[c1]
    BY <1>1 DEF Latch, TypeOK, ThreadOK, Using, In, At, Refreshing
  <1> QED
    BY <1>3, <1>4, <1>5, <1>6, <1>7, QuietLife DEF Latch, Moves, clientVars

LEMMA ZeroLife ==
  ASSUME LifeInv, NEW t \in Threads, Zero(t)
  PROVE  LifeInv'
  <1> DEFINE l == "default"
             r == loc[t]
  <1>1. TypeOK /\ LockOwner /\ ThreadOK(t) /\ loc[t] \in Locals
    BY DEF LifeInv, TypeOK
  <1>2. l \in Global \cup Local /\ r \in Locals
    BY <1>1 DEF Zero, TypeOK, ThreadOK, Locals, Local, Global, Refreshing, At
  <1>3. Moves(t, l, r)
    BY <1>1, <1>2, GoMoves DEF Zero
  <1>4. TypeOK' /\ LockOwner'
    BY <1>1, <1>3 DEF Zero, TypeOK, LockOwner, Moves, At, Global, Refreshing, clientVars, Local
  <1>5. ThreadOK(t)'
    BY <1>1, <1>3 DEF Zero, ThreadOK, TypeOK, Moves, In, At, Creating, Closing, Using,
       Refreshing, clientVars, Locals, Local
  <1>6. (Creating(t) \/ Closing(t))' =>
          (Creating(t) \/ Closing(t)) /\ loc'[t].client = loc[t].client
    BY <1>1, <1>3 DEF Zero, Moves, In, At, Creating, Closing, Refreshing, ThreadOK, TypeOK, Locals
  <1>7. \A c1 \in Clients : clientLock[c1] \in Threads \ {t} => clientLock'[c1] = clientLock[c1]
    BY <1>1 DEF Zero, TypeOK, ThreadOK, Using, In, At, Refreshing
  <1> QED
    BY <1>3, <1>4, <1>5, <1>6, <1>7, QuietLife DEF Zero, Moves, clientVars

LEMMA DefaultLife ==
  ASSUME LifeInv, NEW t \in Threads, Default(t)
  PROVE  LifeInv'
  <1> DEFINE l == "share"
             r == loc[t]
  <1>1. TypeOK /\ LockOwner /\ ThreadOK(t) /\ loc[t] \in Locals
    BY DEF LifeInv, TypeOK
  <1>2. l \in Global \cup Local /\ r \in Locals
    BY <1>1 DEF Default, TypeOK, ThreadOK, Locals, Local, Global, Refreshing, At
  <1>3. Moves(t, l, r)
    BY <1>1, <1>2, GoMoves DEF Default
  <1>4. TypeOK' /\ LockOwner'
    BY <1>1, <1>3 DEF Default, TypeOK, LockOwner, Moves, At, Global, Refreshing, clientVars, Local
  <1>5. ThreadOK(t)'
    BY <1>1, <1>3 DEF Default, ThreadOK, TypeOK, Moves, In, At, Creating, Closing, Using,
       Refreshing, clientVars, Locals, Local
  <1>6. (Creating(t) \/ Closing(t))' =>
          (Creating(t) \/ Closing(t)) /\ loc'[t].client = loc[t].client
    BY <1>1, <1>3 DEF Default, Moves, In, At, Creating, Closing, Refreshing, ThreadOK, TypeOK, Locals
  <1>7. \A c1 \in Clients : clientLock[c1] \in Threads \ {t} => clientLock'[c1] = clientLock[c1]
    BY <1>1 DEF Default, TypeOK, ThreadOK, Using, In, At, Refreshing
  <1> QED
    BY <1>3, <1>4, <1>5, <1>6, <1>7, QuietLife DEF Default, Moves, clientVars

LEMMA SetShareLife ==
  ASSUME LifeInv, NEW t \in Threads, SetShare(t)
  PROVE  LifeInv'
  <1> DEFINE l == loc[t].then
             r == [loc[t] EXCEPT !.then = "idle"]
  <1>1. TypeOK /\ LockOwner /\ ThreadOK(t) /\ loc[t] \in Locals
    BY DEF LifeInv, TypeOK
  <1>2. l \in Global \cup Local /\ r \in Locals
    BY <1>1 DEF SetShare, TypeOK, ThreadOK, Locals, Local, Global, Refreshing, At
  <1>3. Moves(t, l, r)
    BY <1>1, <1>2, GoMoves DEF SetShare
  <1>4. TypeOK' /\ LockOwner'
    <2>1. perClient' \in Nat
      BY <1>1, ShareTyped DEF SetShare, TypeOK
    <2>2. TypeOK'
      BY <1>1, <1>3, <2>1 DEF SetShare, TypeOK, Moves, clientVars
    <2>3. clientsLock = t /\ clientsLock' = Nobody /\ l \in {"hook", "read", "free"}
      BY <1>1 DEF SetShare, LockOwner, ThreadOK, At, Global, Refreshing
    <2>4. LockOwner'
      BY <1>1, <1>3, <2>3 DEF LockOwner, Moves, Global, Refreshing
    <2> QED
      BY <2>2, <2>4
  <1>5. ThreadOK(t)'
    BY <1>1, <1>3 DEF SetShare, ThreadOK, TypeOK, Moves, In, At, Creating, Closing, Using,
       Refreshing, clientVars, Locals, Local
  <1>6. (Creating(t) \/ Closing(t))' =>
          (Creating(t) \/ Closing(t)) /\ loc'[t].client = loc[t].client
    BY <1>1, <1>3 DEF SetShare, Moves, In, At, Creating, Closing, Refreshing, ThreadOK, TypeOK, Locals
  <1>7. \A c1 \in Clients : clientLock[c1] \in Threads \ {t} => clientLock'[c1] = clientLock[c1]
    BY <1>1 DEF SetShare, TypeOK, ThreadOK, Using, In, At, Refreshing
  <1> QED
    BY <1>3, <1>4, <1>5, <1>6, <1>7, QuietLife DEF SetShare, Moves, clientVars

LEMMA UseLife ==
  ASSUME LifeInv, NEW t \in Threads, NEW c \in Clients, Use(t, c)
  PROVE  LifeInv'
  <1> DEFINE l == "size"
             r == On(c)
  <1>1. TypeOK /\ LockOwner /\ ThreadOK(t) /\ loc[t] \in Locals
    BY DEF LifeInv, TypeOK
  <1>2. l \in Global \cup Local /\ r \in Locals
    BY <1>1, RestTyped DEF Use, TypeOK, ThreadOK, Locals, Local, Global, Refreshing, At, Call, Rest, On
  <1>3. Moves(t, l, r)
    BY <1>1, <1>2, GoMoves DEF Use
  <1>4. TypeOK' /\ LockOwner'
    BY <1>1, <1>3 DEF Use, TypeOK, LockOwner, Moves, At, Call, Global, Refreshing,
       sizeVars, clientVars, Local
  <1>5. ThreadOK(t)'
    BY <1>1, <1>3, RestTyped DEF Use, ThreadOK, TypeOK, Moves, In, At, Call, Creating, Closing, Using,
       Refreshing, clientVars, Locals, Local
  <1>6. (Creating(t) \/ Closing(t))' =>
          (Creating(t) \/ Closing(t)) /\ loc'[t].client = loc[t].client
    BY <1>1, <1>3 DEF Use, Moves, In, At, Call, Creating, Closing, Refreshing, ThreadOK, TypeOK, Locals
  <1>7. \A c1 \in Clients : clientLock[c1] \in Threads \ {t} => clientLock'[c1] = clientLock[c1]
    BY <1>1 DEF Use, TypeOK, ThreadOK, Using, In, At, Call, Refreshing
  <1> QED
    BY <1>3, <1>4, <1>5, <1>6, <1>7, QuietLife DEF Use, Moves, clientVars

LEMMA ReadSizeLife ==
  ASSUME LifeInv, NEW t \in Threads, ReadSize(t)
  PROVE  LifeInv'
  <1> DEFINE l == "compare"
             r == [loc[t] EXCEPT !.seen = cacheSize]
  <1>1. TypeOK /\ LockOwner /\ ThreadOK(t) /\ loc[t] \in Locals
    BY DEF LifeInv, TypeOK
  <1>2. l \in Global \cup Local /\ r \in Locals
    BY <1>1 DEF ReadSize, TypeOK, ThreadOK, Locals, Local, Global, Refreshing, At
  <1>3. Moves(t, l, r)
    BY <1>1, <1>2, GoMoves DEF ReadSize
  <1>4. TypeOK' /\ LockOwner'
    BY <1>1, <1>3 DEF ReadSize, TypeOK, LockOwner, Moves, At, Global, Refreshing,
       sizeVars, clientVars, Local
  <1>5. ThreadOK(t)'
    BY <1>1, <1>3 DEF ReadSize, ThreadOK, TypeOK, Moves, In, At, Creating, Closing, Using,
       Refreshing, clientVars, Locals, Local
  <1>6. (Creating(t) \/ Closing(t))' =>
          (Creating(t) \/ Closing(t)) /\ loc'[t].client = loc[t].client
    BY <1>1, <1>3 DEF ReadSize, Moves, In, At, Creating, Closing, Refreshing, ThreadOK, TypeOK, Locals
  <1>7. \A c1 \in Clients : clientLock[c1] \in Threads \ {t} => clientLock'[c1] = clientLock[c1]
    BY <1>1 DEF ReadSize, TypeOK, ThreadOK, Using, In, At, Refreshing
  <1> QED
    BY <1>3, <1>4, <1>5, <1>6, <1>7, QuietLife DEF ReadSize, Moves, clientVars

LEMMA CompareLife ==
  ASSUME LifeInv, NEW t \in Threads, Compare(t)
  PROVE  LifeInv'
  <1> DEFINE l == IF Outdated(loc[t].seen) THEN "want" ELSE "read"
             r == loc[t]
  <1>1. TypeOK /\ LockOwner /\ ThreadOK(t) /\ loc[t] \in Locals
    BY DEF LifeInv, TypeOK
  <1>2. l \in Global \cup Local /\ r \in Locals
    BY <1>1 DEF Compare, TypeOK, ThreadOK, Locals, Local, Global, Refreshing, At
  <1>3. Moves(t, l, r)
    BY <1>1, <1>2, GoMoves DEF Compare
  <1>4. TypeOK' /\ LockOwner'
    BY <1>1, <1>3 DEF Compare, TypeOK, LockOwner, Moves, At, Global, Refreshing,
       sizeVars, clientVars, Local
  <1>5. ThreadOK(t)'
    BY <1>1, <1>3 DEF Compare, ThreadOK, TypeOK, Moves, In, At, Creating, Closing, Using,
       Refreshing, clientVars, Locals, Local
  <1>6. (Creating(t) \/ Closing(t))' =>
          (Creating(t) \/ Closing(t)) /\ loc'[t].client = loc[t].client
    BY <1>1, <1>3 DEF Compare, Moves, In, At, Creating, Closing, Refreshing, ThreadOK, TypeOK, Locals
  <1>7. \A c1 \in Clients : clientLock[c1] \in Threads \ {t} => clientLock'[c1] = clientLock[c1]
    BY <1>1 DEF Compare, TypeOK, ThreadOK, Using, In, At, Refreshing
  <1> QED
    BY <1>3, <1>4, <1>5, <1>6, <1>7, QuietLife DEF Compare, Moves, clientVars

LEMMA WantLife ==
  ASSUME LifeInv, NEW t \in Threads, Want(t)
  PROVE  LifeInv'
  <1> DEFINE l == "latch"
             r == [loc[t] EXCEPT !.then = "read"]
  <1>1. TypeOK /\ LockOwner /\ ThreadOK(t) /\ loc[t] \in Locals
    BY DEF LifeInv, TypeOK
  <1>2. l \in Global \cup Local /\ r \in Locals
    BY <1>1 DEF Want, TypeOK, ThreadOK, Locals, Local, Global, Refreshing, At
  <1>3. Moves(t, l, r)
    BY <1>1, <1>2, GoMoves DEF Want
  <1>4. TypeOK' /\ LockOwner'
    BY <1>1, <1>3 DEF Want, TypeOK, LockOwner, Moves, Acquire, At, Global, Refreshing,
       sizeVars, clientVars, Local
  <1>5. ThreadOK(t)'
    BY <1>1, <1>3 DEF Want, ThreadOK, TypeOK, Moves, In, At, Creating, Closing, Using,
       Refreshing, clientVars, Locals, Local
  <1>6. (Creating(t) \/ Closing(t))' =>
          (Creating(t) \/ Closing(t)) /\ loc'[t].client = loc[t].client
    BY <1>1, <1>3 DEF Want, Moves, In, At, Creating, Closing, Refreshing, ThreadOK, TypeOK, Locals
  <1>7. \A c1 \in Clients : clientLock[c1] \in Threads \ {t} => clientLock'[c1] = clientLock[c1]
    BY <1>1 DEF Want, TypeOK, ThreadOK, Using, In, At, Refreshing
  <1> QED
    BY <1>3, <1>4, <1>5, <1>6, <1>7, QuietLife DEF Want, Moves, clientVars

LEMMA ReadLimitLife ==
  ASSUME LifeInv, NEW t \in Threads, ReadLimit(t)
  PROVE  LifeInv'
  <1> DEFINE l == "idle"
             r == Rest
  <1>1. TypeOK /\ LockOwner /\ ThreadOK(t) /\ loc[t] \in Locals
    BY DEF LifeInv, TypeOK
  <1>2. l \in Global \cup Local /\ r \in Locals
    BY <1>1, RestTyped DEF ReadLimit, TypeOK, ThreadOK, Locals, Local, Global, Refreshing, At, Rest, On
  <1>3. Moves(t, l, r)
    BY <1>1, <1>2, GoMoves DEF ReadLimit, Return
  <1>4. TypeOK' /\ LockOwner'
    BY <1>1, <1>3 DEF ReadLimit, TypeOK, LockOwner, Moves, At, Global, Refreshing,
       sizeVars, clientVars, Local
  <1>5. ThreadOK(t)'
    BY <1>1, <1>3, RestTyped DEF ReadLimit, ThreadOK, TypeOK, Moves, In, At, Creating, Closing, Using,
       Refreshing, clientVars, Locals, Local
  <1>6. (Creating(t) \/ Closing(t))' =>
          (Creating(t) \/ Closing(t)) /\ loc'[t].client = loc[t].client
    BY <1>1, <1>3 DEF ReadLimit, Moves, In, At, Creating, Closing, Refreshing, ThreadOK, TypeOK, Locals
  <1>7. \A c1 \in Clients : clientLock[c1] \in Threads \ {t} => clientLock'[c1] = clientLock[c1]
    BY <1>1 DEF ReadLimit, TypeOK, ThreadOK, Using, In, At, Refreshing
  <1> QED
    BY <1>3, <1>4, <1>5, <1>6, <1>7, QuietLife DEF ReadLimit, Moves, clientVars

LEMMA AgeLife ==
  ASSUME LifeInv, NEW t \in Threads, Age(t)
  PROVE  LifeInv'
  <1> DEFINE l == "walk"
             r == [Rest EXCEPT !.walk = listed]
  <1>1. TypeOK /\ LockOwner /\ ThreadOK(t) /\ loc[t] \in Locals
    BY DEF LifeInv, TypeOK
  <1>2. l \in Global \cup Local /\ r \in Locals
    BY <1>1, RestTyped DEF Age, TypeOK, ThreadOK, Locals, Local, Global, Refreshing, At, Call, Rest, On
  <1>3. Moves(t, l, r)
    BY <1>1, <1>2, GoMoves DEF Age
  <1>4. TypeOK' /\ LockOwner'
    BY <1>1, <1>3 DEF Age, TypeOK, LockOwner, Moves, Acquire, At, Call, Global, Refreshing,
       sizeVars, clientVars, Local
  <1>5. ThreadOK(t)'
    BY <1>1, <1>3, RestTyped DEF Age, ThreadOK, TypeOK, Moves, In, At, Call, Creating, Closing, Using,
       Refreshing, clientVars, Locals, Local
  <1>6. (Creating(t) \/ Closing(t))' =>
          (Creating(t) \/ Closing(t)) /\ loc'[t].client = loc[t].client
    BY <1>1, <1>3 DEF Age, Moves, In, At, Call, Creating, Closing, Refreshing, ThreadOK, TypeOK, Locals
  <1>7. \A c1 \in Clients : clientLock[c1] \in Threads \ {t} => clientLock'[c1] = clientLock[c1]
    BY <1>1 DEF Age, TypeOK, ThreadOK, Using, In, At, Call, Refreshing
  <1> QED
    BY <1>3, <1>4, <1>5, <1>6, <1>7, QuietLife DEF Age, Moves, clientVars

LEMMA AgeEvictLife ==
  ASSUME LifeInv, NEW t \in Threads, AgeEvict(t)
  PROVE  LifeInv'
  <1> DEFINE l == "walk"
             r == [loc[t] EXCEPT !.client = NoClient]
  <1>1. TypeOK /\ LockOwner /\ ThreadOK(t) /\ loc[t] \in Locals
    BY DEF LifeInv, TypeOK
  <1>2. l \in Global \cup Local /\ r \in Locals
    BY <1>1 DEF AgeEvict, TypeOK, ThreadOK, Locals, Local, Global, Refreshing, At
  <1>3. Moves(t, l, r)
    BY <1>1, <1>2, GoMoves DEF AgeEvict
  <1>4. TypeOK' /\ LockOwner'
    BY <1>1, <1>3 DEF AgeEvict, TypeOK, LockOwner, Moves, At, Global, Refreshing,
       sizeVars, clientVars, Local
  <1>5. ThreadOK(t)'
    BY <1>1, <1>3 DEF AgeEvict, ThreadOK, TypeOK, Moves, In, At, Creating, Closing, Using,
       Refreshing, clientVars, Locals, Local
  <1>6. (Creating(t) \/ Closing(t))' =>
          (Creating(t) \/ Closing(t)) /\ loc'[t].client = loc[t].client
    BY <1>1, <1>3 DEF AgeEvict, Moves, In, At, Creating, Closing, Refreshing, ThreadOK, TypeOK, Locals
  <1>7. \A c1 \in Clients : clientLock[c1] \in Threads \ {t} => clientLock'[c1] = clientLock[c1]
    BY <1>1 DEF AgeEvict, TypeOK, ThreadOK, Using, In, At, Refreshing
  <1> QED
    BY <1>3, <1>4, <1>5, <1>6, <1>7, QuietLife DEF AgeEvict, Moves, clientVars

LEMMA ScanLife ==
  ASSUME LifeInv, NEW t \in Threads, NEW c \in Clients, NEW w \in Work, Scan(t, c, w)
  PROVE  LifeInv'
  <1> DEFINE l == "scan"
             r == [On(c) EXCEPT !.waits = (w = "scan_fs")]
  <1>1. TypeOK /\ LockOwner /\ ThreadOK(t) /\ loc[t] \in Locals
    BY DEF LifeInv, TypeOK
  <1>2. l \in Global \cup Local /\ r \in Locals
    BY <1>1, RestTyped DEF Scan, TypeOK, ThreadOK, Locals, Local, Global, Refreshing, At, Call, Rest, On
  <1>3. Moves(t, l, r)
    BY <1>1, <1>2, GoMoves DEF Scan
  <1>4. TypeOK' /\ LockOwner'
    BY <1>1, <1>3 DEF Scan, TypeOK, LockOwner, Moves, At, Call, Global, Refreshing,
       sizeVars, clientVars, Local
  <1>5. ThreadOK(t)'
    BY <1>1, <1>3, RestTyped DEF Scan, ThreadOK, TypeOK, Moves, In, At, Call, Creating, Closing, Using,
       Refreshing, clientVars, Locals, Local
  <1>6. (Creating(t) \/ Closing(t))' =>
          (Creating(t) \/ Closing(t)) /\ loc'[t].client = loc[t].client
    BY <1>1, <1>3 DEF Scan, Moves, In, At, Call, Creating, Closing, Refreshing, ThreadOK, TypeOK, Locals
  <1>7. \A c1 \in Clients : clientLock[c1] \in Threads \ {t} => clientLock'[c1] = clientLock[c1]
    BY <1>1 DEF Scan, TypeOK, ThreadOK, Using, In, At, Call, Refreshing
  <1> QED
    BY <1>3, <1>4, <1>5, <1>6, <1>7, QuietLife DEF Scan, Moves, clientVars

LEMMA ScanDoneLife ==
  ASSUME LifeInv, NEW t \in Threads, ScanDone(t)
  PROVE  LifeInv'
  <1> DEFINE l == "idle"
             r == Rest
  <1>1. TypeOK /\ LockOwner /\ ThreadOK(t) /\ loc[t] \in Locals
    BY DEF LifeInv, TypeOK
  <1>2. l \in Global \cup Local /\ r \in Locals
    BY <1>1, RestTyped DEF ScanDone, TypeOK, ThreadOK, Locals, Local, Global, Refreshing, At, Rest, On
  <1>3. Moves(t, l, r)
    BY <1>1, <1>2, GoMoves DEF ScanDone, Return
  <1>4. TypeOK' /\ LockOwner'
    BY <1>1, <1>3 DEF ScanDone, TypeOK, LockOwner, Moves, At, Global, Refreshing,
       sizeVars, clientVars, Local
  <1>5. ThreadOK(t)'
    BY <1>1, <1>3, RestTyped DEF ScanDone, ThreadOK, TypeOK, Moves, In, At, Creating, Closing, Using,
       Refreshing, clientVars, Locals, Local
  <1>6. (Creating(t) \/ Closing(t))' =>
          (Creating(t) \/ Closing(t)) /\ loc'[t].client = loc[t].client
    BY <1>1, <1>3 DEF ScanDone, Moves, In, At, Creating, Closing, Refreshing, ThreadOK, TypeOK, Locals
  <1>7. \A c1 \in Clients : clientLock[c1] \in Threads \ {t} => clientLock'[c1] = clientLock[c1]
    BY <1>1 DEF ScanDone, TypeOK, ThreadOK, Using, In, At, Refreshing
  <1> QED
    BY <1>3, <1>4, <1>5, <1>6, <1>7, QuietLife DEF ScanDone, Moves, clientVars

LEMMA AgeNextLife ==
  ASSUME LifeInv, NEW t \in Threads, AgeNext(t)
  PROVE  LifeInv'
  <1>1. TypeOK /\ LockOwner /\ ThreadOK(t) /\ loc[t] \in Locals /\ clientsLock = t
    BY DEF LifeInv, TypeOK, LockOwner, AgeNext, At, Global
  <1>2. ~(Creating(t) \/ Closing(t))
    BY DEF AgeNext, At, Creating, Closing, In, Refreshing
  <1>3. CASE loc[t].walk = {} /\ clientsLock' = Nobody /\ Return(t)
    <2>1. Moves(t, "idle", Rest)
      BY <1>1, <1>3, GoMoves, RestTyped DEF Return, Local
    <2>2. TypeOK' /\ LockOwner'
      BY <1>1, <1>3, <2>1 DEF AgeNext, TypeOK, LockOwner, Moves, Global, Refreshing, sizeVars, clientVars
    <2>3. ThreadOK(t)' /\ ~(Creating(t) \/ Closing(t))'
      BY <2>1, RestTyped DEF ThreadOK, Moves, In, At, Creating, Closing, Using, Refreshing
    <2> QED
      BY <2>1, <2>2, <2>3, QuietLife DEF AgeNext, Moves
  <1>4. ASSUME NEW c \in loc[t].walk, UNCHANGED clientsLock,
               Go(t, "evict", [loc[t] EXCEPT !.client = c, !.walk = @ \ {c}])
        PROVE  LifeInv'
    <2> DEFINE r == [loc[t] EXCEPT !.client = c, !.walk = @ \ {c}]
    <2>1. c \in Clients /\ c \in listed
      BY <1>1 DEF ThreadOK, TypeOK
    <2>2. r \in Locals /\ r.client = c /\ r.walk \subseteq loc[t].walk
      BY <1>1, <2>1 DEF Locals
    <2>3. Moves(t, "evict", r)
      BY <1>1, <1>4, <2>2, GoMoves DEF Global
    <2>4. TypeOK' /\ LockOwner'
      BY <1>1, <1>4, <2>3 DEF AgeNext, TypeOK, LockOwner, Moves, At, Global, Refreshing, sizeVars, clientVars
    <2>5. ThreadOK(t)' /\ ~(Creating(t) \/ Closing(t))'
      BY <1>1, <2>1, <2>2, <2>3 DEF AgeNext, clientVars, ThreadOK, Moves, In, At, Creating, Closing, Using, Refreshing
    <2> QED
      BY <2>3, <2>4, <2>5, QuietLife DEF AgeNext, Moves
  <1> QED
    BY <1>3, <1>4 DEF AgeNext

-----------------------------------------------------------------------------
(* The steps that change a client.                                         *)

\* Who works on a client that is there no longer, or that another thread
\* brings up or takes down?  Nobody, or the age worker and the shrinker.
LEMMA Alive ==
  ASSUME LifeInv, NEW u \in Threads, NEW c \in Clients, life[c] = "none"
  PROVE  loc[u].client # c /\ c \notin loc[u].walk
  <1>1. ThreadOK(u) /\ ClientOK(c) /\ pc[u] \in Global \cup Local /\ c # NoClient
    BY DEF LifeInv, TypeOK
  <1> QED
    BY <1>1 DEF ThreadOK, ClientOK, In, At, Creating, Closing, Using, Refreshing, Global, Local

LEMMA Sole ==
  ASSUME LifeInv, NEW t \in Threads, Creating(t) \/ Closing(t),
         NEW u \in Threads \ {t}, loc[u].client = loc[t].client
  PROVE  /\ pc[u] \in {"scan", "evict"}
         /\ ~(Creating(u) \/ Closing(u)) /\ ~Using(u)
         /\ At(u, "scan") => loc[t].client \in hooked
         /\ At(u, "evict") => loc[t].client \in listed /\ clientsLock = u
  <1>1. /\ ThreadOK(t) /\ ThreadOK(u) /\ OneKeeper /\ LockOwner
        /\ pc[u] \in Global \cup Local /\ pc[t] \in Global \cup Local
    BY DEF LifeInv, TypeOK
  <1>2. ~(Creating(u) \/ Closing(u))
    BY <1>1 DEF OneKeeper
  <1>3. life[loc[t].client] \in {"creating", "closing"} /\ loc[t].client # NoClient
    BY <1>1 DEF ThreadOK, Creating, Closing, In, Refreshing
  <1>4. ~Using(u) /\ pc[u] \notin {"idle", "walk"}
    BY <1>1, <1>3 DEF ThreadOK
  <1>5. pc[u] \in {"scan", "evict"}
    BY <1>1, <1>2, <1>4 DEF ThreadOK, In, Creating, Closing, Using, Refreshing, Global, Local
  <1> QED
    BY <1>1, <1>2, <1>4, <1>5 DEF ThreadOK, LockOwner, At, Global

\* A step of t that changes what is kept about client d.
LEMMA BusyLife ==
  ASSUME LifeInv, NEW t \in Threads, NEW d \in Clients,
         TypeOK', LockOwner', CountOK', ThreadOK(t)', OneKeeper', ClientOK(d)',
         \A u \in Threads \ {t} : pc'[u] = pc[u] /\ loc'[u] = loc[u],
         \A u \in Threads \ {t} : /\ loc[u].client = d => ThreadOK(u)'
                                  /\ d \in loc[u].walk => d \in listed',
         \A c \in Clients \ {d} : /\ life'[c] = life[c]
                                  /\ c \in listed' <=> c \in listed
                                  /\ c \in hooked' <=> c \in hooked,
         UNCHANGED clientLock
  PROVE  LifeInv'
  <1>1. ASSUME NEW u \in Threads \ {t} PROVE ThreadOK(u)'
    <2>1. ThreadOK(u) /\ loc[u].client \in Clients \cup {NoClient} /\ loc[u].walk \subseteq Clients
      BY DEF LifeInv, TypeOK, Locals
    <2>2. loc[u].walk \subseteq listed'
      BY <2>1 DEF ThreadOK
    <2>3. CASE loc[u].client # d
      BY <2>1, <2>2, <2>3
         DEF ThreadOK, In, At, Creating, Closing, Using, Refreshing, Global, Local
    <2> QED
      BY <2>3
  <1>2. ASSUME NEW c \in Clients \ {d} PROVE ClientOK(c)'
    BY DEF LifeInv, ClientOK
  <1> QED
    BY <1>1, <1>2 DEF LifeInv

\* The number of clients goes with the list.
LEMMA Counted ==
  ASSUME TypeOK, CountOK, NEW c \in Clients
  PROVE  /\ IsFiniteSet(listed)
         /\ c \notin listed => Cardinality(listed \cup {c}) = count + 1
         /\ c \in listed => /\ Cardinality(listed \ {c}) = count - 1
                            /\ count - 1 \in Nat
  <1>1. IsFiniteSet(listed) /\ Cardinality(listed) \in Nat
    BY FS_Subset, FS_CardinalityType DEF TypeOK
  <1>2. c \notin listed => Cardinality(listed \cup {c}) = count + 1
    BY <1>1, FS_AddElement DEF CountOK
  <1>3. c \in listed => Cardinality(listed \ {c}) = count - 1
    BY <1>1, FS_RemoveElement DEF CountOK
  <1>4. IsFiniteSet(listed \ {c}) => Cardinality(listed \ {c}) \in Nat
    BY FS_CardinalityType
  <1>5. IsFiniteSet(listed \ {c})
    BY <1>1, FS_Subset
  <1> QED
    BY <1>1, <1>2, <1>3, <1>4, <1>5

LEMMA CreateLife ==
  ASSUME LifeInv, NEW t \in Threads, NEW d \in Clients, Create(t, d)
  PROVE  LifeInv'
  <1> DEFINE l == "reserve"
             r == On(d)
  <1>1. TypeOK /\ LockOwner /\ CountOK /\ OneKeeper /\ ThreadOK(t) /\ loc[t] \in Locals
    BY DEF LifeInv, TypeOK
  <1>2. d \in Clients /\ ClientOK(d)
    BY <1>1 DEF Create, LifeInv, ThreadOK, TypeOK, Locals, At, Call, Creating, Closing, In
  <1>3. Moves(t, l, r)
    <2>1. l \in Global \cup Local /\ r \in Locals
      BY <1>1, <1>2, RestTyped DEF Locals, Local, Global, Refreshing
    <2> QED
      BY <1>1, <2>1, GoMoves DEF Create
  <1>4. TypeOK' /\ CountOK'
    BY <1>1, <1>2, <1>3, Counted DEF Create, TypeOK, CountOK, ThreadOK, Moves, At, sizeVars
  <1>5. LockOwner'
    BY <1>1, <1>3 DEF Create, LockOwner, Moves, At, Call, Global, Refreshing
  <1>6. ThreadOK(t)' /\ ClientOK(d)'
    <2>1. ThreadOK(t)'
      BY <1>1, <1>2, <1>3, RestTyped DEF Create, ThreadOK, ClientOK, TypeOK, Moves, In, At, Call,
         Creating, Closing, Using, Refreshing
    <2>2. ClientOK(d)'
      BY <1>1, <1>2 DEF Create, ThreadOK, ClientOK, TypeOK, In, At, Call, Refreshing
    <2> QED
      BY <2>1, <2>2
  <1>7. ASSUME NEW u \in Threads \ {t}
        PROVE  /\ loc[u].client = d => /\ ThreadOK(u)'
                                      /\ ~(Creating(u) \/ Closing(u))
               /\ d \in loc[u].walk => d \in listed'
    <2>1. ThreadOK(u) /\ pc[u] \in Global \cup Local
      BY DEF LifeInv, TypeOK
    <2> QED
      BY <2>1, Alive DEF Create
  <1>8. OneKeeper'
    <2>1. loc'[t].client \in {d, NoClient} /\ (loc'[t].client = NoClient => pc'[t] = "idle")
      BY <1>1, <1>2, <1>3, RestTyped DEF Moves, Locals
    <2>2. ASSUME NEW u \in Threads \ {t}, (Creating(u) \/ Closing(u))'
          PROVE  loc'[u].client # d
      BY <1>3, <1>7, <2>2 DEF Moves, Creating, Closing, In
    <2>3. ~ (pc'[t] = "idle" /\ (Creating(t) \/ Closing(t))')
      BY DEF Creating, Closing, In, Refreshing
    <2>4. ASSUME NEW u \in Threads \ {t}, NEW v \in Threads \ {t},
                 (Creating(u) \/ Closing(u))', (Creating(v) \/ Closing(v))',
                 loc'[u].client = loc'[v].client
          PROVE  u = v
      BY <1>1, <1>3, <2>4 DEF OneKeeper, Moves, Creating, Closing, In
    <2> QED
      BY <2>1, <2>2, <2>3, <2>4 DEF OneKeeper
  <1>9. /\ UNCHANGED clientLock
        /\ \A c1 \in Clients \ {d} :
             /\ life'[c1] = life[c1]
             /\ c1 \in listed' <=> c1 \in listed
             /\ c1 \in hooked' <=> c1 \in hooked
    BY <1>1, <1>2 DEF Create, TypeOK
  <1> QED
    BY <1>2, <1>3, <1>4, <1>5, <1>6, <1>7, <1>8, <1>9, BusyLife DEF Moves

LEMMA RegisterLife ==
  ASSUME LifeInv, NEW t \in Threads, NEW d \in Clients, loc[t].client = d, Register(t)
  PROVE  LifeInv'
  <1> DEFINE l == "latch"
             r == [loc[t] EXCEPT !.then = "hook"]
  <1>1. TypeOK /\ LockOwner /\ CountOK /\ OneKeeper /\ ThreadOK(t) /\ loc[t] \in Locals
    BY DEF LifeInv, TypeOK
  <1>2. Creating(t) /\ d \in Clients /\ ClientOK(d)
    BY <1>1 DEF Register, LifeInv, ThreadOK, TypeOK, Locals, At, Creating, Closing, In
  <1>3. Moves(t, l, r)
    <2>1. l \in Global \cup Local /\ r \in Locals
      BY <1>1, <1>2 DEF Locals, Local, Global, Refreshing
    <2> QED
      BY <1>1, <2>1, GoMoves DEF Register
  <1>4. TypeOK' /\ CountOK'
    BY <1>1, <1>2, <1>3, Counted DEF Register, TypeOK, CountOK, ThreadOK, Moves, Acquire, At, sizeVars
  <1>5. LockOwner'
    BY <1>1, <1>3 DEF Register, LockOwner, Moves, Acquire, At, Global, Refreshing
  <1>6. ThreadOK(t)' /\ ClientOK(d)'
    <2>1. ThreadOK(t)'
      BY <1>1, <1>2, <1>3 DEF Register, ThreadOK, ClientOK, TypeOK, Moves, In, At,
         Creating, Closing, Using, Refreshing
    <2>2. ClientOK(d)'
      BY <1>1, <1>2 DEF Register, ThreadOK, ClientOK, TypeOK, In, At, Refreshing
    <2> QED
      BY <2>1, <2>2
  <1>7. ASSUME NEW u \in Threads \ {t}
        PROVE  /\ loc[u].client = d => /\ ThreadOK(u)'
                                      /\ ~(Creating(u) \/ Closing(u))
               /\ d \in loc[u].walk => d \in listed'
    <2>1. ThreadOK(u) /\ pc[u] \in Global \cup Local
      BY DEF LifeInv, TypeOK
    <2>2. loc[u].client = d => ThreadOK(u)' /\ ~(Creating(u) \/ Closing(u))
      BY <1>1, <1>2, <1>3, <2>1, Sole DEF Register, ThreadOK, Moves, In, At, Creating, Closing, Using,
         Refreshing, Acquire
    <2> QED
      BY <1>1, <2>1, <2>2 DEF Register, ThreadOK, LockOwner, Acquire, Global, At
  <1>8. OneKeeper'
    <2>1. loc'[t].client \in {d, NoClient} /\ (loc'[t].client = NoClient => pc'[t] = "idle")
      BY <1>1, <1>2, <1>3 DEF Moves, Locals
    <2>2. ASSUME NEW u \in Threads \ {t}, (Creating(u) \/ Closing(u))'
          PROVE  loc'[u].client # d
      BY <1>3, <1>7, <2>2 DEF Moves, Creating, Closing, In
    <2>3. ~ (pc'[t] = "idle" /\ (Creating(t) \/ Closing(t))')
      BY DEF Creating, Closing, In, Refreshing
    <2>4. ASSUME NEW u \in Threads \ {t}, NEW v \in Threads \ {t},
                 (Creating(u) \/ Closing(u))', (Creating(v) \/ Closing(v))',
                 loc'[u].client = loc'[v].client
          PROVE  u = v
      BY <1>1, <1>3, <2>4 DEF OneKeeper, Moves, Creating, Closing, In
    <2> QED
      BY <2>1, <2>2, <2>3, <2>4 DEF OneKeeper
  <1>9. /\ UNCHANGED clientLock
        /\ \A c1 \in Clients \ {d} :
             /\ life'[c1] = life[c1]
             /\ c1 \in listed' <=> c1 \in listed
             /\ c1 \in hooked' <=> c1 \in hooked
    BY <1>1, <1>2 DEF Register, TypeOK
  <1> QED
    BY <1>2, <1>3, <1>4, <1>5, <1>6, <1>7, <1>8, <1>9, BusyLife DEF Moves

LEMMA HookLife ==
  ASSUME LifeInv, NEW t \in Threads, NEW d \in Clients, loc[t].client = d, Hook(t)
  PROVE  LifeInv'
  <1> DEFINE l == "idle"
             r == Rest
  <1>1. TypeOK /\ LockOwner /\ CountOK /\ OneKeeper /\ ThreadOK(t) /\ loc[t] \in Locals
    BY DEF LifeInv, TypeOK
  <1>2. Creating(t) /\ d \in Clients /\ ClientOK(d)
    BY <1>1 DEF Hook, LifeInv, ThreadOK, TypeOK, Locals, At, Creating, Closing, In
  <1>3. Moves(t, l, r)
    <2>1. l \in Global \cup Local /\ r \in Locals
      BY <1>1, <1>2, RestTyped DEF Locals, Local, Global, Refreshing
    <2> QED
      BY <1>1, <2>1, GoMoves DEF Hook, Return
  <1>4. TypeOK' /\ CountOK'
    BY <1>1, <1>2, <1>3, Counted DEF Hook, TypeOK, CountOK, ThreadOK, Moves, At, sizeVars
  <1>5. LockOwner'
    BY <1>1, <1>3 DEF Hook, LockOwner, Moves, At, Global, Refreshing
  <1>6. ThreadOK(t)' /\ ClientOK(d)'
    <2>1. ThreadOK(t)'
      BY <1>1, <1>2, <1>3, RestTyped DEF Hook, ThreadOK, ClientOK, TypeOK, Moves, In, At,
         Creating, Closing, Using, Refreshing
    <2>2. ClientOK(d)'
      BY <1>1, <1>2 DEF Hook, ThreadOK, ClientOK, TypeOK, In, At, Refreshing
    <2> QED
      BY <2>1, <2>2
  <1>7. ASSUME NEW u \in Threads \ {t}
        PROVE  /\ loc[u].client = d => /\ ThreadOK(u)'
                                      /\ ~(Creating(u) \/ Closing(u))
               /\ d \in loc[u].walk => d \in listed'
    <2>1. ThreadOK(u) /\ pc[u] \in Global \cup Local
      BY DEF LifeInv, TypeOK
    <2>2. loc[u].client = d => ThreadOK(u)' /\ ~(Creating(u) \/ Closing(u))
      BY <1>1, <1>2, <1>3, <2>1, Sole DEF Hook, ThreadOK, Moves, In, At, Creating, Closing, Using,
         Refreshing
    <2> QED
      BY <1>1, <2>1, <2>2 DEF Hook, ThreadOK, LockOwner, Global, At
  <1>8. OneKeeper'
    <2>1. loc'[t].client \in {d, NoClient} /\ (loc'[t].client = NoClient => pc'[t] = "idle")
      BY <1>1, <1>2, <1>3, RestTyped DEF Moves, Locals
    <2>2. ASSUME NEW u \in Threads \ {t}, (Creating(u) \/ Closing(u))'
          PROVE  loc'[u].client # d
      BY <1>3, <1>7, <2>2 DEF Moves, Creating, Closing, In
    <2>3. ~ (pc'[t] = "idle" /\ (Creating(t) \/ Closing(t))')
      BY DEF Creating, Closing, In, Refreshing
    <2>4. ASSUME NEW u \in Threads \ {t}, NEW v \in Threads \ {t},
                 (Creating(u) \/ Closing(u))', (Creating(v) \/ Closing(v))',
                 loc'[u].client = loc'[v].client
          PROVE  u = v
      BY <1>1, <1>3, <2>4 DEF OneKeeper, Moves, Creating, Closing, In
    <2> QED
      BY <2>1, <2>2, <2>3, <2>4 DEF OneKeeper
  <1>9. /\ UNCHANGED clientLock
        /\ \A c1 \in Clients \ {d} :
             /\ life'[c1] = life[c1]
             /\ c1 \in listed' <=> c1 \in listed
             /\ c1 \in hooked' <=> c1 \in hooked
    BY <1>1, <1>2 DEF Hook, TypeOK
  <1> QED
    BY <1>2, <1>3, <1>4, <1>5, <1>6, <1>7, <1>8, <1>9, BusyLife DEF Moves

LEMMA DestroyLife ==
  ASSUME LifeInv, NEW t \in Threads, NEW d \in Clients, Destroy(t, d)
  PROVE  LifeInv'
  <1> DEFINE l == "unhook"
             r == On(d)
  <1>1. TypeOK /\ LockOwner /\ CountOK /\ OneKeeper /\ ThreadOK(t) /\ loc[t] \in Locals
    BY DEF LifeInv, TypeOK
  <1>2. d \in Clients /\ ClientOK(d)
    BY <1>1 DEF Destroy, LifeInv, ThreadOK, TypeOK, Locals, At, Call, Creating, Closing, In
  <1>3. Moves(t, l, r)
    <2>1. l \in Global \cup Local /\ r \in Locals
      BY <1>1, <1>2, RestTyped DEF Locals, Local, Global, Refreshing
    <2> QED
      BY <1>1, <2>1, GoMoves DEF Destroy
  <1>4. TypeOK' /\ CountOK'
    BY <1>1, <1>2, <1>3, Counted DEF Destroy, TypeOK, CountOK, ThreadOK, Moves, At, sizeVars
  <1>5. LockOwner'
    BY <1>1, <1>3 DEF Destroy, LockOwner, Moves, At, Call, Global, Refreshing
  <1>6. ThreadOK(t)' /\ ClientOK(d)'
    <2>1. ThreadOK(t)'
      BY <1>1, <1>2, <1>3, RestTyped DEF Destroy, ThreadOK, ClientOK, TypeOK, Moves, In, At, Call,
         Creating, Closing, Using, Refreshing
    <2>2. ClientOK(d)'
      BY <1>1, <1>2 DEF Destroy, ThreadOK, ClientOK, TypeOK, In, At, Call, Refreshing
    <2> QED
      BY <2>1, <2>2
  <1>7. ASSUME NEW u \in Threads \ {t}
        PROVE  /\ loc[u].client = d => /\ ThreadOK(u)'
                                      /\ ~(Creating(u) \/ Closing(u))
               /\ d \in loc[u].walk => d \in listed'
    <2>1. ThreadOK(u) /\ pc[u] \in Global \cup Local
      BY DEF LifeInv, TypeOK
    <2>2. loc[u].client = d => pc[u] \in {"scan", "evict"}
      BY DEF Destroy, Users
    <2> QED
      BY <1>3, <2>1, <2>2 DEF Destroy, ThreadOK, Moves, In, At, Creating, Closing, Using, Refreshing
  <1>8. OneKeeper'
    <2>1. loc'[t].client \in {d, NoClient} /\ (loc'[t].client = NoClient => pc'[t] = "idle")
      BY <1>1, <1>2, <1>3, RestTyped DEF Moves, Locals
    <2>2. ASSUME NEW u \in Threads \ {t}, (Creating(u) \/ Closing(u))'
          PROVE  loc'[u].client # d
      BY <1>3, <1>7, <2>2 DEF Moves, Creating, Closing, In
    <2>3. ~ (pc'[t] = "idle" /\ (Creating(t) \/ Closing(t))')
      BY DEF Creating, Closing, In, Refreshing
    <2>4. ASSUME NEW u \in Threads \ {t}, NEW v \in Threads \ {t},
                 (Creating(u) \/ Closing(u))', (Creating(v) \/ Closing(v))',
                 loc'[u].client = loc'[v].client
          PROVE  u = v
      BY <1>1, <1>3, <2>4 DEF OneKeeper, Moves, Creating, Closing, In
    <2> QED
      BY <2>1, <2>2, <2>3, <2>4 DEF OneKeeper
  <1>9. /\ UNCHANGED clientLock
        /\ \A c1 \in Clients \ {d} :
             /\ life'[c1] = life[c1]
             /\ c1 \in listed' <=> c1 \in listed
             /\ c1 \in hooked' <=> c1 \in hooked
    BY <1>1, <1>2 DEF Destroy, TypeOK
  <1> QED
    BY <1>2, <1>3, <1>4, <1>5, <1>6, <1>7, <1>8, <1>9, BusyLife DEF Moves

LEMMA UnhookLife ==
  ASSUME LifeInv, NEW t \in Threads, NEW d \in Clients, loc[t].client = d, Unhook(t)
  PROVE  LifeInv'
  <1> DEFINE l == "unlist"
             r == loc[t]
  <1>1. TypeOK /\ LockOwner /\ CountOK /\ OneKeeper /\ ThreadOK(t) /\ loc[t] \in Locals
    BY DEF LifeInv, TypeOK
  <1>2. Closing(t) /\ d \in Clients /\ ClientOK(d)
    BY <1>1 DEF Unhook, LifeInv, ThreadOK, TypeOK, Locals, At, Creating, Closing, In
  <1>3. Moves(t, l, r)
    <2>1. l \in Global \cup Local /\ r \in Locals
      BY <1>1, <1>2 DEF Locals, Local, Global, Refreshing
    <2> QED
      BY <1>1, <2>1, GoMoves DEF Unhook
  <1>4. TypeOK' /\ CountOK'
    BY <1>1, <1>2, <1>3, Counted DEF Unhook, TypeOK, CountOK, ThreadOK, Moves, At, sizeVars
  <1>5. LockOwner'
    BY <1>1, <1>3 DEF Unhook, LockOwner, Moves, At, Global, Refreshing
  <1>6. ThreadOK(t)' /\ ClientOK(d)'
    <2>1. ThreadOK(t)'
      BY <1>1, <1>2, <1>3 DEF Unhook, ThreadOK, ClientOK, TypeOK, Moves, In, At,
         Creating, Closing, Using, Refreshing
    <2>2. ClientOK(d)'
      BY <1>1, <1>2 DEF Unhook, ThreadOK, ClientOK, TypeOK, In, At, Refreshing
    <2> QED
      BY <2>1, <2>2
  <1>7. ASSUME NEW u \in Threads \ {t}
        PROVE  /\ loc[u].client = d => /\ ThreadOK(u)'
                                      /\ ~(Creating(u) \/ Closing(u))
               /\ d \in loc[u].walk => d \in listed'
    <2>1. ThreadOK(u) /\ pc[u] \in Global \cup Local
      BY DEF LifeInv, TypeOK
    <2>2. loc[u].client = d => ThreadOK(u)' /\ ~(Creating(u) \/ Closing(u))
      BY <1>1, <1>2, <1>3, <2>1, Sole DEF Unhook, ThreadOK, Moves, In, At, Creating, Closing, Using,
         Refreshing, ScansOver, Users
    <2> QED
      BY <1>1, <2>1, <2>2 DEF Unhook, ThreadOK, LockOwner, Global, At
  <1>8. OneKeeper'
    <2>1. loc'[t].client \in {d, NoClient} /\ (loc'[t].client = NoClient => pc'[t] = "idle")
      BY <1>1, <1>2, <1>3 DEF Moves, Locals
    <2>2. ASSUME NEW u \in Threads \ {t}, (Creating(u) \/ Closing(u))'
          PROVE  loc'[u].client # d
      BY <1>3, <1>7, <2>2 DEF Moves, Creating, Closing, In
    <2>3. ~ (pc'[t] = "idle" /\ (Creating(t) \/ Closing(t))')
      BY DEF Creating, Closing, In, Refreshing
    <2>4. ASSUME NEW u \in Threads \ {t}, NEW v \in Threads \ {t},
                 (Creating(u) \/ Closing(u))', (Creating(v) \/ Closing(v))',
                 loc'[u].client = loc'[v].client
          PROVE  u = v
      BY <1>1, <1>3, <2>4 DEF OneKeeper, Moves, Creating, Closing, In
    <2> QED
      BY <2>1, <2>2, <2>3, <2>4 DEF OneKeeper
  <1>9. /\ UNCHANGED clientLock
        /\ \A c1 \in Clients \ {d} :
             /\ life'[c1] = life[c1]
             /\ c1 \in listed' <=> c1 \in listed
             /\ c1 \in hooked' <=> c1 \in hooked
    BY <1>1, <1>2 DEF Unhook, TypeOK
  <1> QED
    BY <1>2, <1>3, <1>4, <1>5, <1>6, <1>7, <1>8, <1>9, BusyLife DEF Moves

LEMMA UnlistLife ==
  ASSUME LifeInv, NEW t \in Threads, NEW d \in Clients, loc[t].client = d, Unlist(t)
  PROVE  LifeInv'
  <1> DEFINE l == "latch"
             r == [loc[t] EXCEPT !.then = "free"]
  <1>1. TypeOK /\ LockOwner /\ CountOK /\ OneKeeper /\ ThreadOK(t) /\ loc[t] \in Locals
    BY DEF LifeInv, TypeOK
  <1>2. Closing(t) /\ d \in Clients /\ ClientOK(d)
    BY <1>1 DEF Unlist, LifeInv, ThreadOK, TypeOK, Locals, At, Creating, Closing, In
  <1>3. Moves(t, l, r)
    <2>1. l \in Global \cup Local /\ r \in Locals
      BY <1>1, <1>2 DEF Locals, Local, Global, Refreshing
    <2> QED
      BY <1>1, <2>1, GoMoves DEF Unlist
  <1>4. TypeOK' /\ CountOK'
    BY <1>1, <1>2, <1>3, Counted DEF Unlist, TypeOK, CountOK, ThreadOK, Moves, Acquire, At, sizeVars
  <1>5. LockOwner'
    BY <1>1, <1>3 DEF Unlist, LockOwner, Moves, Acquire, At, Global, Refreshing
  <1>6. ThreadOK(t)' /\ ClientOK(d)'
    <2>1. ThreadOK(t)'
      BY <1>1, <1>2, <1>3 DEF Unlist, ThreadOK, ClientOK, TypeOK, Moves, In, At,
         Creating, Closing, Using, Refreshing
    <2>2. ClientOK(d)'
      BY <1>1, <1>2 DEF Unlist, ThreadOK, ClientOK, TypeOK, In, At, Refreshing
    <2> QED
      BY <2>1, <2>2
  <1>7. ASSUME NEW u \in Threads \ {t}
        PROVE  /\ loc[u].client = d => /\ ThreadOK(u)'
                                      /\ ~(Creating(u) \/ Closing(u))
               /\ d \in loc[u].walk => d \in listed'
    <2>1. ThreadOK(u) /\ pc[u] \in Global \cup Local
      BY DEF LifeInv, TypeOK
    <2>2. loc[u].client = d => ThreadOK(u)' /\ ~(Creating(u) \/ Closing(u))
      BY <1>1, <1>2, <1>3, <2>1, Sole DEF Unlist, ThreadOK, Moves, In, At, Creating, Closing, Using,
         Refreshing, Acquire
    <2> QED
      BY <1>1, <2>1, <2>2 DEF Unlist, ThreadOK, LockOwner, Acquire, Global, At
  <1>8. OneKeeper'
    <2>1. loc'[t].client \in {d, NoClient} /\ (loc'[t].client = NoClient => pc'[t] = "idle")
      BY <1>1, <1>2, <1>3 DEF Moves, Locals
    <2>2. ASSUME NEW u \in Threads \ {t}, (Creating(u) \/ Closing(u))'
          PROVE  loc'[u].client # d
      BY <1>3, <1>7, <2>2 DEF Moves, Creating, Closing, In
    <2>3. ~ (pc'[t] = "idle" /\ (Creating(t) \/ Closing(t))')
      BY DEF Creating, Closing, In, Refreshing
    <2>4. ASSUME NEW u \in Threads \ {t}, NEW v \in Threads \ {t},
                 (Creating(u) \/ Closing(u))', (Creating(v) \/ Closing(v))',
                 loc'[u].client = loc'[v].client
          PROVE  u = v
      BY <1>1, <1>3, <2>4 DEF OneKeeper, Moves, Creating, Closing, In
    <2> QED
      BY <2>1, <2>2, <2>3, <2>4 DEF OneKeeper
  <1>9. /\ UNCHANGED clientLock
        /\ \A c1 \in Clients \ {d} :
             /\ life'[c1] = life[c1]
             /\ c1 \in listed' <=> c1 \in listed
             /\ c1 \in hooked' <=> c1 \in hooked
    BY <1>1, <1>2 DEF Unlist, TypeOK
  <1> QED
    BY <1>2, <1>3, <1>4, <1>5, <1>6, <1>7, <1>8, <1>9, BusyLife DEF Moves

LEMMA FreeLife ==
  ASSUME LifeInv, NEW t \in Threads, NEW d \in Clients, loc[t].client = d, Free(t)
  PROVE  LifeInv'
  <1> DEFINE l == "idle"
             r == Rest
  <1>1. TypeOK /\ LockOwner /\ CountOK /\ OneKeeper /\ ThreadOK(t) /\ loc[t] \in Locals
    BY DEF LifeInv, TypeOK
  <1>2. Closing(t) /\ d \in Clients /\ ClientOK(d)
    BY <1>1 DEF Free, LifeInv, ThreadOK, TypeOK, Locals, At, Creating, Closing, In
  <1>3. Moves(t, l, r)
    <2>1. l \in Global \cup Local /\ r \in Locals
      BY <1>1, <1>2, RestTyped DEF Locals, Local, Global, Refreshing
    <2> QED
      BY <1>1, <2>1, GoMoves DEF Free, Return
  <1>4. TypeOK' /\ CountOK'
    BY <1>1, <1>2, <1>3, Counted DEF Free, TypeOK, CountOK, ThreadOK, Moves, At, sizeVars
  <1>5. LockOwner'
    BY <1>1, <1>3 DEF Free, LockOwner, Moves, At, Global, Refreshing
  <1>6. ThreadOK(t)' /\ ClientOK(d)'
    <2>1. ThreadOK(t)'
      BY <1>1, <1>2, <1>3, RestTyped DEF Free, ThreadOK, ClientOK, TypeOK, Moves, In, At,
         Creating, Closing, Using, Refreshing
    <2>2. ClientOK(d)'
      BY <1>1, <1>2 DEF Free, ThreadOK, ClientOK, TypeOK, In, At, Refreshing
    <2> QED
      BY <2>1, <2>2
  <1>7. ASSUME NEW u \in Threads \ {t}
        PROVE  /\ loc[u].client = d => /\ ThreadOK(u)'
                                      /\ ~(Creating(u) \/ Closing(u))
               /\ d \in loc[u].walk => d \in listed'
    <2>1. ThreadOK(u) /\ pc[u] \in Global \cup Local
      BY DEF LifeInv, TypeOK
    <2>2. loc[u].client = d => ThreadOK(u)' /\ ~(Creating(u) \/ Closing(u))
      BY <1>1, <1>2, <1>3, <2>1, Sole DEF Free, ThreadOK, Moves, In, At, Creating, Closing, Using,
         Refreshing
    <2> QED
      BY <1>1, <2>1, <2>2 DEF Free, ThreadOK, LockOwner, Global, At
  <1>8. OneKeeper'
    <2>1. loc'[t].client \in {d, NoClient} /\ (loc'[t].client = NoClient => pc'[t] = "idle")
      BY <1>1, <1>2, <1>3, RestTyped DEF Moves, Locals
    <2>2. ASSUME NEW u \in Threads \ {t}, (Creating(u) \/ Closing(u))'
          PROVE  loc'[u].client # d
      BY <1>3, <1>7, <2>2 DEF Moves, Creating, Closing, In
    <2>3. ~ (pc'[t] = "idle" /\ (Creating(t) \/ Closing(t))')
      BY DEF Creating, Closing, In, Refreshing
    <2>4. ASSUME NEW u \in Threads \ {t}, NEW v \in Threads \ {t},
                 (Creating(u) \/ Closing(u))', (Creating(v) \/ Closing(v))',
                 loc'[u].client = loc'[v].client
          PROVE  u = v
      BY <1>1, <1>3, <2>4 DEF OneKeeper, Moves, Creating, Closing, In
    <2> QED
      BY <2>1, <2>2, <2>3, <2>4 DEF OneKeeper
  <1>9. /\ UNCHANGED clientLock
        /\ \A c1 \in Clients \ {d} :
             /\ life'[c1] = life[c1]
             /\ c1 \in listed' <=> c1 \in listed
             /\ c1 \in hooked' <=> c1 \in hooked
    BY <1>1, <1>2 DEF Free, TypeOK
  <1> QED
    BY <1>2, <1>3, <1>4, <1>5, <1>6, <1>7, <1>8, <1>9, BusyLife DEF Moves


LEMMA ReserveFailsLife ==
  ASSUME LifeInv, NEW t \in Threads, NEW d \in Clients, loc[t].client = d, Return(t), At(t, "reserve"), life' = [life EXCEPT ![d] = "none"],
         UNCHANGED <<clientsLock, clientLock, sizeVars, count, listed, hooked>>
  PROVE  LifeInv'
  <1> DEFINE l == "idle"
             r == Rest
  <1>1. TypeOK /\ LockOwner /\ CountOK /\ OneKeeper /\ ThreadOK(t) /\ loc[t] \in Locals
    BY DEF LifeInv, TypeOK
  <1>2. Creating(t) /\ d \in Clients /\ ClientOK(d)
    BY <1>1 DEF LifeInv, ThreadOK, TypeOK, Locals, At, Call, Creating, Closing, In
  <1>3. Moves(t, l, r)
    <2>1. l \in Global \cup Local /\ r \in Locals
      BY <1>1, <1>2, RestTyped DEF Locals, Local, Global, Refreshing
    <2> QED
      BY <1>1, <2>1, GoMoves DEF Return
  <1>4. TypeOK' /\ CountOK'
    BY <1>1, <1>2, <1>3, Counted DEF TypeOK, CountOK, ThreadOK, Moves, Acquire, At, sizeVars
  <1>5. LockOwner'
    BY <1>1, <1>3 DEF LockOwner, Moves, Acquire, At, Call, Global, Refreshing
  <1>6. ThreadOK(t)' /\ ClientOK(d)'
    <2>1. ThreadOK(t)'
      BY <1>1, <1>2, <1>3, RestTyped DEF ThreadOK, ClientOK, TypeOK, Moves, In, At, Call,
         Creating, Closing, Using, Refreshing
    <2>2. ClientOK(d)'
      BY <1>1, <1>2 DEF ThreadOK, ClientOK, TypeOK, In, At, Call, Refreshing
    <2> QED
      BY <2>1, <2>2
  <1>7. ASSUME NEW u \in Threads \ {t}
        PROVE  /\ loc[u].client = d => /\ ThreadOK(u)'
                                      /\ ~(Creating(u) \/ Closing(u))
               /\ d \in loc[u].walk => d \in listed'
    <2>1. ThreadOK(u) /\ pc[u] \in Global \cup Local
      BY DEF LifeInv, TypeOK
    <2>2. loc[u].client = d => ThreadOK(u)' /\ ~(Creating(u) \/ Closing(u))
      BY <1>1, <1>2, <1>3, <2>1, Sole DEF ThreadOK, Moves, In, At, Creating, Closing, Using,
         Refreshing
    <2> QED
      BY <1>1, <2>1, <2>2 DEF ThreadOK, LockOwner, Acquire, Global, At
  <1>8. OneKeeper'
    <2>1. loc'[t].client \in {d, NoClient} /\ (loc'[t].client = NoClient => pc'[t] = "idle")
      BY <1>1, <1>2, <1>3, RestTyped DEF Moves, Locals
    <2>2. ASSUME NEW u \in Threads \ {t}, (Creating(u) \/ Closing(u))'
          PROVE  loc'[u].client # d
      BY <1>3, <1>7, <2>2 DEF Moves, Creating, Closing, In
    <2>3. ~ (pc'[t] = "idle" /\ (Creating(t) \/ Closing(t))')
      BY DEF Creating, Closing, In, Refreshing
    <2>4. ASSUME NEW u \in Threads \ {t}, NEW v \in Threads \ {t},
                 (Creating(u) \/ Closing(u))', (Creating(v) \/ Closing(v))',
                 loc'[u].client = loc'[v].client
          PROVE  u = v
      BY <1>1, <1>3, <2>4 DEF OneKeeper, Moves, Creating, Closing, In
    <2> QED
      BY <2>1, <2>2, <2>3, <2>4 DEF OneKeeper
  <1>9. /\ UNCHANGED clientLock
        /\ \A c1 \in Clients \ {d} :
             /\ life'[c1] = life[c1]
             /\ c1 \in listed' <=> c1 \in listed
             /\ c1 \in hooked' <=> c1 \in hooked
    BY <1>1, <1>2 DEF TypeOK
  <1> QED
    BY <1>2, <1>3, <1>4, <1>5, <1>6, <1>7, <1>8, <1>9, BusyLife DEF Moves

LEMMA ReserveLife ==
  ASSUME LifeInv, NEW t \in Threads, Reserve(t)
  PROVE  LifeInv'
  <1>1. TypeOK /\ LockOwner /\ ThreadOK(t) /\ loc[t] \in Locals /\ loc[t].client \in Clients
    BY DEF LifeInv, TypeOK, Reserve, ThreadOK, At, Locals
  <1>2. CASE Go(t, "register", loc[t]) /\ UNCHANGED life
    <2>1. Moves(t, "register", loc[t])
      BY <1>1, <1>2, GoMoves DEF Local
    <2>2. TypeOK' /\ LockOwner'
      BY <1>1, <1>2, <2>1 DEF Reserve, TypeOK, LockOwner, Moves, At, Global, Refreshing, sizeVars
    <2>3. ThreadOK(t)' /\ (Creating(t) \/ Closing(t))
      BY <1>1, <1>2, <2>1 DEF Reserve, ThreadOK, Moves, In, At, Creating, Closing, Using, Refreshing
    <2> QED
      BY <1>2, <2>1, <2>2, <2>3, QuietLife DEF Reserve, Moves, clientVars
  <1>3. CASE Return(t) /\ life' = [life EXCEPT ![loc[t].client] = "none"]
    BY <1>1, <1>3, ReserveFailsLife DEF Reserve
  <1> QED
    BY <1>2, <1>3 DEF Reserve

LEMMA SetSizeLife ==
  ASSUME LifeInv, NEW size \in Sizes, SetSize(size)
  PROVE  LifeInv'
  <1>1. TypeOK /\ size \in Nat
    BY DEF LifeInv
  <1>2. ASSUME NEW t \in Threads
        PROVE  /\ loc'[t] \in Locals /\ loc'[t].client = loc[t].client
               /\ loc'[t].walk = loc[t].walk /\ loc'[t].then = loc[t].then
    <2>1. loc[t] \in Locals /\ loc'[t] \in {loc[t], [loc[t] EXCEPT !.changed = TRUE]}
      BY <1>1 DEF TypeOK, SetSize
    <2> QED
      BY <2>1 DEF Locals
  <1>3. loc' \in [Threads -> Locals]
    <2>1. loc' = [t \in Threads |-> loc'[t]]
      BY DEF SetSize
    <2> QED
      BY <1>2, <2>1
  <1>4. TypeOK' /\ LockOwner'
    BY <1>1, <1>3 DEF SetSize, LifeInv, TypeOK, LockOwner, clientVars
  <1>5. ASSUME NEW t \in Threads
        PROVE  ThreadOK(t)' /\ (Creating(t)' <=> Creating(t)) /\ (Closing(t)' <=> Closing(t))
    <2>1. ThreadOK(t)
      BY DEF LifeInv
    <2> QED
      BY <1>2, <2>1 DEF SetSize, clientVars, ThreadOK, In, At, Creating, Closing, Using
  <1>6. OneKeeper'
    BY <1>2, <1>5 DEF LifeInv, OneKeeper
  <1>7. \A c \in Clients : ClientOK(c)'
    BY DEF LifeInv, ClientOK, SetSize, clientVars
  <1> QED
    BY <1>4, <1>5, <1>6, <1>7 DEF LifeInv, CountOK, SetSize, clientVars

LEMMA InitLife ==
  ASSUME Init
  PROVE  LifeInv
  <1>1. TypeOK
    BY RestTyped, ShareTyped DEF Init, TypeOK, Local
  <1>2. CountOK
    BY FS_EmptySet DEF Init, CountOK
  <1>3. \A t \in Threads : pc[t] = "idle" /\ loc[t] = Rest
    BY DEF Init
  <1>4. LockOwner
    BY <1>3 DEF Init, LockOwner, Global, Refreshing
  <1>5. \A t \in Threads : ThreadOK(t) /\ ~Creating(t) /\ ~Closing(t)
    BY <1>3, RestTyped DEF ThreadOK, In, At, Creating, Closing, Using, Refreshing
  <1>6. \A c \in Clients : ClientOK(c)
    BY DEF Init, ClientOK
  <1> QED
    BY <1>1, <1>2, <1>4, <1>5, <1>6 DEF LifeInv, OneKeeper

\* Any step keeps what the threads know of the clients.
LEMMA StepLife ==
  ASSUME LifeInv, [Next]_vars
  PROVE  LifeInv'
  <1>1. ASSUME NEW t \in Threads, Start(t) PROVE LifeInv'
    BY <1>1, CreateLife, UseLife, DestroyLife, ScanLife, AgeLife DEF Start
  <1>2. ASSUME NEW t \in Threads, Continue(t) PROVE LifeInv'
    <2>1. loc[t].client \in Clients \cup {NoClient} /\ ThreadOK(t)
      BY DEF LifeInv, TypeOK, Locals
    <2>2. pc[t] \in {"register", "hook", "unhook", "unlist", "free"} => loc[t].client \in Clients
      BY <2>1 DEF ThreadOK
    <2>3. CASE Register(t) \/ Hook(t) \/ Unhook(t) \/ Unlist(t) \/ Free(t)
      BY <2>2, <2>3, RegisterLife, HookLife, UnhookLife, UnlistLife, FreeLife
         DEF Register, Hook, Unhook, Unlist, Free, At
    <2> QED
      BY <1>2, <2>3, LatchLife, ZeroLife, DefaultLife, SetShareLife, ReserveLife, ReadSizeLife,
         CompareLife, WantLife, ReadLimitLife, AgeNextLife, AgeEvictLife, ScanDoneLife DEF Continue
  <1>3. ASSUME UNCHANGED vars PROVE LifeInv'
    BY <1>3 DEF vars, sizeVars, clientVars, LifeInv, TypeOK, LockOwner, OneKeeper, CountOK, ThreadOK,
       ClientOK, In, At, Creating, Closing, Using
  <1> QED
    BY <1>1, <1>2, <1>3, SetSizeLife DEF Next

-----------------------------------------------------------------------------
(* The numbers.                                                            *)

LEMMA EffectiveOf ==
  ASSUME NEW size \in Nat
  PROVE  /\ Effective(size) \in Nat \ {0} /\ Effective(DefaultSize) = DefaultSize
         /\ Effective(0) = DefaultSize /\ (size # 0 => Effective(size) = size)
  BY DEF Effective

\* A step of t outside of a refresh that leaves the numbers as they are.
LEMMA QuietSize ==
  ASSUME SizeInv, NEW t \in Threads,
         UNCHANGED <<cacheSize, latch, perClient, count>>, FollowOK(t)',
         \A u \in Threads \ {t} : pc'[u] = pc[u] /\ loc'[u] = loc[u],
         pc[t] \notin Refreshing, pc'[t] \notin Refreshing
  PROVE  SizeInv'
  <1>1. LatchOK'
    BY DEF SizeInv, LatchOK, Refreshing
  <1>2. ShareOK'
    BY DEF SizeInv, ShareOK, Share
  <1>3. ASSUME NEW u \in Threads \ {t} PROVE FollowOK(u)'
    BY DEF SizeInv, FollowOK, At, Refreshing, Effective
  <1> QED
    BY <1>1, <1>2, <1>3 DEF SizeInv

\* A step of t that begins a refresh.
LEMMA RefreshStarts ==
  ASSUME LifeInv, SizeInv, NEW t \in Threads, clientsLock = Nobody,
         UNCHANGED <<cacheSize, latch>>, pc'[t] = "latch",
         \A u \in Threads \ {t} : pc'[u] = pc[u] /\ loc'[u] = loc[u]
  PROVE  SizeInv'
  <1>1. pc[t] \notin Refreshing
    BY DEF LifeInv, LockOwner, Global
  <1>2. LatchOK' /\ ShareOK'
    BY <1>1 DEF SizeInv, LatchOK, ShareOK, Refreshing
  <1>3. ASSUME NEW u \in Threads PROVE FollowOK(u)'
    <2>1. CASE u = t
      BY <2>1 DEF FollowOK, At
    <2>2. CASE u # t
      BY <2>2 DEF SizeInv, FollowOK, At, Effective
    <2> QED
      BY <2>1, <2>2
  <1> QED
    BY <1>2, <1>3 DEF SizeInv

\* While t is in a refresh, nobody else is.
LEMMA Alone ==
  ASSUME LifeInv, NEW t \in Threads, pc[t] \in Refreshing
  PROVE  \A u \in Threads \ {t} : pc[u] \notin Refreshing
  BY DEF LifeInv, LockOwner, Global

LEMMA StartSize ==
  ASSUME LifeInv, SizeInv, NEW t \in Threads, Start(t)
  PROVE  SizeInv'
  <1>1. TypeOK /\ pc[t] = "idle"
    BY DEF LifeInv, Start, Create, Use, Destroy, Scan, Age, Call, At
  <1>2. /\ UNCHANGED <<cacheSize, latch, perClient, count>>
        /\ \E l \in {"reserve", "size", "unhook", "walk", "scan"}, r \in Locals : Go(t, l, r)
    <2>1. ASSUME NEW c \in Clients, NEW w \in Work
          PROVE  On(c) \in Locals /\ [On(c) EXCEPT !.waits = (w = "scan_fs")] \in Locals
      BY RestTyped DEF Locals, Local, On, Rest
    <2>2. [Rest EXCEPT !.walk = listed] \in Locals
      BY <1>1, RestTyped DEF Locals, TypeOK
    <2>3. CASE \E c \in Clients : Create(t, c)
      BY <2>1, <2>3 DEF Create, sizeVars, Work
    <2>4. CASE \E c \in Clients : Use(t, c)
      BY <2>1, <2>4 DEF Use, sizeVars, clientVars, Work
    <2>5. CASE \E c \in Clients : Destroy(t, c)
      BY <2>1, <2>5 DEF Destroy, sizeVars, Work
    <2>6. CASE \E c \in Clients, w \in Work : Scan(t, c, w)
      BY <2>1, <2>6 DEF Scan, sizeVars, clientVars
    <2>7. CASE Age(t)
      BY <2>2, <2>7 DEF Age, sizeVars, clientVars
    <2> QED
      BY <2>3, <2>4, <2>5, <2>6, <2>7 DEF Start
  <1>3. PICK l \in {"reserve", "size", "unhook", "walk", "scan"}, r \in Locals : Go(t, l, r)
    BY <1>2
  <1>4. Moves(t, l, r)
    BY <1>1, <1>3, GoMoves DEF Local, Global
  <1>5. FollowOK(t)' /\ pc[t] \notin Refreshing /\ pc'[t] \notin Refreshing
    BY <1>1, <1>4 DEF Moves, FollowOK, At, Refreshing
  <1> QED
    BY <1>2, <1>4, <1>5, QuietSize DEF Moves

LEMMA OtherSize ==
  ASSUME LifeInv, SizeInv, NEW t \in Threads,
         \/ Reserve(t) \/ Hook(t) \/ ReadLimit(t) \/ Unhook(t) \/ Free(t)
         \/ AgeNext(t) \/ AgeEvict(t) \/ ScanDone(t)
  PROVE  SizeInv'
  <1>1. TypeOK
    BY DEF LifeInv
  <1>2. /\ UNCHANGED <<cacheSize, latch, perClient, count>>
        /\ \A u \in Threads \ {t} : pc'[u] = pc[u] /\ loc'[u] = loc[u]
    BY <1>1 DEF TypeOK, Reserve, Hook, ReadLimit, Unhook, Free, AgeNext, AgeEvict, ScanDone, Return, Go,
       sizeVars, clientVars
  <1>3. /\ pc[t] \notin Refreshing
        /\ pc'[t] \in {"idle", "register", "unlist", "walk", "evict"}
    BY <1>1 DEF TypeOK, Reserve, Hook, ReadLimit, Unhook, Free, AgeNext, AgeEvict, ScanDone, Return, Go,
       At, Refreshing
  <1>4. FollowOK(t)' /\ pc'[t] \notin Refreshing
    BY <1>3 DEF FollowOK, At, Refreshing
  <1> QED
    BY <1>2, <1>3, <1>4, QuietSize

LEMMA ReadSizeSize ==
  ASSUME LifeInv, SizeInv, NEW t \in Threads, ReadSize(t)
  PROVE  SizeInv'
  <1>1. TypeOK /\ loc[t] \in Locals
    BY DEF LifeInv, TypeOK
  <1>2. [loc[t] EXCEPT !.seen = cacheSize] \in Locals
    BY <1>1 DEF Locals, TypeOK
  <1>3. Moves(t, "compare", [loc[t] EXCEPT !.seen = cacheSize])
    BY <1>1, <1>2, GoMoves DEF ReadSize, Local
  <1>4. UNCHANGED <<cacheSize, latch, perClient, count>>
    BY DEF ReadSize, sizeVars, clientVars
  <1>5. loc'[t].seen = cacheSize'
    BY <1>1, <1>3, <1>4 DEF Moves, Locals
  <1>6. FollowOK(t)' /\ pc[t] \notin Refreshing /\ pc'[t] \notin Refreshing
    BY <1>3, <1>5 DEF ReadSize, FollowOK, Moves, At, Refreshing
  <1> QED
    BY <1>3, <1>4, <1>6, QuietSize DEF Moves

LEMMA CompareSize ==
  ASSUME LifeInv, SizeInv, NEW t \in Threads, Compare(t)
  PROVE  SizeInv'
  <1>1. TypeOK /\ loc[t] \in Locals /\ FollowOK(t)
    BY DEF LifeInv, TypeOK, SizeInv
  <1> DEFINE l == IF Outdated(loc[t].seen) THEN "want" ELSE "read"
  <1>2. Moves(t, l, loc[t])
    BY <1>1, GoMoves DEF Compare, Local
  <1>3. UNCHANGED <<cacheSize, latch, perClient, count>>
    BY DEF Compare, sizeVars, clientVars
  <1>4. FollowOK(t)'
    BY <1>1, <1>2, <1>3 DEF Compare, FollowOK, Moves, At, Outdated, Effective
  <1>5. pc[t] \notin Refreshing /\ pc'[t] \notin Refreshing
    BY <1>2 DEF Compare, Moves, At, Refreshing
  <1> QED
    BY <1>2, <1>3, <1>4, <1>5, QuietSize DEF Moves

LEMMA EnterSize ==
  ASSUME LifeInv, SizeInv, NEW t \in Threads, Register(t) \/ Want(t) \/ Unlist(t)
  PROVE  SizeInv'
  <1>1. TypeOK
    BY DEF LifeInv
  <1>2. /\ clientsLock = Nobody /\ UNCHANGED <<cacheSize, latch>> /\ pc'[t] = "latch"
        /\ \A u \in Threads \ {t} : pc'[u] = pc[u] /\ loc'[u] = loc[u]
    BY <1>1 DEF TypeOK, Register, Want, Unlist, Acquire, Go, sizeVars, clientVars
  <1> QED
    BY <1>2, RefreshStarts

LEMMA LatchSize ==
  ASSUME LifeInv, SizeInv, NEW t \in Threads, Latch(t)
  PROVE  SizeInv'
  <1>1. TypeOK /\ pc[t] = "latch" /\ \A u \in Threads \ {t} : pc[u] \notin Refreshing
    BY Alone DEF LifeInv, Latch, At, Refreshing
  <1>2. /\ latch' = cacheSize /\ cacheSize' = cacheSize
        /\ pc'[t] = (IF cacheSize = 0 THEN "zero" ELSE "share")
        /\ \A u \in Threads \ {t} : pc'[u] = pc[u] /\ loc'[u] = loc[u]
    BY <1>1 DEF TypeOK, Latch, Go
  <1>3. LatchOK' /\ ShareOK'
    BY <1>1, <1>2 DEF LatchOK, ShareOK, Refreshing
  <1>4. ASSUME NEW u \in Threads PROVE FollowOK(u)'
    BY <1>1, <1>2 DEF SizeInv, FollowOK, At, Effective
  <1> QED
    BY <1>3, <1>4 DEF SizeInv

LEMMA DefaultsSize ==
  ASSUME LifeInv, SizeInv, NEW t \in Threads, Zero(t) \/ Default(t)
  PROVE  SizeInv'
  <1>1. /\ TypeOK /\ pc[t] \in {"zero", "default"} /\ latch = 0
        /\ \A u \in Threads \ {t} : pc[u] \notin Refreshing
    BY Alone DEF LifeInv, SizeInv, LatchOK, Zero, Default, At, Refreshing
  <1>2. \A u \in Threads : ~At(u, "latch")
    BY <1>1 DEF At, Refreshing
  <1>3. /\ Effective(cacheSize') = Effective(cacheSize) /\ Effective(latch') = Effective(latch)
        /\ pc'[t] = (IF pc[t] = "zero" THEN "default" ELSE "share")
        /\ latch' = (IF pc[t] = "zero" THEN 0 ELSE DefaultSize)
        /\ loc'[t] = loc[t]
        /\ \A u \in Threads \ {t} : pc'[u] = pc[u] /\ loc'[u] = loc[u]
    BY <1>1 DEF TypeOK, Zero, Default, Go, Effective, At
  <1>4. LatchOK' /\ ShareOK'
    BY <1>1, <1>3 DEF LatchOK, ShareOK, Refreshing
  <1>5. ASSUME NEW u \in Threads PROVE FollowOK(u)'
    <2>1. FollowOK(u)
      BY DEF SizeInv
    <2>2. CASE u = t
      BY <1>1, <1>2, <1>3, <2>1, <2>2 DEF FollowOK, At
    <2>3. CASE u # t
      BY <1>1, <1>2, <1>3, <2>1, <2>3 DEF FollowOK, At
    <2> QED
      BY <2>2, <2>3
  <1> QED
    BY <1>4, <1>5 DEF SizeInv

LEMMA SetShareSize ==
  ASSUME LifeInv, SizeInv, NEW t \in Threads, SetShare(t)
  PROVE  SizeInv'
  <1>1. /\ TypeOK /\ pc[t] = "share" /\ loc[t] \in Locals
        /\ \A u \in Threads \ {t} : pc[u] \notin Refreshing
    BY Alone DEF LifeInv, TypeOK, SetShare, At, Refreshing
  <1>2. loc[t].then \in {"hook", "read", "free"}
    BY <1>1 DEF LifeInv, ThreadOK, Refreshing
  <1> DEFINE r == [loc[t] EXCEPT !.then = "idle"]
  <1>3. r \in Locals /\ r.changed = loc[t].changed /\ r.seen = loc[t].seen
    BY <1>1 DEF Locals, Local
  <1>4. Moves(t, loc[t].then, r)
    BY <1>1, <1>2, <1>3, GoMoves DEF SetShare, Local
  <1>5. perClient' = Share(latch', count') /\ cacheSize' = cacheSize /\ latch' = latch
    BY DEF SetShare, clientVars
  <1>6. LatchOK' /\ ShareOK'
    BY <1>1, <1>2, <1>4, <1>5 DEF SizeInv, LatchOK, ShareOK, Moves, Refreshing
  <1>7. ASSUME NEW u \in Threads PROVE FollowOK(u)'
    <2>1. FollowOK(u) /\ \A v \in Threads : ~At(v, "latch")
      BY <1>1 DEF SizeInv, At, Refreshing
    <2> QED
      BY <1>1, <1>2, <1>3, <1>4, <1>5, <2>1 DEF FollowOK, At, Moves, Effective
  <1> QED
    BY <1>6, <1>7 DEF SizeInv

LEMMA SetSizeSize ==
  ASSUME LifeInv, SizeInv, NEW size \in Sizes, SetSize(size)
  PROVE  SizeInv'
  <1>1. UNCHANGED <<latch, perClient, count, pc>> /\ TypeOK
    BY DEF SetSize, clientVars, LifeInv
  <1>2. LatchOK' /\ ShareOK'
    BY <1>1 DEF SizeInv, LatchOK, ShareOK, Share
  <1>3. ASSUME NEW t \in Threads PROVE FollowOK(t)'
    <2>1. CASE pc[t] = "idle"
      BY <1>1, <2>1 DEF FollowOK, At
    <2>2. CASE pc[t] # "idle"
      <3>1. loc[t] \in Locals /\ loc'[t] = [loc[t] EXCEPT !.changed = TRUE]
        BY <1>1, <2>2 DEF SetSize, At, TypeOK
      <3>2. loc'[t].changed
        BY <3>1 DEF Locals
      <3> QED
        BY <3>2 DEF FollowOK
    <2> QED
      BY <2>1, <2>2
  <1> QED
    BY <1>2, <1>3 DEF SizeInv

LEMMA InitSize ==
  ASSUME Init
  PROVE  SizeInv
  <1>1. \A t \in Threads : pc[t] = "idle"
    BY DEF Init
  <1>2. latch \in Nat \ {0} /\ perClient = Share(latch, count)
    BY DEF Init
  <1> QED
    BY <1>1, <1>2 DEF SizeInv, LatchOK, ShareOK, FollowOK, At

\* Any step keeps the numbers.
LEMMA StepSize ==
  ASSUME LifeInv, SizeInv, [Next]_vars
  PROVE  SizeInv'
  <1>1. ASSUME NEW t \in Threads, Continue(t) PROVE SizeInv'
    BY <1>1, OtherSize, ReadSizeSize, CompareSize, EnterSize, LatchSize, DefaultsSize, SetShareSize
       DEF Continue
  <1>2. ASSUME UNCHANGED vars PROVE SizeInv'
    BY <1>2 DEF vars, sizeVars, clientVars, SizeInv, LatchOK, ShareOK, FollowOK, At, Share, Effective
  <1> QED
    BY <1>1, <1>2, StartSize, SetSizeSize DEF Next

-----------------------------------------------------------------------------
(* The theorems.                                                           *)

\* Locks, lives and numbers agree at every control point, for any threads and
\* clients, and whatever the user writes to max_cache_size_bytes.
THEOREM ClientsInvariant == Spec => []ClientsInv
  <1>1. Init => ClientsInv
    BY InitLife, InitSize DEF ClientsInv
  <1>2. ClientsInv /\ [Next]_vars => ClientsInv'
    BY StepLife, StepSize DEF ClientsInv
  <1> QED
    BY <1>1, <1>2, PTL DEF Spec

\* Types, and dm_bufio_client_count never goes below zero (the BUG_ON at 331).
THEOREM ClientsTyped == Spec => []TypeOK
  <1>1. ClientsInv => TypeOK
    BY DEF ClientsInv, LifeInv
  <1> QED
    BY <1>1, ClientsInvariant, PTL

\* What dm_bufio_clients_lock protects is whole whenever the lock is free: the
\* share of a client is the latched size divided among the clients on the list.
THEOREM Shares == Spec => []SharesFit
  <1>1. ASSUME ClientsInv, clientsLock = Nobody
        PROVE  count = Cardinality(listed) /\ latch # 0 /\ perClient = Share(latch, count)
    <2>1. \A t \in Threads : pc[t] \notin Refreshing
      BY <1>1 DEF ClientsInv, LifeInv, LockOwner, Global
    <2> QED
      BY <1>1, <2>1 DEF ClientsInv, LifeInv, SizeInv, CountOK, LatchOK, ShareOK, Refreshing
  <1>2. ClientsInv => SharesFit
    BY <1>1 DEF SharesFit
  <1> QED
    BY <1>2, ClientsInvariant, PTL

\* No call, no scan of the shrinker and no walk of the age worker reaches a
\* client that is freed.
THEOREM NoUse == Spec => []NoUseAfterFree
  <1>1. ASSUME ClientsInv, NEW t \in Threads
        PROVE  /\ loc[t].client # NoClient => life[loc[t].client] # "none"
               /\ \A c \in loc[t].walk : life[c] # "none"
    <2>1. loc[t].client \in Clients \cup {NoClient} /\ loc[t].walk \subseteq Clients
      BY <1>1 DEF ClientsInv, LifeInv, TypeOK, Locals
    <2> QED
      BY <1>1, <2>1, Alive DEF ClientsInv
  <1>2. ClientsInv => NoUseAfterFree
    BY <1>1 DEF NoUseAfterFree
  <1> QED
    BY <1>2, ClientsInvariant, PTL

\* A call takes its limit from the parameter as it was at some time of the call,
\* although it compares parameter and latch without dm_bufio_clients_lock.
THEOREM Followed == Spec => SizeFollowed
  <1> DEFINE A == \A t \in Threads : At(t, "read") /\ pc'[t] = "idle" =>
                    \/ perClient = Share(Effective(cacheSize), count)
                    \/ loc[t].changed \/ clientsLock # Nobody
  <1>1. ClientsInv => A
    <2> SUFFICES ASSUME ClientsInv, NEW t \in Threads, At(t, "read"), ~loc[t].changed,
                        clientsLock = Nobody
                 PROVE  perClient = Share(Effective(cacheSize), count)
      OBVIOUS
    <2>1. \A u \in Threads : pc[u] \notin Refreshing
      BY DEF ClientsInv, LifeInv, LockOwner, Global
    <2>2. latch \in Nat /\ latch # 0 /\ perClient = Share(latch, count)
      BY <2>1 DEF ClientsInv, LifeInv, SizeInv, LatchOK, ShareOK, TypeOK, Refreshing
    <2>3. Effective(latch) = Effective(cacheSize)
      BY <2>1 DEF ClientsInv, SizeInv, FollowOK, At, Refreshing
    <2> QED
      BY <2>2, <2>3 DEF Effective
  <1>2. ClientsInv /\ [Next]_vars => [A]_vars
    BY <1>1
  <1> QED
    BY <1>2, ClientsInvariant, PTL DEF Spec, SizeFollowed
=============================================================================
