---------------------------- MODULE Entities_proofs ----------------------------
(* What publishing does to the entities, whatever driver publishes.           *)
EXTENDS Entities, TLAPS

\* What the entities of a bus with these masks may show.
Shown(masks) == [hasMask : BOOLEAN, mask : masks, online : BOOLEAN, hasNode : BOOLEAN, node : Nat]
Due == [mask : BOOLEAN, online : BOOLEAN]

\* s and t show the same zones.
SameZones(s, t) == s.hasMask = t.hasMask /\ s.mask = t.mask

\* What the entities start from is well-typed and offline.
LEMMA NothingShownType ==
    ASSUME NEW masks, {} \in masks
    PROVE  NothingShown \in Shown(masks) /\ NothingShown.online = FALSE /\ NothingDue \in Due
BY DEF NothingShown, NothingDue, Shown, Due

(* publish_diagnostics_ shows the driver's online state if it is forced, or   *)
(* if that state is shown already; it leaves the zones alone.                 *)
LEMMA DiagnosedShows ==
    ASSUME NEW masks, NEW s \in Shown(masks), NEW node \in Nat, NEW online \in BOOLEAN,
           NEW force, force \/ s.online = online,
           NEW t \in Diagnosed(s, node, online, force)
    PROVE  t \in Shown(masks) /\ t.online = online /\ SameZones(s, t)
<1>1. CASE t = WithDiagnostics(s, node, online)
  BY <1>1 DEF WithDiagnostics, WithNode, WithOnline, Shown, SameZones
<1>2. CASE t = s /\ ~force
  BY <1>2 DEF SameZones
<1>3. QED
  BY <1>1, <1>2 DEF Diagnosed

(* The address shown is the driver's if the call is forced, or if nothing but *)
(* that address has been shown.                                               *)
LEMMA DiagnosedShowsNode ==
    ASSUME NEW masks, NEW s \in Shown(masks), NEW node \in Nat, NEW online \in BOOLEAN,
           NEW force, force \/ (s.hasNode => s.node = node),
           NEW t \in Diagnosed(s, node, online, force)
    PROVE  t.hasNode => t.node = node
<1>1. CASE t = WithDiagnostics(s, node, online)
  BY <1>1 DEF WithDiagnostics, WithNode, WithOnline, Shown
<1>2. CASE t = s /\ ~force
  BY <1>2
<1>3. QED
  BY <1>1, <1>2 DEF Diagnosed

(* A processed status leaves the driver shown as online, and its mask shown   *)
(* if that was due.                                                           *)
LEMMA ConcludedShows ==
    ASSUME NEW masks, NEW s \in Shown(masks), NEW todo \in Due, NEW mask \in masks,
           NEW node \in Nat, todo.online \/ s.online,
           NEW t \in Concluded(s, todo, mask, node)
    PROVE  /\ t \in Shown(masks)
           /\ t.online
           /\ IF todo.mask THEN t.hasMask /\ t.mask = mask ELSE SameZones(s, t)
<1> DEFINE u == IF todo.mask THEN WithMask(s, mask) ELSE s
<1>1. u \in Shown(masks) /\ u.online = s.online
  BY DEF WithMask, Shown
<1>2. IF todo.mask THEN u.hasMask /\ u.mask = mask ELSE SameZones(s, u)
  BY DEF WithMask, Shown, SameZones
<1>3. t \in Diagnosed(u, node, TRUE, todo.online)
  BY DEF Concluded
<1>4. todo.online \/ u.online = TRUE
  BY <1>1 DEF Shown
<1> HIDE DEF u
<1>5. t \in Shown(masks) /\ t.online = TRUE /\ SameZones(u, t)
  BY <1>1, <1>3, <1>4, DiagnosedShows
<1>6. QED
  BY <1>2, <1>5 DEF SameZones

\* So does the address.
LEMMA ConcludedShowsNode ==
    ASSUME NEW masks, NEW s \in Shown(masks), NEW todo \in Due, NEW mask \in masks,
           NEW node \in Nat, todo.online \/ (s.hasNode => s.node = node),
           NEW t \in Concluded(s, todo, mask, node)
    PROVE  t.hasNode => t.node = node
<1> DEFINE u == IF todo.mask THEN WithMask(s, mask) ELSE s
<1>1. u \in Shown(masks)
  BY DEF WithMask, Shown
<1>2. u.hasNode = s.hasNode /\ u.node = s.node
  <2>1. WithMask(s, mask).hasNode = s.hasNode /\ WithMask(s, mask).node = s.node
    BY DEF WithMask, Shown
  <2>2. QED
    BY <2>1
<1>3. t = WithDiagnostics(u, node, TRUE) \/ (t = u /\ ~todo.online)
  BY DEF Concluded, Diagnosed
<1> HIDE DEF u
<1>4. CASE t = WithDiagnostics(u, node, TRUE)
  BY <1>1, <1>4 DEF WithDiagnostics, WithNode, WithOnline, Shown
<1>5. CASE t = u /\ ~todo.online
  BY <1>2, <1>5
<1>6. QED
  BY <1>3, <1>4, <1>5
================================================================================
