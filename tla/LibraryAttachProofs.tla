-------------------------- MODULE LibraryAttachProofs --------------------------
(***************************************************************************)
(* The invariants of LibraryAttach, proved for any list of libraries, any  *)
(* attach specs and any set of libraries that attach.                      *)
(***************************************************************************)
EXTENDS LibraryAttach, TLAPS

Attaching == main \in {"enter", "ret", "store"}

\* The hook i has in S what it needs: its entry probe, and its return probe
\* exactly with it.
WholeAt(S, i) ==
  /\ ~Specs[i].optional => <<i, "enter">> \in S
  /\ Specs[i].paired => (<<i, "enter">> \in S <=> <<i, "ret">> \in S)

\* A probe that is in the kernel has one owner.
Owned(p, x) == x \in held[p] \/ (p = Path /\ x \in links)

\* Links are counted rightly because the path being attached has no links of its
\* own in the loader's table, and no other path is being attached.
LinksInv ==
  /\ Attaching => Path \notin attached
  /\ ~Attaching => links = {}
  /\ \A p \in Paths \ attached : held[p] = {}
  /\ \A p \in Paths, x \in Probes : open[<<p, x>>] = IF Owned(p, x) THEN 1 ELSE 0

\* How far the path being attached has got: hooks before the current one are
\* whole, those after it have no probe.
HooksInv ==
  /\ \A p \in attached, i \in 1..Len(Specs) : WholeAt(held[p], i)
  /\ main \in {"enter", "ret"} =>
       /\ \A i \in 1..(hook - 1) : WholeAt(links, i)
       /\ \A i \in (hook + 1)..Len(Specs), k \in {"enter", "ret"} : <<i, k>> \notin links
       /\ <<hook, "ret">> \notin links
       /\ main = "enter" <=> <<hook, "enter">> \notin links
  /\ main = "ret" => Hook.paired
  /\ main = "store" => \A i \in 1..Len(Specs) : WholeAt(links, i)

\* What the deferred calls have closed stays closed.
EndInv ==
  /\ deferred > 0 => main \in {"returning", "returned"}
  /\ deferred >= 1 => \A p \in attached : LoaderOf[p] # 2
  /\ deferred >= 3 => \A p \in attached : LoaderOf[p] # 1
  /\ main = "returned" => deferred = 4

IInv == TypeOK /\ LinksInv /\ HooksInv /\ EndInv

-------------------------------------------------------------------------------
\* The current path, the current hook and its probes exist.
LEMMA Current ==
  ASSUME TypeOK
  PROVE  /\ Path \in Paths
         /\ Hook \in [paired: BOOLEAN, optional: BOOLEAN]
         /\ Len(Order) \in Nat /\ Len(Specs) \in Nat
         /\ pos \in Nat /\ hook \in Nat /\ hook <= Len(Specs)
         /\ <<hook, "enter">> \in Probes /\ <<hook, "ret">> \in Probes
<1>1. Len(Order) \in Nat \ {0} /\ Len(Specs) \in Nat \ {0}
  BY OrderAssumption, SpecsAssumption
<1>2. pos \in 1..Len(Order) /\ hook \in 1..Len(Specs)
  BY DEF TypeOK
<1>3. pos \in Nat /\ hook \in Nat /\ hook <= Len(Specs)
  BY <1>1, <1>2
<1>4. Path \in Paths
  BY <1>2 DEF Path, Paths
<1>5. Hook \in [paired: BOOLEAN, optional: BOOLEAN]
  <2> DEFINE R == [paired: BOOLEAN, optional: BOOLEAN]
  <2>1. Specs \in Seq(R)  BY SpecsAssumption
  <2> HIDE DEF R
  <2>2. Specs[hook] \in R  BY <1>2, <2>1
  <2>3. QED  BY <2>2 DEF Hook, R
<1>6. <<hook, "enter">> \in Probes /\ <<hook, "ret">> \in Probes
  BY <1>2 DEF Probes
<1>7. QED  BY <1>1, <1>3, <1>4, <1>5, <1>6

\* Where the loop over the paths goes.
LEMMA NextPathStep ==
  ASSUME TypeOK, NextPath
  PROVE  main' \in {"check", "idle"} /\ pos' \in 1..Len(Order) /\ initial' \in BOOLEAN
<1>1. Len(Order) \in Nat /\ pos \in 1..Len(Order) /\ initial \in BOOLEAN
  BY Current DEF TypeOK
<1>2. CASE pos < Len(Order)
  BY <1>1, <1>2 DEF NextPath
<1>3. CASE ~(pos < Len(Order))
  <2>1. main' = "idle" /\ initial' = FALSE /\ pos' = pos
    BY <1>3 DEF NextPath
  <2>2. QED  BY <1>1, <2>1
<1>4. QED  BY <1>2, <1>3

\* Where the loop over the hooks goes.
LEMMA NextHookStep ==
  ASSUME TypeOK, NextHook
  PROVE  \/ hook < Len(Specs) /\ hook' = hook + 1 /\ main' = "enter"
         \/ hook = Len(Specs) /\ hook' = hook /\ main' = "store"
  BY Current DEF TypeOK, NextHook

\* The invariant holds at the start.
LEMMA InitIInv == Init => IInv
<1> SUFFICES ASSUME Init PROVE IInv  OBVIOUS
<1>1. TypeOK
  <2>1. 1 \in 1..Len(Order) /\ 1 \in 1..Len(Specs)
    BY OrderAssumption, SpecsAssumption
  <2>2. held \in [Paths -> SUBSET Probes] /\ open \in [Paths \X Probes -> Nat]
    BY DEF Init
  <2>3. /\ found \subseteq Paths /\ attached \subseteq Paths /\ links \subseteq Probes
        /\ pos \in 1..Len(Order) /\ hook \in 1..Len(Specs)
        /\ closer \in 0..4 /\ deferred \in 0..4
    BY <2>1 DEF Init
  <2>4. main = "idle" /\ initial = TRUE /\ cancelled = FALSE
    BY DEF Init
  <2>5. QED  BY <2>2, <2>3, <2>4 DEF TypeOK
<1>2. LinksInv  BY DEF Init, LinksInv, Attaching, Owned
<1>3. HooksInv  BY DEF Init, HooksInv
<1>4. EndInv  BY DEF Init, EndInv
<1>5. QED  BY <1>1, <1>2, <1>3, <1>4 DEF IInv

\* A step between two attachments: no link is made or closed.
LEMMA BetweenStep ==
  ASSUME IInv, links = {}, deferred = 0, TypeOK', main' # "returned", ~Attaching',
         UNCHANGED <<links, held, attached, open, deferred>>
  PROVE  IInv'
<1> USE DEF IInv
<1>1. LinksInv'  BY DEF LinksInv, Owned, Attaching
<1>2. HooksInv'  BY DEF HooksInv, Attaching
<1>3. EndInv'  BY DEF EndInv
<1>4. QED  BY <1>1, <1>2, <1>3

\* Beginning a pass, a finder or OpenExecutable that fails, and leaving the loop
\* are such steps.
LEMMA BeginPassIInv ==
  ASSUME IInv, \/ \E paths \in SUBSET Paths : BeginPass(paths)
               \/ FinderFails \/ OpenFails \/ LeaveLoop
  PROVE  IInv'
<1> USE DEF IInv
<1>1. main \in {"idle", "check"}
  BY DEF BeginPass, FinderFails, OpenFails, LeaveLoop
<1>2. links = {} /\ deferred = 0
  BY <1>1 DEF LinksInv, EndInv, Attaching, TypeOK
<1>3. /\ main' \in {"check", "returning", "idle"}
      /\ UNCHANGED <<links, held, attached, open, deferred, closer, cancelled, initial>>
  BY DEF BeginPass, FinderFails, OpenFails, LeaveLoop, PassFails, passVars, linkVars, endVars
<1>4. found' \subseteq Paths /\ pos' \in 1..Len(Order) /\ hook' \in 1..Len(Specs)
  BY OrderAssumption, SpecsAssumption
  DEF BeginPass, FinderFails, OpenFails, LeaveLoop, passVars, TypeOK
<1>5. TypeOK'  BY <1>3, <1>4 DEF TypeOK
<1>6. QED  BY <1>2, <1>3, <1>5, BetweenStep DEF Attaching

\* Skipping a path is one; beginning to attach one starts with no links.
LEMMA CheckPathIInv ==
  ASSUME IInv, CheckPath
  PROVE  IInv'
<1> USE DEF IInv
<1>1. /\ links = {} /\ deferred = 0
      /\ UNCHANGED <<links, held, attached, open, deferred, closer, cancelled, found>>
  BY DEF CheckPath, LinksInv, EndInv, Attaching, TypeOK, linkVars, endVars
<1>2. CASE NextPath /\ UNCHANGED hook
  <2>1. TypeOK'  BY <1>1, <1>2, NextPathStep DEF TypeOK
  <2>2. QED  BY <1>1, <1>2, <2>1, NextPathStep, BetweenStep DEF Attaching
<1>3. CASE Path \notin attached /\ main' = "enter" /\ hook' = 1 /\ UNCHANGED <<pos, initial>>
  <2>1. TypeOK'  BY <1>1, <1>3, SpecsAssumption DEF TypeOK
  <2>2. LinksInv'  BY <1>1, <1>3 DEF LinksInv, Owned, Path, Attaching
  <2>3. HooksInv'  BY <1>1, <1>3 DEF HooksInv, WholeAt
  <2>4. EndInv'  BY <1>1, <1>3 DEF EndInv
  <2>5. QED  BY <2>1, <2>2, <2>3, <2>4
<1>4. QED  BY <1>2, <1>3 DEF CheckPath, Known

\* One more link of the current path, and one less, keep the count right.
LEMMA OneLink ==
  ASSUME TypeOK, LinksInv, Attaching, Attaching', NEW y \in Probes,
         UNCHANGED <<pos, held, attached>>,
         \/ y \notin links /\ links' = links \cup {y} /\ open' = Opened(Path, {y})
         \/ y \in links /\ links' = links \ {y} /\ open' = Released(Path, {y})
         \/ UNCHANGED <<links, open>>
  PROVE  /\ links' \subseteq Probes
         /\ open' \in [Paths \X Probes -> Nat]
         /\ LinksInv'
<1>1. Path \in Paths /\ Path' = Path /\ held[Path] = {}
  BY Current DEF Path, LinksInv
<1>2. open \in [Paths \X Probes -> Nat]  BY DEF TypeOK
<1>3. \A p \in Paths, x \in Probes :
        open'[<<p, x>>] = IF x \in held[p] \/ (p = Path /\ x \in links') THEN 1 ELSE 0
  <2> SUFFICES ASSUME NEW p \in Paths, NEW x \in Probes
               PROVE  open'[<<p, x>>] = IF x \in held[p] \/ (p = Path /\ x \in links') THEN 1 ELSE 0
    OBVIOUS
  <2>1. open[<<p, x>>] = IF x \in held[p] \/ (p = Path /\ x \in links) THEN 1 ELSE 0
    BY DEF LinksInv, Owned
  <2>2. /\ Opened(Path, {y})[<<p, x>>] = open[<<p, x>>] + IF p = Path /\ x = y THEN 1 ELSE 0
        /\ Released(Path, {y})[<<p, x>>] = open[<<p, x>>] - IF p = Path /\ x = y THEN 1 ELSE 0
    BY <1>2 DEF Opened, Released
  <2>3. QED  BY <1>1, <2>1, <2>2
<1>4. /\ links' \subseteq Probes
      /\ DOMAIN open' = Paths \X Probes
      /\ open' = [z \in Paths \X Probes |-> open'[z]]
  BY <1>2 DEF TypeOK, Opened, Released
<1>5. open' \in [Paths \X Probes -> Nat]
  <2>1. \A z \in Paths \X Probes : open'[z] \in Nat
    BY <1>3
  <2>2. QED  BY <1>4, <2>1
<1>6. LinksInv'
  BY <1>1, <1>3 DEF LinksInv, Owned, Attaching
<1>7. QED  BY <1>4, <1>5, <1>6

\* When the current hook is whole, the loop goes on to the next hook or to the
\* store.
LEMMA HookStep ==
  ASSUME IInv, main \in {"enter", "ret"}, NextHook, WholeAt(links', hook),
         NEW k \in {"enter", "ret"}, NEW y, y = <<hook, k>>,
         \/ y \notin links /\ links' = links \cup {y} /\ open' = Opened(Path, {y})
         \/ y \in links /\ links' = links \ {y} /\ open' = Released(Path, {y})
         \/ UNCHANGED <<links, open>>,
         UNCHANGED <<initial, found, pos, held, attached, cancelled, closer, deferred>>
  PROVE  IInv'
<1> USE DEF IInv
<1>1. /\ Len(Specs) \in Nat /\ hook \in Nat /\ hook \in 1..Len(Specs) /\ y \in Probes
      /\ pos \in 1..Len(Order)
  BY Current DEF TypeOK
<1>2. \/ hook < Len(Specs) /\ hook' = hook + 1 /\ main' = "enter"
      \/ hook = Len(Specs) /\ hook' = hook /\ main' = "store"
  BY NextHookStep
<1>3. links' \subseteq Probes /\ open' \in [Paths \X Probes -> Nat] /\ LinksInv'
  BY <1>1, <1>2, OneLink DEF Attaching
<1>4. \A i \in 1..Len(Specs), j \in {"enter", "ret"} :
        i # hook => (<<i, j>> \in links' <=> <<i, j>> \in links)
  OBVIOUS
<1>5. \A i \in 1..hook : WholeAt(links', i)
  <2>1. \A i \in 1..(hook - 1) : WholeAt(links, i)
    BY DEF HooksInv
  <2> SUFFICES ASSUME NEW i \in 1..hook PROVE WholeAt(links', i)
    OBVIOUS
  <2>2. CASE i = hook  BY <2>2
  <2>3. CASE i # hook
    <3>1. i \in 1..(hook - 1) /\ i \in 1..Len(Specs)  BY <1>1, <2>3
    <3>2. WholeAt(links, i)  BY <2>1, <3>1
    <3>3. QED  BY <1>4, <2>3, <3>1, <3>2 DEF WholeAt
  <2>4. QED  BY <2>2, <2>3
<1>6. \A i \in (hook + 1)..Len(Specs), j \in {"enter", "ret"} : <<i, j>> \notin links'
  <2>1. \A i \in (hook + 1)..Len(Specs), j \in {"enter", "ret"} : <<i, j>> \notin links
    BY DEF HooksInv
  <2>2. \A i \in (hook + 1)..Len(Specs) : i \in 1..Len(Specs) /\ i # hook
    BY <1>1
  <2>3. QED  BY <1>4, <2>1, <2>2
<1>7. \A p \in attached', i \in 1..Len(Specs) : WholeAt(held'[p], i)
  BY DEF HooksInv
<1>8. HooksInv'
  <2>1. CASE hook < Len(Specs) /\ hook' = hook + 1 /\ main' = "enter"
    <3>1. \A i \in 1..(hook' - 1) : WholeAt(links', i)
      BY <1>1, <1>5, <2>1
    <3>2. \A i \in (hook' + 1)..Len(Specs) \cup {hook'} : i \in (hook + 1)..Len(Specs)
      BY <1>1, <2>1
    <3>3. /\ <<hook', "ret">> \notin links' /\ <<hook', "enter">> \notin links'
          /\ \A i \in (hook' + 1)..Len(Specs), j \in {"enter", "ret"} : <<i, j>> \notin links'
      BY <1>6, <3>2
    <3>4. QED  BY <2>1, <3>1, <3>3, <1>7 DEF HooksInv, WholeAt
  <2>2. CASE hook = Len(Specs) /\ main' = "store"
    BY <2>2, <1>5, <1>7 DEF HooksInv, WholeAt
  <2>3. QED  BY <1>2, <2>1, <2>2
<1>9. hook' \in 1..Len(Specs) /\ main' \in {"enter", "store"}
  BY <1>1, <1>2
<1>10. TypeOK'  BY <1>3, <1>9 DEF TypeOK
<1>11. EndInv'  BY <1>9 DEF EndInv
<1>12. QED  BY <1>3, <1>8, <1>10, <1>11

\* An entry probe that attaches: its hook is whole unless its return probe is
\* still to come.
LEMMA AttachEnterIInv ==
  ASSUME IInv, AttachEnter
  PROVE  IInv'
<1> USE DEF IInv
<1> DEFINE y == <<hook, "enter">>
<1>1. /\ main = "enter" /\ links' = links \cup {y} /\ open' = Opened(Path, {y})
      /\ UNCHANGED <<initial, found, pos, held, attached, cancelled, closer, deferred>>
  BY DEF AttachEnter, endVars
<1>2. y \notin links /\ <<hook, "ret">> \notin links
  BY <1>1 DEF HooksInv
<1>3. CASE Hook.paired /\ main' = "ret" /\ hook' = hook
  <2>1. links' \subseteq Probes /\ open' \in [Paths \X Probes -> Nat] /\ LinksInv'
    BY <1>1, <1>2, <1>3, Current, OneLink DEF Attaching
  <2>2. TypeOK'  BY <1>1, <1>3, <2>1 DEF TypeOK
  <2>3. EndInv'  BY <1>1, <1>3 DEF EndInv
  <2>4. Hook' = Hook  BY <1>3 DEF Hook
  <2>5. /\ hook \in Nat /\ Len(Specs) \in Nat
        /\ \A i \in 1..(hook - 1) : WholeAt(links, i)
        /\ \A i \in (hook + 1)..Len(Specs), k \in {"enter", "ret"} : <<i, k>> \notin links
        /\ \A p \in attached', i \in 1..Len(Specs) : WholeAt(held'[p], i)
    BY <1>1, Current DEF HooksInv
  <2>6. \A i \in 1..(hook - 1) \cup (hook + 1)..Len(Specs), k \in {"enter", "ret"} :
          <<i, k>> \in links' <=> <<i, k>> \in links
    <3>1. \A i \in 1..(hook - 1) \cup (hook + 1)..Len(Specs) : i # hook  BY <2>5
    <3>2. QED  BY <1>1, <3>1
  <2>7. \A i \in 1..(hook - 1) : WholeAt(links', i)
    BY <2>5, <2>6 DEF WholeAt
  <2>8. \A i \in (hook + 1)..Len(Specs), k \in {"enter", "ret"} : <<i, k>> \notin links'
    BY <2>5, <2>6
  <2>9. <<hook', "ret">> \notin links' /\ <<hook', "enter">> \in links'
    BY <1>1, <1>2, <1>3
  <2>10. HooksInv'
    BY <1>3, <2>4, <2>5, <2>7, <2>8, <2>9 DEF HooksInv, WholeAt
  <2>11. QED  BY <2>1, <2>2, <2>3, <2>10
<1>4. CASE ~Hook.paired /\ NextHook
  <2>1. WholeAt(links', hook)
    BY <1>1, <1>4 DEF WholeAt, Hook
  <2>2. QED  BY <1>1, <1>2, <1>4, <2>1, HookStep
<1>5. QED  BY <1>3, <1>4 DEF AttachEnter

\* A return probe that attaches, and a hook that is skipped.
LEMMA OtherHooksIInv ==
  ASSUME IInv, SkipEnter \/ AttachRet \/ SkipRet
  PROVE  IInv'
<1> USE DEF IInv
<1>1. CASE SkipEnter
  <2>1. /\ main = "enter" /\ Specs[hook].optional /\ NextHook
        /\ UNCHANGED <<initial, found, pos, links, held, attached, open,
                       cancelled, closer, deferred>>
    BY <1>1 DEF SkipEnter, Hook, linkVars, endVars
  <2>2. WholeAt(links', hook)
    BY <2>1 DEF WholeAt, HooksInv
  <2>3. QED  BY <2>1, <2>2, HookStep
<1>2. CASE AttachRet
  <2> DEFINE y == <<hook, "ret">>
  <2>1. /\ main = "ret" /\ NextHook
        /\ links' = links \cup {y} /\ open' = Opened(Path, {y})
        /\ UNCHANGED <<initial, found, pos, held, attached, cancelled, closer, deferred>>
    BY <1>2 DEF AttachRet, endVars
  <2>2. y \notin links /\ <<hook, "enter">> \in links
    BY <2>1 DEF HooksInv
  <2>3. WholeAt(links', hook)
    BY <2>1, <2>2 DEF WholeAt
  <2>4. QED  BY <2>1, <2>2, <2>3, HookStep
<1>3. CASE SkipRet
  <2> DEFINE y == <<hook, "enter">>
  <2>1. /\ main = "ret" /\ Specs[hook].optional /\ NextHook
        /\ links' = links \ {y} /\ open' = Released(Path, {y})
        /\ UNCHANGED <<initial, found, pos, held, attached, cancelled, closer, deferred>>
    BY <1>3 DEF SkipRet, Hook, endVars
  <2>2. y \in links /\ <<hook, "ret">> \notin links
    BY <2>1 DEF HooksInv
  <2>3. WholeAt(links', hook)
    BY <2>1, <2>2 DEF WholeAt
  <2>4. QED  BY <2>1, <2>2, <2>3, HookStep
<1>4. QED  BY <1>1, <1>2, <1>3


\* An attach that fails closes what it had attached.
LEMMA AttachFailsIInv ==
  ASSUME IInv, AttachFails
  PROVE  IInv'
<1> USE DEF IInv
<1>1. /\ main \in {"enter", "ret"} /\ main' \in {"returning", "idle"}
      /\ links' = {} /\ open' = Released(Path, links)
      /\ UNCHANGED <<initial, found, pos, hook, held, attached, cancelled, closer, deferred>>
  BY DEF AttachFails, PassFails, passVars, endVars
<1>2. Path \in Paths /\ held[Path] = {} /\ deferred = 0
  BY <1>1, Current DEF LinksInv, EndInv, Attaching, TypeOK
<1>3. open \in [Paths \X Probes -> Nat]  BY DEF TypeOK
<1>4. \A p \in Paths, x \in Probes :
        open'[<<p, x>>] = IF x \in held[p] THEN 1 ELSE 0
  <2> SUFFICES ASSUME NEW p \in Paths, NEW x \in Probes
               PROVE  open'[<<p, x>>] = IF x \in held[p] THEN 1 ELSE 0
    OBVIOUS
  <2>1. open[<<p, x>>] = IF x \in held[p] \/ (p = Path /\ x \in links) THEN 1 ELSE 0
    BY DEF LinksInv, Owned
  <2>2. Released(Path, links)[<<p, x>>] =
          open[<<p, x>>] - IF p = Path /\ x \in links THEN 1 ELSE 0
    BY <1>3 DEF Released
  <2>3. QED  BY <1>1, <1>2, <2>1, <2>2
<1>5. open' \in [Paths \X Probes -> Nat]
  <2>1. open' = [z \in Paths \X Probes |-> open'[z]]
    BY <1>1, <1>3 DEF Released
  <2>2. \A z \in Paths \X Probes : open'[z] \in Nat
    BY <1>4
  <2>3. QED  BY <2>1, <2>2
<1>6. LinksInv'  BY <1>1, <1>4 DEF LinksInv, Owned, Attaching
<1>7. HooksInv'  BY <1>1 DEF HooksInv
<1>8. EndInv'  BY <1>1, <1>2 DEF EndInv
<1>9. TypeOK'  BY <1>1, <1>5 DEF TypeOK
<1>10. QED  BY <1>6, <1>7, <1>8, <1>9

\* The links of an attached path become the loader's.
LEMMA StoreIInv ==
  ASSUME IInv, Store
  PROVE  IInv'
<1> USE DEF IInv
<1>1. /\ main = "store" /\ held' = [held EXCEPT ![Path] = links]
      /\ attached' = attached \cup {Path} /\ links' = {} /\ NextPath
      /\ UNCHANGED <<found, hook, open, cancelled, closer, deferred>>
  BY DEF Store, endVars
<1>2. main' \in {"check", "idle"} /\ pos' \in 1..Len(Order) /\ initial' \in BOOLEAN
  BY <1>1, NextPathStep
<1>3. Path \in Paths /\ Path \notin attached /\ held[Path] = {} /\ deferred = 0
  BY <1>1, Current DEF LinksInv, EndInv, Attaching, TypeOK
<1>4. /\ held' \in [Paths -> SUBSET Probes]
      /\ \A p \in Paths : held'[p] = IF p = Path THEN links ELSE held[p]
  BY <1>1, <1>3 DEF TypeOK
<1>5. TypeOK'  BY <1>1, <1>2, <1>3, <1>4 DEF TypeOK
<1>6. LinksInv'
  <2>1. \A p \in Paths, x \in Probes : Owned(p, x) <=> x \in held'[p]
    BY <1>3, <1>4 DEF Owned
  <2>2. \A p \in Paths, x \in Probes :
          open'[<<p, x>>] = IF x \in held'[p] THEN 1 ELSE 0
    BY <1>1, <2>1 DEF LinksInv
  <2>3. \A p \in Paths \ attached' : held'[p] = {}
    BY <1>1, <1>4 DEF LinksInv
  <2>4. QED  BY <1>1, <1>2, <2>2, <2>3 DEF LinksInv, Owned, Attaching
<1>7. HooksInv'
  <2>1. \A p \in attached', i \in 1..Len(Specs) : WholeAt(held'[p], i)
    BY <1>1, <1>3, <1>4 DEF HooksInv, TypeOK
  <2>2. QED  BY <1>2, <2>1 DEF HooksInv
<1>8. EndInv'  BY <1>1, <1>2, <1>3 DEF EndInv
<1>9. QED  BY <1>5, <1>6, <1>7, <1>8

\* Closing the links of a loader releases the probes of its attached paths and
\* of no other.
LEMMA CloseLinksStep ==
  ASSUME IInv, NEW l \in Loaders, CloseLinks(l),
         UNCHANGED <<main, initial, found, pos, hook, links>>
  PROVE  /\ held' \in [Paths -> SUBSET Probes]
         /\ open' \in [Paths \X Probes -> Nat]
         /\ attached' \subseteq attached
         /\ \A p \in attached' : LoaderOf[p] # l
         /\ LinksInv' /\ HooksInv'
<1> USE DEF IInv
<1> DEFINE mine == {p \in attached : LoaderOf[p] = l}
<1>1. /\ open' = [x \in DOMAIN open |->
                    open[x] - IF x[1] \in mine /\ x[2] \in held[x[1]] THEN 1 ELSE 0]
      /\ held' = [p \in Paths |-> IF p \in mine THEN {} ELSE held[p]]
      /\ attached' = attached \ mine
  BY DEF CloseLinks
<1>2. /\ open \in [Paths \X Probes -> Nat] /\ held \in [Paths -> SUBSET Probes]
      /\ attached \subseteq Paths /\ Path' = Path
  BY DEF TypeOK, Path
<1>3. attached' \subseteq attached /\ \A p \in attached' : LoaderOf[p] # l
  BY <1>1
<1>4. mine \subseteq attached  OBVIOUS
<1> HIDE DEF mine
<1>5. held' \in [Paths -> SUBSET Probes]  BY <1>1, <1>2
<1>6. \A p \in Paths, x \in Probes : p \in mine => ~(p = Path /\ x \in links)
  BY <1>4 DEF LinksInv, Attaching
<1>7. \A p \in Paths, x \in Probes :
        open'[<<p, x>>] = IF x \in held'[p] \/ (p = Path /\ x \in links) THEN 1 ELSE 0
  <2> SUFFICES ASSUME NEW p \in Paths, NEW x \in Probes
               PROVE  open'[<<p, x>>] =
                        IF x \in held'[p] \/ (p = Path /\ x \in links) THEN 1 ELSE 0
    OBVIOUS
  <2>1. open[<<p, x>>] = IF x \in held[p] \/ (p = Path /\ x \in links) THEN 1 ELSE 0
    BY DEF LinksInv, Owned
  <2>2. open'[<<p, x>>] = open[<<p, x>>] - IF p \in mine /\ x \in held[p] THEN 1 ELSE 0
    BY <1>1, <1>2
  <2>3. held'[p] = IF p \in mine THEN {} ELSE held[p]
    BY <1>1
  <2>4. QED  BY <1>6, <2>1, <2>2, <2>3
<1>8. open' \in [Paths \X Probes -> Nat]
  <2>1. open' = [z \in Paths \X Probes |-> open'[z]]
    BY <1>1, <1>2
  <2>2. \A z \in Paths \X Probes : open'[z] \in Nat
    BY <1>7
  <2>3. QED  BY <2>1, <2>2
<1>9. LinksInv'
  <2>1. \A p \in Paths \ attached' : held'[p] = {}
    BY <1>1 DEF LinksInv
  <2>2. QED  BY <1>2, <1>3, <1>7, <2>1 DEF LinksInv, Owned, Attaching
<1>10. HooksInv'
  <2>1. \A p \in attached' : p \in attached /\ held'[p] = held[p]
    BY <1>1, <1>2
  <2>2. \A p \in attached', i \in 1..Len(Specs) : WholeAt(held'[p], i)
    BY <2>1 DEF HooksInv
  <2>3. Hook' = Hook  BY DEF Hook
  <2>4. QED  BY <2>2, <2>3 DEF HooksInv, WholeAt
<1>11. QED  BY <1>3, <1>5, <1>8, <1>9, <1>10


\* A step of the goroutine that closes both loaders.
LEMMA CloserIInv ==
  ASSUME IInv, CloserStep
  PROVE  IInv'
<1> USE DEF IInv
<1> DEFINE l == (closer' + 1) \div 2
<1>1. /\ closer \in 0..3 /\ closer' = closer + 1 /\ CloseStep(closer', l)
      /\ UNCHANGED <<main, initial, found, pos, hook, links, cancelled, deferred>>
  BY DEF CloserStep, passVars, TypeOK
<1>2. closer' \in 0..4 /\ l \in Loaders
  BY <1>1 DEF Loaders
<1> HIDE DEF l
<1>3. CASE UNCHANGED <<held, attached, open>>
  <2>1. TypeOK'  BY <1>1, <1>2, <1>3 DEF TypeOK
  <2>2. LinksInv'  BY <1>1, <1>3 DEF LinksInv, Owned, Attaching, Path
  <2>3. HooksInv'  BY <1>1, <1>3 DEF HooksInv, Hook
  <2>4. EndInv'  BY <1>1, <1>3 DEF EndInv
  <2>5. QED  BY <2>1, <2>2, <2>3, <2>4
<1>4. CASE CloseLinks(l)
  <2>1. /\ held' \in [Paths -> SUBSET Probes] /\ open' \in [Paths \X Probes -> Nat]
        /\ attached' \subseteq attached /\ LinksInv' /\ HooksInv'
    BY <1>1, <1>2, <1>4, CloseLinksStep
  <2>2. TypeOK'  BY <1>1, <1>2, <2>1 DEF TypeOK
  <2>3. EndInv'  BY <1>1, <2>1 DEF EndInv
  <2>4. QED  BY <2>1, <2>2, <2>3
<1>5. QED  BY <1>1, <1>3, <1>4 DEF CloseStep

\* A deferred call of Run, and its return after the last one.
LEMMA DeferredIInv ==
  ASSUME IInv, DeferredStep
  PROVE  IInv'
<1> USE DEF IInv
<1> DEFINE l == 2 - deferred \div 2
<1>1. /\ main = "returning" /\ deferred \in 0..4
      /\ UNCHANGED <<initial, found, pos, hook, links, cancelled, closer>>
  BY DEF DeferredStep, passVars, TypeOK
<1>2. CASE deferred = 4 /\ main' = "returned" /\ UNCHANGED <<deferred, held, attached, open>>
  <2>1. TypeOK'  BY <1>1, <1>2 DEF TypeOK
  <2>2. LinksInv'  BY <1>1, <1>2 DEF LinksInv, Owned, Attaching, Path
  <2>3. HooksInv'  BY <1>1, <1>2 DEF HooksInv
  <2>4. EndInv'  BY <1>1, <1>2 DEF EndInv
  <2>5. QED  BY <2>1, <2>2, <2>3, <2>4
<1>3. CASE deferred < 4 /\ main' = main /\ deferred' = deferred + 1 /\ CloseStep(deferred', l)
  <2>1. deferred \in 0..3 /\ deferred' \in 1..4 /\ l \in Loaders
    BY <1>1, <1>3 DEF Loaders
  <2>2. CASE deferred % 2 = 1
    <3>1. deferred' % 2 # 1 /\ (deferred' = 2 \/ deferred' = 4)
      BY <2>1, <2>2, <1>3
    <3>2. UNCHANGED <<held, attached, open>>
      BY <1>3, <3>1 DEF CloseStep
    <3>3. TypeOK'  BY <1>1, <1>3, <2>1, <3>2 DEF TypeOK
    <3>4. LinksInv'  BY <1>1, <1>3, <3>2 DEF LinksInv, Owned, Attaching, Path
    <3>5. HooksInv'  BY <1>1, <1>3, <3>2 DEF HooksInv, Hook
    <3>6. EndInv'  BY <1>1, <1>3, <2>1, <2>2, <3>2 DEF EndInv
    <3>7. QED  BY <3>3, <3>4, <3>5, <3>6
  <2>3. CASE deferred % 2 # 1
    <3>1. \/ deferred = 0 /\ deferred' = 1 /\ l = 2
          \/ deferred = 2 /\ deferred' = 3 /\ l = 1
      BY <1>3, <2>1, <2>3
    <3>2. CloseLinks(l)
      BY <1>3, <3>1 DEF CloseStep
    <3>3. /\ held' \in [Paths -> SUBSET Probes] /\ open' \in [Paths \X Probes -> Nat]
          /\ attached' \subseteq attached /\ \A p \in attached' : LoaderOf[p] # l
          /\ LinksInv' /\ HooksInv'
      <4> HIDE DEF l
      <4> QED  BY <1>1, <1>3, <2>1, <3>2, CloseLinksStep
    <3>4. TypeOK'  BY <1>1, <1>3, <2>1, <3>3 DEF TypeOK
    <3>5. EndInv'  BY <1>1, <1>3, <3>1, <3>3 DEF EndInv
    <3>6. QED  BY <3>3, <3>4, <3>5
  <2>4. QED  BY <2>2, <2>3
<1>4. QED  BY <1>1, <1>2, <1>3 DEF DeferredStep

\* A step that changes nothing the invariant is about.
LEMMA IdleIInv ==
  ASSUME IInv, Cancel \/ UNCHANGED vars
  PROVE  IInv'
<1> USE DEF IInv
<1>1. /\ UNCHANGED <<main, initial, found, pos, hook, links, held, attached, open,
                     closer, deferred>>
      /\ cancelled' \in BOOLEAN
  BY DEF Cancel, vars, passVars, linkVars, endVars, TypeOK
<1>2. TypeOK'  BY <1>1 DEF TypeOK
<1>3. LinksInv'  BY <1>1 DEF LinksInv, Owned, Attaching, Path
<1>4. HooksInv'  BY <1>1 DEF HooksInv, Hook
<1>5. EndInv'  BY <1>1 DEF EndInv
<1>6. QED  BY <1>2, <1>3, <1>4, <1>5

\* IInv holds in every reachable state.
THEOREM Invariance == Spec => []IInv
<1>1. Init => IInv  BY InitIInv
<1>2. IInv /\ [Next]_vars => IInv'
  <2> SUFFICES ASSUME IInv, [Next]_vars PROVE IInv'  OBVIOUS
  <2>1. CASE \/ \E paths \in SUBSET Paths : BeginPass(paths)
             \/ FinderFails \/ OpenFails \/ LeaveLoop
    BY <2>1, BeginPassIInv
  <2>2. CASE CheckPath  BY <2>2, CheckPathIInv
  <2>3. CASE AttachEnter  BY <2>3, AttachEnterIInv
  <2>4. CASE SkipEnter \/ AttachRet \/ SkipRet  BY <2>4, OtherHooksIInv
  <2>5. CASE AttachFails  BY <2>5, AttachFailsIInv
  <2>6. CASE Store  BY <2>6, StoreIInv
  <2>7. CASE CloserStep  BY <2>7, CloserIInv
  <2>8. CASE DeferredStep  BY <2>8, DeferredIInv
  <2>9. CASE Cancel \/ UNCHANGED vars  BY <2>9, IdleIInv
  <2>10. QED
    BY <2>1, <2>2, <2>3, <2>4, <2>5, <2>6, <2>7, <2>8, <2>9 DEF Next, Pass, Terminated
<1>3. QED  BY <1>1, <1>2, PTL DEF Spec

-------------------------------------------------------------------------------
\* The loaders' tables, the counts of links and Run's position keep their types
\* (attachLibraries, AttachLibraryPath, Close).
THEOREM TypeCorrect == Spec => []TypeOK
<1>1. IInv => TypeOK  BY DEF IInv
<1>2. QED  BY <1>1, Invariance, PTL

\* A link in the kernel is in a loader's table or belongs to the path being
\* attached: no failed attach and no closing leaves one behind.
THEOREM LinksOwned == Spec => []LinksAreOwned
<1>1. IInv => LinksAreOwned
  BY DEF IInv, LinksInv, Owned, LinksAreOwned
<1>2. QED  BY <1>1, Invariance, PTL

\* No library has a probe twice, however many passes find it.
THEOREM ProbedOnce == Spec => []NoDoubleProbe
<1>1. IInv => NoDoubleProbe
  <2> SUFFICES ASSUME IInv, NEW p \in Paths, NEW x \in Probes PROVE open[<<p, x>>] <= 1
    BY DEF NoDoubleProbe
  <2>1. open[<<p, x>>] = IF Owned(p, x) THEN 1 ELSE 0
    BY DEF IInv, LinksInv
  <2>2. QED  BY <2>1
<1>2. QED  BY <1>1, Invariance, PTL

\* An attached library has its required hooks, and no hook with an entry probe
\* only.
THEOREM HooksWhole == Spec => []HooksAreWhole
<1>1. IInv => HooksAreWhole
  BY DEF IInv, HooksInv, WholeAt, HooksAreWhole
<1>2. QED  BY <1>1, Invariance, PTL

\* When Run has returned, no probe is left in the kernel, whatever the goroutine
\* that closes the loaders did before or during the last pass.
THEOREM ClosedInTheEnd == Spec => []ClosedAfterRun
<1>1. IInv => ClosedAfterRun
  <2> SUFFICES ASSUME IInv, main = "returned", NEW p \in Paths, NEW x \in Probes
               PROVE  open[<<p, x>>] = 0
    BY DEF ClosedAfterRun
  <2>1. deferred = 4  BY DEF IInv, EndInv
  <2>2. p \notin attached
    <3>1. LoaderOf[p] \in {1, 2}  BY OrderAssumption DEF Loaders
    <3>2. p \in attached => LoaderOf[p] # 1 /\ LoaderOf[p] # 2
      BY <2>1 DEF IInv, EndInv
    <3>3. QED  BY <3>1, <3>2
  <2>3. ~Owned(p, x)
    BY <2>2 DEF IInv, LinksInv, Owned, Attaching
  <2>4. QED  BY <2>3 DEF IInv, LinksInv
<1>2. QED  BY <1>1, Invariance, PTL

-------------------------------------------------------------------------------
(* A pass comes to its end *)

\* A path takes at most this many steps: two a hook, its check and its store.
PerPath == 2 * Len(Specs) + 3

\* A bound on the steps the pass under way has still to take.
PassLeft ==
  CASE main = "check" -> (Len(Order) - pos) * PerPath + 2 * Len(Specs) + 2
    [] main = "enter" -> (Len(Order) - pos) * PerPath + 2 * (Len(Specs) - hook) + 3
    [] main = "ret"   -> (Len(Order) - pos) * PerPath + 2 * (Len(Specs) - hook) + 2
    [] main = "store" -> (Len(Order) - pos) * PerPath + 1
    [] OTHER          -> 0

\* Each step of a pass that has begun brings it nearer to its end, whichever
\* symbols, files or programs are missing, and the goroutine that closes the
\* loaders at the same time neither stops it nor sends it back: a tick never
\* keeps Run from its events for longer than the libraries have hooks.
PassAdvances ==
  [][/\ Pass /\ main # "idle" => PassLeft' < PassLeft
     /\ Cancel \/ CloserStep => PassLeft' = PassLeft]_vars

\* What is left of the later paths, before and after the next one.
LEMMA LaterPaths ==
  ASSUME TypeOK
  PROVE  /\ Len(Order) \in Nat /\ pos \in Nat /\ pos <= Len(Order) /\ PerPath \in Nat
         /\ (Len(Order) - pos) * PerPath \in Nat
         /\ pos < Len(Order) =>
              /\ (Len(Order) - (pos + 1)) * PerPath = (Len(Order) - pos) * PerPath - PerPath
              /\ (Len(Order) - (pos + 1)) * PerPath \in Nat
<1>1. Len(Order) \in Nat /\ pos \in 1..Len(Order) /\ PerPath \in Nat
  BY Current DEF TypeOK, PerPath
<1> DEFINE n == Len(Order)
           k == PerPath
<1> HIDE DEF n, k
<1>2. n \in Nat /\ pos \in 1..n /\ k \in Nat
  BY <1>1 DEF n, k
<1>3. /\ (n - pos) * k \in Nat /\ (n - (pos + 1)) * k = (n - pos) * k - k
      /\ pos < n => (n - (pos + 1)) * k \in Nat
  BY <1>2
<1>4. QED  BY <1>2, <1>3 DEF n, k

\* The next path, or the end of the pass, is nearer than the store before it.
LEMMA NextPathNearer ==
  ASSUME TypeOK, NextPath
  PROVE  PassLeft' \in Nat /\ PassLeft' < (Len(Order) - pos) * PerPath + 1
<1> DEFINE rest == (Len(Order) - pos) * PerPath
<1>1. SUFFICES PassLeft' \in Nat /\ PassLeft' < rest + 1
  OBVIOUS
<1>2. /\ rest \in Nat /\ Len(Specs) \in Nat
      /\ pos < Len(Order) => /\ (Len(Order) - (pos + 1)) * PerPath = rest - PerPath
                             /\ rest - PerPath \in Nat
  BY LaterPaths, Current
<1> HIDE DEF rest
<1>3. CASE pos < Len(Order)
  <2>1. pos' = pos + 1 /\ main' = "check"
    BY <1>3 DEF NextPath
  <2>2. PassLeft' = (Len(Order) - (pos + 1)) * PerPath + 2 * Len(Specs) + 2
    BY <2>1 DEF PassLeft
  <2>3. PassLeft' = (rest - PerPath) + 2 * Len(Specs) + 2
    BY <1>2, <1>3, <2>2
  <2>4. PassLeft' \in Nat
    BY <1>2, <1>3, <2>3
  <2>5. PerPath = 2 * Len(Specs) + 3
    BY DEF PerPath
  <2>6. QED  BY <1>2, <2>3, <2>4, <2>5
<1>4. CASE ~(pos < Len(Order))
  <2>1. main' = "idle"
    BY <1>4 DEF NextPath
  <2>2. PassLeft' = 0
    BY <2>1 DEF PassLeft
  <2>3. QED  BY <1>2, <2>2
<1>5. QED  BY <1>3, <1>4

\* The next hook, or the store, is nearer than the probes of the hook before it.
LEMMA NextHookNearer ==
  ASSUME TypeOK, NextHook, pos' = pos
  PROVE  /\ PassLeft' \in Nat
         /\ PassLeft' < (Len(Order) - pos) * PerPath + 2 * (Len(Specs) - hook) + 2
<1> DEFINE rest == (Len(Order) - pos) * PerPath
<1>1. rest \in Nat /\ Len(Specs) \in Nat /\ hook \in Nat
  BY LaterPaths, Current
<1>2. \/ hook < Len(Specs) /\ hook' = hook + 1 /\ main' = "enter"
      \/ hook = Len(Specs) /\ hook' = hook /\ main' = "store"
  BY NextHookStep
<1>3. \/ main' = "enter" /\ PassLeft' = rest + 2 * (Len(Specs) - hook') + 3
      \/ main' = "store" /\ PassLeft' = rest + 1
  BY <1>2 DEF PassLeft
<1> HIDE DEF rest
<1>4. QED  BY <1>1, <1>2, <1>3 DEF rest

\* Every pass ends after a bounded number of steps.
THEOREM PassEnds == Spec => PassAdvances
<1> DEFINE A == /\ Pass /\ main # "idle" => PassLeft' < PassLeft
                /\ Cancel \/ CloserStep => PassLeft' = PassLeft
<1>1. TypeOK /\ [Next]_vars => [A]_vars
  <2> SUFFICES ASSUME TypeOK, Next PROVE A
    OBVIOUS
  <2> DEFINE rest == (Len(Order) - pos) * PerPath
  <2>1. rest \in Nat /\ Len(Specs) \in Nat /\ hook \in Nat /\ hook <= Len(Specs)
    BY LaterPaths, Current
  <2>2. /\ main = "check" => PassLeft = rest + 2 * Len(Specs) + 2
        /\ main = "enter" => PassLeft = rest + 2 * (Len(Specs) - hook) + 3
        /\ main = "ret" => PassLeft = rest + 2 * (Len(Specs) - hook) + 2
        /\ main = "store" => PassLeft = rest + 1
    BY DEF PassLeft
  <2>3. main' \in {"idle", "returning"} => PassLeft' = 0
    BY DEF PassLeft
  <2>4. NextPath => PassLeft' \in Nat /\ PassLeft' < rest + 1
    BY NextPathNearer
  <2>5. NextHook /\ pos' = pos
          => PassLeft' \in Nat /\ PassLeft' < rest + 2 * (Len(Specs) - hook) + 2
    BY NextHookNearer
  <2>6. pos' = pos => /\ main' = "enter" => PassLeft' = rest + 2 * (Len(Specs) - hook') + 3
                      /\ main' = "ret" => PassLeft' = rest + 2 * (Len(Specs) - hook') + 2
    BY DEF PassLeft
  <2> DEFINE now == PassLeft
             then == PassLeft'
  <2> HIDE DEF rest, now, then
  <2>7. ASSUME FinderFails \/ OpenFails \/ AttachFails PROVE then < now
    <3>1. main \in {"check", "enter", "ret"} /\ main' \in {"idle", "returning"}
      BY <2>7 DEF FinderFails, OpenFails, AttachFails, PassFails
    <3>2. then = 0  BY <2>3, <3>1 DEF then
    <3>3. QED  BY <2>1, <2>2, <3>1, <3>2 DEF now
  <2>8. ASSUME CheckPath PROVE then < now
    <3>1. now = rest + 2 * Len(Specs) + 2
      BY <2>2, <2>8 DEF CheckPath, now
    <3>2. NextPath \/ (main' = "enter" /\ hook' = 1 /\ pos' = pos)
      BY <2>8 DEF CheckPath
    <3>3. CASE NextPath
      BY <2>1, <2>4, <3>1, <3>3 DEF then
    <3>4. CASE main' = "enter" /\ hook' = 1 /\ pos' = pos
      BY <2>1, <2>6, <3>1, <3>4 DEF then
    <3>5. QED  BY <3>2, <3>3, <3>4
  <2>9. ASSUME AttachEnter \/ SkipEnter PROVE then < now
    <3>1. now = rest + 2 * (Len(Specs) - hook) + 3 /\ pos' = pos
      BY <2>2, <2>9 DEF AttachEnter, SkipEnter, now
    <3>2. NextHook \/ (main' = "ret" /\ hook' = hook)
      BY <2>9 DEF AttachEnter, SkipEnter
    <3>3. CASE NextHook
      BY <2>1, <2>5, <3>1, <3>3 DEF then
    <3>4. CASE main' = "ret" /\ hook' = hook
      BY <2>1, <2>6, <3>1, <3>4 DEF then
    <3>5. QED  BY <3>2, <3>3, <3>4
  <2>10. ASSUME AttachRet \/ SkipRet PROVE then < now
    <3>1. now = rest + 2 * (Len(Specs) - hook) + 2 /\ pos' = pos /\ NextHook
      BY <2>2, <2>10 DEF AttachRet, SkipRet, now
    <3>2. QED  BY <2>1, <2>5, <3>1 DEF then
  <2>11. ASSUME Store PROVE then < now
    <3>1. now = rest + 1 /\ NextPath
      BY <2>2, <2>11 DEF Store, now
    <3>2. QED  BY <2>1, <2>4, <3>1 DEF then
  <2>12. Cancel \/ CloserStep => PassLeft' = PassLeft
    BY DEF Cancel, CloserStep, passVars, PassLeft
  <2>13. Pass /\ main # "idle" => then < now
    BY <2>7, <2>8, <2>9, <2>10, <2>11 DEF Pass, BeginPass
  <2>14. QED  BY <2>12, <2>13 DEF now, then
<1>2. QED  BY <1>1, TypeCorrect, PTL DEF Spec, PassAdvances
===============================================================================
