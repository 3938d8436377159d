----------------------------- MODULE LibraryAttach -----------------------------
(***************************************************************************)
(* Attaching the OpenSSL and GnuTLS uprobes: attachLibraries and           *)
(* attachLibrarySet of pkg/fcktls/daemon.go, AttachLibraryPath and Close   *)
(* of the two loaders, attachUprobeSpecsWithOps of pkg/ebpf/attach.go.     *)
(*                                                                         *)
(* Run makes a pass over the libraries before its loop, and one more at    *)
(* each tick; meanwhile the goroutine that waits for the context may close *)
(* the loaders.  A loader's mutex covers the look-up in its attachments,   *)
(* the store and the closing of links, but not the attaching in between.   *)
(*                                                                         *)
(* A hook is an entry of the loader's attach specs: a symbol with an entry *)
(* probe and, if paired, a return probe.  open counts the links the kernel *)
(* holds.                                                                  *)
(*                                                                         *)
(* An operator X_Y is a faulty variant of the operator X below it.         *)
(***************************************************************************)
EXTENDS Naturals, Sequences, FiniteSets

CONSTANTS Order,       \* the library paths, OpenSSL's before GnuTLS's
          LoaderOf,    \* [path -> loader], 1 for OpenSSL and 2 for GnuTLS
          Specs,       \* the hooks in attach order: [paired, optional]
          Supported    \* paths whose required symbols all attach

Loaders == 1..2
Paths   == {Order[i] : i \in 1..Len(Order)}
Probes  == (1..Len(Specs)) \X {"enter", "ret"}

ASSUME OrderAssumption ==
  /\ Order # <<>> /\ Order \in Seq(Paths)
  /\ \A i, j \in 1..Len(Order) : Order[i] = Order[j] => i = j
  /\ LoaderOf \in [Paths -> Loaders]
  /\ Supported \subseteq Paths
ASSUME SpecsAssumption ==
  Specs # <<>> /\ Specs \in Seq([paired: BOOLEAN, optional: BOOLEAN])

VARIABLES main,       \* where Run is
          initial,    \* this pass is the one before the loop
          found,      \* paths the finders gave in this pass
          pos,        \* index in Order of the path being attached
          hook,       \* index in Specs of the hook being attached
          links,      \* attachUprobeSpecsWithOps's links
          held,       \* attachments: the probes of each attached path
          attached,   \* the keys of attachments
          open,       \* [path, probe -> links the kernel holds]
          cancelled, closer, deferred

passVars == <<initial, found, pos, hook>>
linkVars == <<links, held, attached, open>>
endVars  == <<cancelled, closer, deferred>>
vars == <<main, passVars, linkVars, endVars>>

Init ==
  /\ main = "idle"
  /\ initial = TRUE
  /\ found = {}
  /\ pos = 1
  /\ hook = 1
  /\ links = {}
  /\ held = [p \in Paths |-> {}]
  /\ attached = {}
  /\ open = [x \in Paths \X Probes |-> 0]
  /\ cancelled = FALSE
  /\ closer = 0
  /\ deferred = 0

Path == Order[pos]
Hook == Specs[hook]

\* Close works in two steps per loader: the links under the mutex, then the
\* reader and the programs; a probe of a closed program no longer attaches.
ObjectsClosed(l) == closer >= 2 * l \/ deferred >= 2 * (3 - l)

Opened(p, probes)  == [x \in DOMAIN open |-> open[x] +
                        IF x[1] = p /\ x[2] \in probes THEN 1 ELSE 0]
Released(p, probes) == [x \in DOMAIN open |-> open[x] -
                        IF x[1] = p /\ x[2] \in probes THEN 1 ELSE 0]

-------------------------------------------------------------------------------
(* A pass: attachLibraries *)

\* The finders answer for both loaders; a path they miss in this pass may be
\* there in the next one.
BeginPass(paths) ==
  /\ main = "idle"
  /\ main' = "check"
  /\ found' = paths
  /\ pos' = 1
  /\ hook' = 1
  /\ UNCHANGED <<initial, linkVars, endVars>>

\* An error ends the pass: Run returns it from the first one and ignores it in
\* a tick.
PassFails == main' = IF initial THEN "returning" ELSE "idle"

\* A finder is called before the first path of its loader.
FinderFails ==
  /\ main = "check"
  /\ \A i \in 1..(pos - 1) : LoaderOf[Order[i]] # LoaderOf[Path]
  /\ found' = {p \in found : LoaderOf[p] < LoaderOf[Path]}
  /\ PassFails
  /\ UNCHANGED <<initial, pos, hook, linkVars, endVars>>

NextPath ==
  IF pos < Len(Order)
  THEN pos' = pos + 1 /\ main' = "check" /\ UNCHANGED initial
  ELSE main' = "idle" /\ initial' = FALSE /\ UNCHANGED pos

Known_Never(p) == FALSE

Known(p) == p \in attached

\* AttachLibraryPath up to OpenExecutable, for each path the finder gave.
CheckPath ==
  /\ main = "check"
  /\ IF Path \notin found \/ Known(Path)
     THEN NextPath /\ UNCHANGED hook
     ELSE main' = "enter" /\ hook' = 1 /\ UNCHANGED <<pos, initial>>
  /\ UNCHANGED <<found, linkVars, endVars>>

OpenFails ==
  /\ main = "check"
  /\ Path \in found \ Supported
  /\ ~Known(Path)
  /\ PassFails
  /\ UNCHANGED <<passVars, linkVars, endVars>>

\* What attaching one probe may answer.
CanAttach == ~ObjectsClosed(LoaderOf[Path])
CanFail   == Path \notin Supported \/ ObjectsClosed(LoaderOf[Path])

NextHook ==
  IF hook < Len(Specs) THEN hook' = hook + 1 /\ main' = "enter"
                       ELSE main' = "store" /\ UNCHANGED hook

AttachEnter ==
  /\ main = "enter"
  /\ CanAttach
  /\ links' = links \cup {<<hook, "enter">>}
  /\ open' = Opened(Path, {<<hook, "enter">>})
  /\ IF Hook.paired THEN main' = "ret" /\ UNCHANGED hook ELSE NextHook
  /\ UNCHANGED <<initial, found, pos, held, attached, endVars>>

\* An optional hook whose symbol is not found is skipped.
SkipEnter ==
  /\ main = "enter"
  /\ Hook.optional
  /\ NextHook
  /\ UNCHANGED <<initial, found, pos, linkVars, endVars>>

AttachRet ==
  /\ main = "ret"
  /\ CanAttach
  /\ links' = links \cup {<<hook, "ret">>}
  /\ open' = Opened(Path, {<<hook, "ret">>})
  /\ NextHook
  /\ UNCHANGED <<initial, found, pos, held, attached, endVars>>

SkipRet_KeepsEnter ==
  /\ main = "ret"
  /\ Hook.optional
  /\ NextHook
  /\ UNCHANGED <<initial, found, pos, linkVars, endVars>>

SkipRet_StaysListed ==
  /\ main = "ret"
  /\ Hook.optional
  /\ open' = Released(Path, {<<hook, "enter">>})
  /\ NextHook
  /\ UNCHANGED <<initial, found, pos, links, held, attached, endVars>>

\* So is one whose return probe is not found: its entry probe is closed.
SkipRet ==
  /\ main = "ret"
  /\ Hook.optional
  /\ links' = links \ {<<hook, "enter">>}
  /\ open' = Released(Path, {<<hook, "enter">>})
  /\ NextHook
  /\ UNCHANGED <<initial, found, pos, held, attached, endVars>>

AttachFails_LeavesLinks ==
  /\ main \in {"enter", "ret"}
  /\ CanFail
  /\ links' = {}
  /\ PassFails
  /\ UNCHANGED <<passVars, held, attached, open, endVars>>

\* Any other error closes the links of this path.
AttachFails ==
  /\ main \in {"enter", "ret"}
  /\ CanFail
  /\ open' = Released(Path, links)
  /\ links' = {}
  /\ PassFails
  /\ UNCHANGED <<passVars, held, attached, endVars>>

Store ==
  /\ main = "store"
  /\ held' = [held EXCEPT ![Path] = links]
  /\ attached' = attached \cup {Path}
  /\ links' = {}
  /\ NextPath
  /\ UNCHANGED <<found, hook, open, endVars>>

-------------------------------------------------------------------------------
(* Closing *)

CloseLinks(l) ==
  LET mine == {p \in attached : LoaderOf[p] = l}
  IN /\ open' = [x \in DOMAIN open |->
                   open[x] - IF x[1] \in mine /\ x[2] \in held[x[1]] THEN 1 ELSE 0]
     /\ held' = [p \in Paths |-> IF p \in mine THEN {} ELSE held[p]]
     /\ attached' = attached \ mine

\* The links in the odd steps, the programs and readers in the even ones.
CloseStep(n, l) == IF n % 2 = 1 THEN CloseLinks(l) ELSE UNCHANGED <<held, attached, open>>

Cancel ==
  /\ ~cancelled
  /\ cancelled' = TRUE
  /\ UNCHANGED <<main, passVars, linkVars, closer, deferred>>

\* The goroutine that waits for the context: OpenSSL, then GnuTLS.
CloserStep ==
  /\ cancelled
  /\ closer < 4
  /\ closer' = closer + 1
  /\ CloseStep(closer', (closer' + 1) \div 2)
  /\ UNCHANGED <<main, passVars, links, cancelled, deferred>>

\* Run leaves its loop on a cancelled context, a reader's error, or the end.
LeaveLoop ==
  /\ main = "idle"
  /\ ~initial
  /\ main' = "returning"
  /\ UNCHANGED <<passVars, linkVars, endVars>>

DeferredStep_UnlessCancelled ==
  /\ main = "returning"
  /\ IF deferred < 4 /\ ~cancelled
     THEN /\ deferred' = deferred + 1
          /\ CloseStep(deferred', 2 - deferred \div 2)
          /\ UNCHANGED main
     ELSE /\ cancelled => closer = 4
          /\ main' = "returned"
          /\ UNCHANGED <<deferred, held, attached, open>>
  /\ UNCHANGED <<passVars, links, cancelled, closer>>

\* The deferred calls: GnuTLS, then OpenSSL.
DeferredStep ==
  /\ main = "returning"
  /\ IF deferred < 4
     THEN /\ deferred' = deferred + 1
          /\ CloseStep(deferred', 2 - deferred \div 2)
          /\ UNCHANGED main
     ELSE main' = "returned" /\ UNCHANGED <<deferred, held, attached, open>>
  /\ UNCHANGED <<passVars, links, cancelled, closer>>

Terminated == main = "returned" /\ UNCHANGED vars

-------------------------------------------------------------------------------
Pass ==
  \/ \E paths \in SUBSET Paths : BeginPass(paths)
  \/ FinderFails \/ CheckPath \/ OpenFails
  \/ AttachEnter \/ SkipEnter \/ AttachRet \/ SkipRet \/ AttachFails \/ Store

Next == Pass \/ Cancel \/ CloserStep \/ LeaveLoop \/ DeferredStep \/ Terminated

Spec == Init /\ [][Next]_vars

-------------------------------------------------------------------------------
(* What attaching promises *)

TypeOK ==
  /\ main \in {"idle", "check", "enter", "ret", "store", "returning", "returned"}
  /\ initial \in BOOLEAN /\ cancelled \in BOOLEAN
  /\ found \subseteq Paths /\ attached \subseteq Paths
  /\ pos \in 1..Len(Order) /\ hook \in 1..Len(Specs)
  /\ links \subseteq Probes
  /\ held \in [Paths -> SUBSET Probes]
  /\ open \in [Paths \X Probes -> Nat]
  /\ closer \in 0..4 /\ deferred \in 0..4

\* Each link the kernel holds is in a loader's attachments or among the links of
\* the path being attached: a failed attach leaves none behind, whatever Close
\* does meanwhile (attachUprobeSpecsWithOps, closeClosers).
LinksAreOwned ==
  \A p \in Paths, x \in Probes :
    open[<<p, x>>] > 0 => x \in held[p] \/ (p = Path /\ x \in links)

\* No library has a probe twice, however many passes find its path.
NoDoubleProbe == \A y \in Paths \X Probes : open[y] <= 1

\* An attached library has all its required hooks, and of each paired hook both
\* probes or none: an entry probe alone would fill the pending map and never
\* report (the optional case after attachRet).
HooksAreWhole ==
  \A p \in attached, i \in 1..Len(Specs) :
    /\ ~Specs[i].optional => <<i, "enter">> \in held[p]
    /\ Specs[i].paired => (<<i, "enter">> \in held[p] <=> <<i, "ret">> \in held[p])

\* When Run has returned no probe of its loaders is left in any process, also
\* when the context was cancelled in the middle of a pass: a path stored after
\* the goroutine closed its loader is left to the deferred Close.
ClosedAfterRun == main = "returned" => \A y \in Paths \X Probes : open[y] = 0

-------------------------------------------------------------------------------
(* What the documents promise and the code does not keep *)

\* After a pass, each supported library it found has its probes.
\* (2026-05-09-fcktls-openssl-curl-poc-design.md: "attaches OpenSSL uprobes to
\* each supported library path".  attachLibrarySet returns at the first path
\* that fails, and a tick ignores that.)
SupportedAreAttached ==
  main = "idle" /\ ~cancelled => found \cap Supported \subseteq attached
===============================================================================
