--------------------------- MODULE BuildReversal ---------------------------
(***************************************************************************)
(* What has to be true of the patches and replacements, one by one, so     *)
(* that BuildPatches puts every source back: facts about the texts that    *)
(* the repository's patches and anchors have.  Nothing here says how a     *)
(* build goes on; that is what the theorems add.                           *)
(***************************************************************************)
EXTENDS BuildPatches

CONSTANTS
    Sources,    \* the trees that a build may find, or make with its patches
    Left,       \* those that a git apply may leave, within it or at its end
    Passed,     \* Passed[n]: those that the first n patches let through
    Work        \* the trees that the applier may make of the last of these

Done(t, n)   == Edited(t, Edits[n], FALSE)
Undone(t, n) == Edited(t, Edits[n], TRUE)

\* The replacements that a tree holds, as the applier can tell.
Made(t) == {n \in Numbered(Edits) : Anchored(t, Edits[n], TRUE)}

\* The applier writes a file with one line end: as git left it, or so.
Uniform(lines) == Lines(Texts(lines), Newline(lines))
Rewritten(t, F) == [f \in Files |-> IF f \in F THEN Uniform(t[f]) ELSE t[f]]
AlikeTo(t) == {Rewritten(t, F) : F \in SUBSET {Edits[n].file : n \in Numbered(Edits)}}

\* A git apply that has written the files of F.
Halfway(t, n, F, reverse) ==
    [f \in Files |-> IF f \in F THEN Patched(t, Patches[n], reverse)[f] ELSE t[f]]

\* A clean checkout has one kind of line ends in each file, and no replacement.
CheckoutClean(t) ==
    /\ t \in Sources /\ Made(t) = {}
    /\ \A f \in Files : Uniform(t[f]) = t[f]

\* A patch that was applied comes out again, also when the applier has been
\* over the files since.
PatchReversible(n) ==
    \A t \in Sources :
        LET patched == Patched(t, Patches[n], FALSE)
        IN  Check(t, Patches[n], FALSE) =>
                \A u \in AlikeTo(patched) :
                    /\ Check(u, Patches[n], TRUE)
                    /\ Patched(u, Patches[n], TRUE) \in AlikeTo(t)

\* However far a git apply comes, it brings no replacement and takes none.
PatchLeavesSources(n) ==
    \A F \in SUBSET Touched(Patches[n]) :
        /\ \A t \in Sources : Check(t, Patches[n], FALSE) =>
              Halfway(t, n, F, FALSE) \in Left /\ Made(Halfway(t, n, F, FALSE)) = Made(t)
        /\ \A t \in Left : Check(t, Patches[n], TRUE) =>
              Halfway(t, n, F, TRUE) \in Left /\ Made(Halfway(t, n, F, TRUE)) = Made(t)

\* The trees that a patch lets through.  One that holds a replacement fails a
\* patch's check: for patch 0003 changes the file that 0001 creates, 0001 fits
\* neither way after it.
PatchLetsThrough(n) ==
    \A t \in Passed[n - 1] :
        IF Check(t, Patches[n], FALSE)
        THEN Patched(t, Patches[n], FALSE) \in Passed[n]
        ELSE Check(t, Patches[n], TRUE) => t \in Passed[n]

\* A replacement shows when it is made and only then, and making one neither
\* hides another nor needs it.
ReplacementIndependent(n) ==
    \A t \in Work :
        IF n \in Made(t)
        THEN Undone(t, n) \in Work /\ Made(Undone(t, n)) = Made(t) \ {n}
        ELSE Anchored(t, Edits[n], FALSE) =>
          /\ Done(t, n) \in Work /\ Made(Done(t, n)) = Made(t) \union {n}
          /\ \A m \in Made(t) :
                /\ Anchored(Undone(t, m), Edits[n], FALSE)
                /\ Undone(Done(t, n), m) = Done(Undone(t, m), n)

ASSUME ReversalAssumption ==
    /\ Sources \subseteq Trees /\ Left \subseteq Sources /\ Work \subseteq Sources
    /\ \A t \in Sources : AlikeTo(t) \subseteq Sources
    /\ \A t \in Left : AlikeTo(t) \subseteq Left
    /\ \A t \in Checkouts : CheckoutClean(t)
    /\ \A n \in Numbered(Patches) : PatchReversible(n) /\ PatchLeavesSources(n)
    /\ Passed \in [0 .. Len(Patches) -> SUBSET Sources] /\ Passed[0] = Sources
    /\ \A n \in Numbered(Patches) : PatchLetsThrough(n)
    /\ \A t \in Passed[Len(Patches)] : t \in Work /\ Made(t) = {}
    /\ \A n \in Numbered(Edits) : ReplacementIndependent(n)

=============================================================================
