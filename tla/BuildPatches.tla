---------------------------- MODULE BuildPatches ----------------------------
(***************************************************************************)
(* How build.sh changes the sources of the submodule edk2-platforms for a  *)
(* build and puts them back.  It applies git patches in order, each a file *)
(* after the other, then runs tools/apply-display-handoff.py, which makes  *)
(* anchored replacements in its own way (replace_one), builds, and undoes  *)
(* it all in a trap at its exit.  A build may fail, be interrupted from    *)
(* the keyboard or be killed at any point, within git and within the       *)
(* applier too, and the next one starts from what it left.                 *)
(*                                                                         *)
(* A line of a file is its text, one of a few, and its line end.           *)
(***************************************************************************)
EXTENDS Integers, Sequences, FiniteSets

LOCAL INSTANCE SequencesExt

CONSTANTS
    Files,      \* the files that a patch or a replacement touches
    Words,      \* the texts of their lines
    Checkouts,  \* what the submodule may hold when it is clean
    Patches,    \* the git patches, in the order of build.sh
    Edits,      \* the replacements of main, in its order
    MaxCuts     \* bound: how often builds are cut short between two checkouts

Numbered(s) == 1 .. Len(s)

Ends == {"LF", "CRLF"}
Line == [text : Words, eol : Ends]
Trees == [Files -> Seq(Line)]

Paragraph == Seq(Words) \ {<<>>}
Replacement == [file : Files, old : Paragraph, new : Paragraph]

\* A hunk has context before and after the lines that it takes and brings.
Hunk == [before : Seq(Words), minus : Seq(Words), plus : Seq(Words), after : Seq(Words)]

\* The hunks of each file, in their order.  Whether white space in the context
\* counts is a matter of the patch.
Patch == [hunks : [Files -> Seq(Hunk)], ignoreSpace : BOOLEAN]

ASSUME PatchAssumption ==
    /\ Checkouts \subseteq Trees
    /\ Patches \in Seq(Patch)
    /\ Edits \in Seq(Replacement)
    /\ MaxCuts \in Nat

VARIABLES
    tree,       \* the tree: the lines of every file
    at,         \* where build.sh is
    next,       \* the patch or edit that is next there
    applied,    \* the patches whose *_PATCH_APPLIED is 1
    handoff,    \* EDK2_PLATFORMS_DISPLAY_HANDOFF_PATCH_APPLIED is 1
    failed,     \* the applier of this build has exited with an error
    unwritten,  \* the files that the running git apply has still to write
    cuts,       \* how often a build was cut short since the checkout
    torn,       \* the applier was interrupted midway since the checkout
    left,       \* this build was interrupted in a git apply, before its flag
    found,      \* the tree this build started from
    made,       \* made[n]: how often more replacement n was made than undone
    ended       \* the last build has come to its end

vars == <<tree, at, next, applied, handoff, failed, unwritten, cuts, torn, left, found, made,
          ended>>
flags == <<applied, handoff, failed>>
history == <<cuts, torn, left, found, ended>>

NoneMade == [n \in Numbered(Edits) |-> 0]

Init ==
    /\ tree \in Checkouts /\ found = tree
    /\ at = "idle" /\ next = 0 /\ applied = {} /\ unwritten = {}
    /\ handoff = FALSE /\ failed = FALSE
    /\ cuts = 0 /\ torn = FALSE /\ left = FALSE /\ made = NoneMade /\ ended = FALSE

-----------------------------------------------------------------------------
(* Texts *)

Texts(lines) == [n \in Numbered(lines) |-> lines[n].text]
Lines(texts, eol) == [n \in Numbered(texts) |-> [text |-> texts[n], eol |-> eol]]

Slice(s, from, count) == SubSeq(s, from + 1, from + count)

\* How many elements of s come before each occurrence of part in it.
Occurrences(s, part) ==
    {n \in 0 .. Len(s) - Len(part) : Slice(s, n, Len(part)) = part}

\* s with the count elements after the first n replaced by part.
Spliced(s, n, count, part) ==
    Slice(s, 0, n) \o part \o Slice(s, n + count, Len(s) - n - count)

-----------------------------------------------------------------------------
(* replace_one *)

From(e, reverse) == IF reverse THEN e.new ELSE e.old
To(e, reverse)   == IF reverse THEN e.old ELSE e.new

\* The anchor is there exactly once.
Anchored(t, e, reverse) ==
    Cardinality(Occurrences(Texts(t[e.file]), From(e, reverse))) = 1

Newline(lines) ==
    IF \E n \in Numbered(lines) : lines[n].eol = "CRLF" THEN "CRLF" ELSE "LF"

\* The lines that are written: with one line end, whatever each had before.
Replaced(lines, e, reverse) ==
    LET texts == Texts(lines)
        n == CHOOSE k \in Occurrences(texts, From(e, reverse)) : TRUE
    IN  Lines(Spliced(texts, n, Len(From(e, reverse)), To(e, reverse)), Newline(lines))

Edited(t, e, reverse) ==
    [t EXCEPT ![e.file] = Replaced(t[e.file], e, reverse)]

ReplaceOne(e, reverse) ==
    /\ Anchored(tree, e, reverse)
    /\ tree' = Edited(tree, e, reverse)

-----------------------------------------------------------------------------
(* git apply *)

Taken(h, reverse)   == IF reverse THEN h.plus ELSE h.minus
Brought(h, reverse) == IF reverse THEN h.minus ELSE h.plus
Image(h, reverse)   == h.before \o Taken(h, reverse) \o h.after

\* The patches are written with LF.
SpaceMatches(lines, ignoreSpace) ==
    ignoreSpace \/ \A n \in Numbered(lines) : lines[n].eol = "LF"

\* Where a hunk applies.  A file that it creates must not be there.
Spots(lines, h, reverse, ignoreSpace) ==
    LET image == Image(h, reverse)
    IN  {n \in Occurrences(Texts(lines), image) :
            /\ SpaceMatches(Slice(lines, n, Len(image)), ignoreSpace)
            /\ image = <<>> => lines = <<>>}

\* The lines that come get the patch's line end, the context keeps its own.
Hunked(lines, h, n, reverse) ==
    Spliced(lines, n + Len(h.before), Len(Taken(h, reverse)), Lines(Brought(h, reverse), "LF"))

\* What the hunks of a file make of its lines, one after the other, wherever
\* they apply; nothing if one does not.
Outcomes(lines, hunks, reverse, ignoreSpace) ==
    FoldLeft(LAMBDA S, h :
                 UNION {{Hunked(s, h, n, reverse) : n \in Spots(s, h, reverse, ignoreSpace)} :
                        s \in S},
             {lines}, hunks)

Touched(p) == {f \in Files : p.hunks[f] # <<>>}

\* git apply --check: every hunk applies.
Check(t, p, reverse) ==
    \A f \in Touched(p) : Outcomes(t[f], p.hunks[f], reverse, p.ignoreSpace) # {}

\* Of several places git takes the one next to the hunk's line number.
Applied(lines, p, f, reverse) ==
    CHOOSE outcome \in Outcomes(lines, p.hunks[f], reverse, p.ignoreSpace) : TRUE

Patched(t, p, reverse) ==
    [f \in Files |-> IF f \in Touched(p) THEN Applied(t[f], p, f, reverse) ELSE t[f]]

-----------------------------------------------------------------------------
(* build.sh, for model 5 *)

Goto(place, n) == at' = place /\ next' = n

\* The trap: the applier first, if its flag is set.
Exit(flag) ==
    IF flag THEN Goto("unediting", 1) ELSE Goto("unpatching", Len(Patches))

Start ==
    /\ at = "idle"
    /\ Goto("patching", 1)
    /\ applied' = {} /\ handoff' = FALSE /\ failed' = FALSE
    /\ found' = tree /\ ended' = FALSE /\ left' = FALSE
    /\ UNCHANGED <<tree, unwritten, cuts, torn, made>>

Patching == at = "patching" /\ next \in Numbered(Patches)

\* The check has passed: git apply runs next.
StartPatch ==
    /\ Patching
    /\ Check(tree, Patches[next], FALSE)
    /\ Goto("applying", next)
    /\ unwritten' = Touched(Patches[next])
    /\ UNCHANGED <<tree, flags, history, made>>

\* git apply, with all hunks placed, writes the files one after the other.
WriteFile ==
    /\ at \in {"applying", "reversing"}
    /\ \E f \in unwritten :
          /\ tree' = [tree EXCEPT ![f] = Applied(tree[f], Patches[next], f, at = "reversing")]
          /\ unwritten' = unwritten \ {f}
    /\ UNCHANGED <<at, next, flags, history, made>>

PatchApplied ==
    /\ at = "applying" /\ unwritten = {}
    /\ applied' = applied \union {next}
    /\ Goto("patching", next + 1)
    /\ UNCHANGED <<tree, handoff, failed, unwritten, history, made>>

\* "... is already applied": the flag stays 0.
SkipPatch ==
    /\ Patching
    /\ ~Check(tree, Patches[next], FALSE) /\ Check(tree, Patches[next], TRUE)
    /\ Goto("patching", next + 1)
    /\ UNCHANGED <<tree, flags, unwritten, history, made>>

\* "... does not apply": exit 1.
RejectPatch ==
    /\ Patching
    /\ ~Check(tree, Patches[next], FALSE) /\ ~Check(tree, Patches[next], TRUE)
    /\ Exit(FALSE)
    /\ UNCHANGED <<tree, flags, unwritten, history, made>>

StartApplier ==
    /\ at = "patching" /\ next = Len(Patches) + 1
    /\ Goto("editing", 1)
    /\ UNCHANGED <<tree, flags, unwritten, history, made>>

Editing == at = "editing" /\ next \in Numbered(Edits)

Edit ==
    /\ Editing
    /\ ReplaceOne(Edits[next], FALSE)
    /\ made' = [made EXCEPT ![next] = @ + 1]
    /\ Goto("editing", next + 1)
    /\ UNCHANGED <<flags, unwritten, history>>

\* A variation: the flag is set for an applier that has succeeded.
FlagIfApplied(error) == ~error

\* build.sh does not look at the applier's exit status.
FlagAfter(error) == TRUE

\* The applier is done, or has stopped at an anchor.
ApplierEnds ==
    /\ at = "editing"
    /\ failed' = (next <= Len(Edits))
    /\ failed' => ~Anchored(tree, Edits[next], FALSE)
    /\ handoff' = FlagAfter(failed')
    /\ Goto("building", 0)
    /\ UNCHANGED <<tree, applied, unwritten, history, made>>

\* make and build succeed or fail: the script exits.
BuildEnds ==
    /\ at = "building"
    /\ Exit(handoff)
    /\ UNCHANGED <<tree, flags, unwritten, history, made>>

\* A variation: what was made last is undone first.
LastEditFirst == Len(Edits) + 1 - next

\* The applier goes through the replacements in the same order to reverse.
EditUndone == next

Unedit ==
    /\ at = "unediting" /\ next \in Numbered(Edits)
    /\ ReplaceOne(Edits[EditUndone], TRUE)
    /\ made' = [made EXCEPT ![EditUndone] = @ - 1]
    /\ Goto("unediting", next + 1)
    /\ UNCHANGED <<flags, unwritten, history>>

\* It is done, or has stopped at an anchor; the trap goes on either way.
UneditEnds ==
    /\ at = "unediting"
    /\ next <= Len(Edits) => ~Anchored(tree, Edits[EditUndone], TRUE)
    /\ Goto("unpatching", Len(Patches))
    /\ UNCHANGED <<tree, flags, unwritten, history, made>>

Reversible == next \in applied /\ Check(tree, Patches[next], TRUE)

\* git apply --reverse, where the patch's flag is set.
Unpatch ==
    /\ at = "unpatching" /\ next \in Numbered(Patches)
    /\ Reversible
    /\ Goto("reversing", next)
    /\ unwritten' = Touched(Patches[next])
    /\ UNCHANGED <<tree, flags, history, made>>

PatchReversed ==
    /\ at = "reversing" /\ unwritten = {}
    /\ Goto("unpatching", next - 1)
    /\ UNCHANGED <<tree, flags, unwritten, history, made>>

\* A patch that does not apply in reverse is left in; so is one without a flag.
LeavePatch ==
    /\ at = "unpatching" /\ next \in Numbered(Patches)
    /\ ~Reversible
    /\ Goto("unpatching", next - 1)
    /\ UNCHANGED <<tree, flags, unwritten, history, made>>

Exited ==
    /\ at = "unpatching" /\ next = 0
    /\ Goto("idle", 0)
    /\ ended' = TRUE
    /\ UNCHANGED <<tree, flags, unwritten, cuts, torn, left, found, made>>

-----------------------------------------------------------------------------
(* The environment *)

\* git apply has begun to write, and its flag is not set.
InApply == at = "applying" /\ unwritten # Touched(Patches[next])

\* Ctrl-C ends the command that runs, and then the script through its trap.
\* What runs has no flag yet: what a git apply has written stays in, or what
\* the applier has made, while the patches below it come out.
Interrupt ==
    /\ at \in {"patching", "applying", "editing", "building"}
    /\ cuts < MaxCuts /\ cuts' = cuts + 1
    /\ Exit(handoff)
    /\ unwritten' = {}
    /\ torn' = (torn \/ (at = "editing" /\ next > 1))
    /\ left' = InApply
    /\ UNCHANGED <<tree, flags, found, made, ended>>

\* The script is killed, or interrupted in its trap, or the power goes.
Kill ==
    /\ at # "idle"
    /\ cuts < MaxCuts /\ cuts' = cuts + 1
    /\ Goto("idle", 0)
    /\ applied' = {} /\ handoff' = FALSE /\ failed' = FALSE /\ unwritten' = {}
    /\ found' = tree /\ left' = FALSE
    /\ UNCHANGED <<tree, torn, made, ended>>

\* The developer checks the submodule out, at this or another revision.
CheckOut ==
    /\ at = "idle"
    /\ tree' \in Checkouts
    /\ found' = tree'
    /\ cuts' = 0 /\ torn' = FALSE /\ left' = FALSE /\ made' = NoneMade /\ ended' = FALSE
    /\ UNCHANGED <<at, next, flags, unwritten>>

Next ==
    \/ Start
    \/ StartPatch \/ WriteFile \/ PatchApplied \/ SkipPatch \/ RejectPatch
    \/ StartApplier \/ Edit \/ ApplierEnds
    \/ BuildEnds \/ Unedit \/ UneditEnds
    \/ Unpatch \/ PatchReversed \/ LeavePatch \/ Exited
    \/ Interrupt \/ Kill \/ CheckOut

Spec == Init /\ [][Next]_vars

-----------------------------------------------------------------------------
(* Properties *)

SameTexts(t, u) == \A f \in Files : Texts(t[f]) = Texts(u[f])

\* A build that comes to its end leaves the sources it found, also when a
\* replacement stopped at an anchor, a patch did not apply, the compiler failed
\* or an interrupt ended it.  Only what is cut short between the first file that
\* it writes and its flag stays in: one git apply, until the end of that build,
\* or the applier.  A clean checkout is the same to the byte, although git and
\* the applier disagree about line ends.
BuildRestoresSources ==
    at = "idle" /\ ended /\ ~torn /\ ~left =>
        /\ SameTexts(tree, found)
        /\ found \in Checkouts => tree = found

\* No build compiles a replacement made twice, though the applier would make
\* one again in a tree that has it: where a killed build has left all of them
\* in, or some, the patches do not pass their checks any more.
NothingIsDoubled ==
    at = "building" /\ ~torn => \A n \in Numbered(Edits) : made[n] <= 1

\* "Applied RPi5 display timing/EDID handoff transform", says build.sh, and the
\* workflow display-handoff.yml takes the line in the log for the proof.
AppliedMeansApplied ==
    at = "building" => \A n \in Numbered(Edits) :
        Occurrences(Texts(tree[Edits[n].file]), Edits[n].new) # {}

=============================================================================
