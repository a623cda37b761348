--------------------------- MODULE MCBuildPatches ---------------------------
(***************************************************************************)
(* A small instance of BuildPatches.  The fan patch (0001) adds a type and *)
(* a member to the protocol header, a device to the ACPI table and a new   *)
(* file; patch 0003 changes the file, and the device in two places.  The   *)
(* applier edits three files; one of its anchors is the fan patch's line.  *)
(* A checkout has one kind of line ends, and may be of another revision in *)
(* which the anchor of a replacement or the context of a patch is missing. *)
(***************************************************************************)
EXTENDS BuildReversal

Upstream == [mbox     |-> <<"otp">>,
             protocol |-> <<"clockType", "table", "setPower", "setRtc", "end">>,
             display  |-> <<"gop">>,
             rp1      |-> <<"ethernet", "bus">>,
             fan      |-> <<>>]

MCFiles == DOMAIN Upstream

MCCheckouts ==
    {[f \in DOMAIN Upstream |->
        Lines(SelectSeq(Upstream[f], LAMBDA t : t # missing), eol)] :
     missing \in {"nothing", "otp", "setPower", "setRtc", "gop"}, eol \in {"LF", "CRLF"}}

At(beforeIt, minus, plus, afterIt) ==
    [before |-> beforeIt, minus |-> minus, plus |-> plus, after |-> afterIt]

\* The hunks of a patch for every file, from those of the files that it touches.
Over(hunks) == [f \in MCFiles |-> IF f \in DOMAIN hunks THEN hunks[f] ELSE <<>>]

MCPatches ==
    <<[ignoreSpace |-> TRUE,
       hunks |-> Over([
          protocol |-> <<At(<<"clockType">>, <<>>, <<"fanType">>, <<"table">>),
                         At(<<"setRtc">>, <<>>, <<"getTemperature">>, <<"end">>)>>,
          rp1      |-> <<At(<<"ethernet">>, <<>>, <<"mailbox", "fanDevice", "mailbox">>, <<"bus">>)>>,
          fan      |-> <<At(<<>>, <<>>, <<"restoreState">>, <<>>)>>])],
      [ignoreSpace |-> FALSE,
       hunks |-> Over([
          rp1 |-> <<At(<<>>, <<"mailbox">>, <<"shared">>, <<"fanDevice">>),
                    At(<<"fanDevice">>, <<"mailbox">>, <<>>, <<>>)>>,
          fan |-> <<At(<<>>, <<"restoreState">>, <<"fullSpeed">>, <<>>)>>])]>>

MCEdits ==
    <<[file |-> "mbox", old |-> <<"otp">>, new |-> <<"otp", "edidTag">>],
      [file |-> "protocol", old |-> <<"setPower">>, new |-> <<"edidTypes", "setPower">>],
      [file |-> "protocol", old |-> <<"getTemperature", "end">>,
                            new |-> <<"getTemperature", "getEdid", "end">>],
      [file |-> "display", old |-> <<"gop">>, new |-> <<"gop", "readyToBoot">>]>>

MCWords == {"otp", "edidTag", "clockType", "fanType", "table", "setPower", "edidTypes", "setRtc",
            "getTemperature", "getEdid", "end", "gop", "readyToBoot", "ethernet", "bus", "mailbox",
            "shared", "fanDevice", "restoreState", "fullSpeed"}

-----------------------------------------------------------------------------
(* The trees that the builds of this instance can leave behind.           *)

\* How far the git applies of a patch can come in the trees of T.
Applies(T, reverse) ==
    UNION {UNION {{Halfway(t, n, F, reverse) : F \in SUBSET Touched(Patches[n])} :
                  t \in {u \in T : Check(u, Patches[n], reverse)}} :
           n \in Numbered(Patches)}

Alike(T) == UNION {AlikeTo(t) : t \in T}

RECURSIVE AllLeft(_)
AllLeft(T) ==
    LET U == T \union Alike(T \union Applies(T, FALSE) \union Applies(T, TRUE))
    IN  IF U = T THEN T ELSE AllLeft(U)

Reworked(T) ==
    {Undone(x[1], x[2]) : x \in {y \in T \X Numbered(Edits) : y[2] \in Made(y[1])}} \union
    {Done(x[1], x[2]) :
        x \in {y \in T \X Numbered(Edits) :
                   y[2] \notin Made(y[1]) /\ Anchored(y[1], Edits[y[2]], FALSE)}}

RECURSIVE AllReworked(_)
AllReworked(T) ==
    LET U == T \union Reworked(T) IN IF U = T THEN T ELSE AllReworked(U)

\* The trees that the next patch lets through, as it goes on with them.
Through(T, n) ==
    {IF Check(t, Patches[n], FALSE) THEN Patched(t, Patches[n], FALSE) ELSE t :
     t \in {u \in T : Check(u, Patches[n], FALSE) \/ Check(u, Patches[n], TRUE)}}

RECURSIVE PassedOf(_, _)
PassedOf(T, n) == IF n = 0 THEN T ELSE Through(PassedOf(T, n - 1), n)

MCLeft == AllLeft(MCCheckouts)
MCWork == AllReworked(PassedOf(MCLeft, Len(MCPatches)))
MCSources == MCLeft \union Alike(MCWork)
MCPassed == [n \in 0 .. Len(MCPatches) |-> PassedOf(MCSources, n)]

=============================================================================
