---------------------------- MODULE MCExportLoop ----------------------------
(* Streams of up to six frames, the audio as long as the video or one      *)
(* frame off, intervals up to three, and one or two ranges.                *)
EXTENDS ExportLoop
Ends == 0 .. 6
Apart == {<<a, b>> \in Ends \X Ends : a < b}
Lengths == {<<v, a>> \in (4 .. 6) \X (3 .. 7) : a - v \in -1 .. 1}
JobSet(rangesets, lengths, intervals, events) ==
    {[ranges |-> rs, frame_interval |-> n, video |-> l[1], audio |-> l[2], events |-> e] :
        rs \in rangesets, n \in intervals, l \in lengths, e \in events}

OneRange  == {<<r>> : r \in Apart}
(* Two ranges with a frame between them; the second starts within the      *)
(* streams.                                                                *)
TwoRanges == {<<r, s>> : r \in Apart, s \in Apart}
Separate  == {rs \in TwoRanges : rs[1][2] < rs[2][1]}
Reachable(j) == Len(j.ranges) = 2 =>
                    j.ranges[2][1] <= j.video /\ j.ranges[2][1] <= j.audio

ManyJobs ==
    {j \in JobSet(OneRange \union Separate, Lengths, 1 .. 3, {{}, {"failure"}}) : Reachable(j)}
    \union JobSet(OneRange, {<<4, 4>>, <<6, 6>>}, {1, 2}, {{"delay", "failure"}, {"clone", "delay"}})
=============================================================================
