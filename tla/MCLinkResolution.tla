---------------------------- MODULE MCLinkResolution ----------------------------
(* The real window and thresholds, and three links whose captions name a place. *)
EXTENDS LinkResolution

MCState == {CaptionSlice, CoverReadSlice, CoverTextSlice}
MCTool ==
    {ReadTool(l) : l \in Link} \cup {CoverTool(l) : l \in Link}
        \cup {FindTool(l, n, c) : l \in Link, n \in 1..MaxNames, c \in 1..CityCount}
MCNoTool == <<"no", "tool">>
=================================================================================
