---------------------------- MODULE MCScreening ----------------------------
(* Screening on a small instance for TLC. *)
EXTENDS Screening

CONSTANTS member, chief, bot

MCUsers == {member, chief}
MCRosters == {{chief}}
Plain == [account |-> member, kind |-> "user", origin |-> "none", text |-> "long", len |-> 4,
          hits |-> {}, fake |-> "none", like |-> chief,
          media |-> FALSE, keyboard |-> FALSE, viaBot |-> FALSE]
Terse == [Plain EXCEPT !.text = "ok", !.len = 1]
Photo == [Plain EXCEPT !.text = "", !.len = 0, !.media = TRUE]
New(parts) == [parts |-> parts, edited |-> FALSE]
\* A newcomer's text, and an edit of it; a short word from somebody named like the
\* chief; the chief's own photo; a post of the chat's channel; an album whose caption
\* is on the second part and whose document is on the first.
MCPosts == { New(<<Plain>>), [parts |-> <<Plain>>, edited |-> TRUE],
             New(<<[Terse EXCEPT !.fake = "name"]>>),
             New(<<[Photo EXCEPT !.account = chief]>>),
             New(<<[Plain EXCEPT !.account = bot, !.kind = "channel", !.origin = "own", !.hits = {"link"}]>>),
             New(<<[Photo EXCEPT !.hits = {"document"}], [Terse EXCEPT !.media = TRUE]>>) }
Start == [force |-> FALSE, enforce |-> FALSE, startDry |-> FALSE, limit |-> 1, minLen |-> 2]
MCConfigs == { Start, [Start EXCEPT !.force = TRUE, !.enforce = TRUE, !.limit = 2, !.minLen = 1] }
=============================================================================
