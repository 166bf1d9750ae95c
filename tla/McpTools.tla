------------------------------ MODULE McpTools ------------------------------
(***************************************************************************)
(* The tools of the MCP server (apps/mcp_server/src).  The reading GitHub  *)
(* tools ask through one retry loop, getContents or fetchWithRetry: what   *)
(* carries the mark of an exhausted quota is asked again.  The recursive   *)
(* listing asks once per directory; one that cannot be listed is marked    *)
(* and the others go on.  The calls of a client run side by side and share *)
(* nothing but the quota of the token.                                     *)
(***************************************************************************)
EXTENDS Naturals, Sequences

CONSTANTS
    Calls,
    Items, Root,   \* what the repository holds, and its root directory
    Dirs,          \* the items that are directories
    Contained,     \* directory or root -> its items, in GitHub's order
    Nothing,
    Quota          \* requests of a window

VARIABLES
    tool,          \* call -> the tool, or "none"
    asking,        \* call -> the directory asked for and its depth, or Nothing
    attempt,       \* call -> attempts of this request
    todo,          \* call -> items still to list, with their depth
    out,           \* call -> the lines of the listing: <<item, is it an error?>>
    answer,        \* call -> "none", "ok", or "error" (isError)
    blank,         \* call -> the directories answered with no list (history)
    quota          \* requests left

vars == <<tool, asking, attempt, todo, out, answer, blank, quota>>

MAX_RETRY == 3
MAX_RECURSIVE_DEPTH == 3
Retrying == {"contents", "listing", "flat", "commits", "diff"}
Tools    == Retrying \cup {"comment", "dast", "local"}

Init ==
    /\ tool = [c \in Calls |-> "none"]
    /\ asking = [c \in Calls |-> Nothing]
    /\ attempt = [c \in Calls |-> 0]
    /\ todo = [c \in Calls |-> <<>>]
    /\ out = [c \in Calls |-> <<>>]
    /\ answer = [c \in Calls |-> "none"]
    /\ blank = [c \in Calls |-> {}]
    /\ quota \in 0 .. Quota
-----------------------------------------------------------------------------
\* What GitHub holds is a tree: an item is in one directory, once.  It is taken
\* not to move during a call, as that of a commit does not.
Tree ==
    /\ Dirs \subseteq Items /\ Root \notin Items
    /\ Contained \in [Dirs \cup {Root} -> Seq(Items)]
    /\ \A d, e \in Dirs \cup {Root} :
        \A i \in DOMAIN Contained[d], j \in DOMAIN Contained[e] :
            Contained[d][i] = Contained[e][j] => d = e /\ i = j
    /\ Nothing \notin (Dirs \cup {Root}) \X Nat

Ask(c, dir, depth) ==
    /\ asking' = [asking EXCEPT ![c] = <<dir, depth>>]
    /\ attempt' = [attempt EXCEPT ![c] = 1]
Asked(c) ==
    /\ asking' = [asking EXCEPT ![c] = Nothing]
    /\ attempt' = [attempt EXCEPT ![c] = 0]
Say(c, how)       == answer' = [answer EXCEPT ![c] = how]
Line(c, item, err) == out' = [out EXCEPT ![c] = Append(@, <<item, err>>)]

\* A request of the client, handled by the switch of index.ts.
Call(c, t) ==
    /\ tool[c] = "none"
    /\ tool' = [tool EXCEPT ![c] = t]
    /\ Ask(c, Root, 0)
    /\ UNCHANGED <<todo, out, answer, blank, quota>>

\* The tools on the workspace, the comment and the DAST run ask once, and a
\* failure, an abort or a refused path is the answer; that of the comment tool
\* is not marked as an error.
AnswerOnce(c) ==
    /\ asking[c] # Nothing /\ tool[c] \notin Retrying
    /\ \/ Say(c, "ok")
       \/ tool[c] # "comment" /\ Say(c, "error")
    /\ Asked(c)
    /\ UNCHANGED <<tool, todo, out, blank, quota>>

\* Mutant: an error ends the listing with what it has.
GiveUpAll(c) ==
    /\ Asked(c)
    /\ \/ asking[c][1] = Root /\ Say(c, "error") /\ UNCHANGED <<out, todo>>
       \/ /\ asking[c][1] # Root /\ Line(c, asking[c][1], TRUE)
          /\ todo' = [todo EXCEPT ![c] = <<>>] /\ answer' = answer
    /\ UNCHANGED <<tool, blank>>

\* The request is given up: the answer of the call, or one line of a listing.
GiveUp(c) ==
    /\ Asked(c)
    /\ \/ asking[c][1] = Root /\ Say(c, "error") /\ out' = out
       \/ asking[c][1] # Root /\ Line(c, asking[c][1], TRUE) /\ answer' = answer
    /\ UNCHANGED <<tool, todo, blank>>

\* Mutant: one attempt too many.
LimitedOnceMore(c) ==
    /\ asking[c] # Nothing /\ tool[c] \in Retrying
    /\ quota <= 1 /\ quota' = 0
    /\ \/ /\ attempt[c] <= MAX_RETRY
          /\ attempt' = [attempt EXCEPT ![c] = @ + 1]
          /\ UNCHANGED <<tool, asking, out, answer, blank, todo>>
       \/ attempt[c] > MAX_RETRY /\ GiveUp(c)

\* 429, or x-ratelimit-remaining is 0: also on the answer to the last request
\* of the window, which is thrown away.
Limited(c) ==
    /\ asking[c] # Nothing /\ tool[c] \in Retrying
    /\ quota <= 1 /\ quota' = 0
    /\ \/ /\ attempt[c] < MAX_RETRY
          /\ attempt' = [attempt EXCEPT ![c] = @ + 1]
          /\ UNCHANGED <<tool, asking, out, answer, blank, todo>>
       \/ attempt[c] = MAX_RETRY /\ GiveUp(c)

\* Any other status that is not ok, or no answer at all.
Refused(c) ==
    /\ asking[c] # Nothing /\ tool[c] \in Retrying
    /\ quota' = quota \/ (quota > 1 /\ quota' = quota - 1)
    /\ GiveUp(c)

\* The contents of a directory: its items are listed before what else there is
\* to do.  A path of another kind than the tool is for is an error, but that of
\* a directory below is passed over: nothing is listed, and no mark is left.
Contents(c) ==
    /\ asking[c] # Nothing /\ tool[c] \in Retrying
    /\ quota > 1 /\ quota' = quota - 1
    /\ Asked(c)
    /\ LET dir == asking[c][1]
           items == [i \in DOMAIN Contained[dir] |-> <<Contained[dir][i], asking[c][2] + 1>>]
       IN \/ /\ tool[c] \in {"listing", "flat"}
             /\ todo' = [todo EXCEPT ![c] = items \o @]
             /\ Say(c, "listing") /\ blank' = blank
          \/ /\ tool[c] \in {"commits", "diff", "contents"}
             /\ Say(c, "ok") /\ UNCHANGED <<todo, blank>>
          \/ /\ tool[c] \notin {"commits", "diff"} /\ dir = Root
             /\ Say(c, "error") /\ UNCHANGED <<todo, blank>>
          \/ /\ dir # Root
             /\ blank' = [blank EXCEPT ![c] = @ \cup {dir}] /\ UNCHANGED <<todo, answer>>
    /\ UNCHANGED <<tool, out>>

\* buildEntries, one item: a directory above the depth limit is asked for.
Entry(c) ==
    /\ asking[c] = Nothing /\ todo[c] # <<>>
    /\ LET item == todo[c][1][1]
           depth == todo[c][1][2]
       IN /\ Line(c, item, FALSE)
          /\ IF item \in Dirs /\ tool[c] = "listing" /\ depth < MAX_RECURSIVE_DEPTH
               THEN Ask(c, item, depth)
               ELSE UNCHANGED <<asking, attempt>>
    /\ todo' = [todo EXCEPT ![c] = Tail(@)]
    /\ UNCHANGED <<tool, answer, blank, quota>>

\* The lines are joined.
Listed(c) ==
    /\ answer[c] = "listing" /\ asking[c] = Nothing /\ todo[c] = <<>>
    /\ Say(c, "ok")
    /\ UNCHANGED <<tool, asking, attempt, todo, out, blank, quota>>

\* The next window of the rate limit.
Window ==
    /\ quota' = Quota
    /\ UNCHANGED <<tool, asking, attempt, todo, out, answer, blank>>

Next ==
    \/ \E c \in Calls, t \in Tools : Call(c, t)
    \/ \E c \in Calls : \/ AnswerOnce(c) \/ Limited(c) \/ Refused(c)
                        \/ Contents(c) \/ Entry(c) \/ Listed(c)
    \/ Window

Spec == Init /\ [][Next]_vars
-----------------------------------------------------------------------------
(* Properties *)

ToolsTypeOK ==
    /\ tool \in [Calls -> Tools \cup {"none"}]
    /\ asking \in [Calls -> ({Root} \cup Dirs) \X Nat \cup {Nothing}]
    /\ attempt \in [Calls -> 0 .. MAX_RETRY]
    /\ todo \in [Calls -> Seq(Items \X Nat)]
    /\ out \in [Calls -> Seq(Items \X BOOLEAN)]
    /\ answer \in [Calls -> {"none", "listing", "ok", "error"}]
    /\ blank \in [Calls -> SUBSET Dirs]
    /\ quota \in 0 .. Quota

\* A listing that is answered names what it names once, all that is in the root,
\* and of each directory above the depth limit either all items, each after it,
\* or none: then it has a mark that it could not be listed, or GitHub answered
\* with something that is no list (list_directory.ts leaves no mark of that).
\* Whatever was limited, refused and asked again, nothing else is missing.
Lines(c)     == DOMAIN out[c]
Named(c, i)  == {k \in Lines(c) : out[c][k] = <<i, FALSE>>}
Marked(c, i) == {k \in Lines(c) : out[c][k] = <<i, TRUE>>}
Above(d, k)  == \E i \in DOMAIN Contained[d] : Contained[d][i] = k
ShallowDirs  ==
    LET first == {d \in Dirs : Above(Root, d)}
    IN first \cup {d \in Dirs : \E p \in first : Above(p, d)}

ListingComplete ==
    \A c \in Calls : tool[c] = "listing" /\ answer[c] = "ok" =>
        /\ \A k, l \in Lines(c) : out[c][k] = out[c][l] => k = l
        /\ \A i \in Items : Above(Root, i) => Named(c, i) # {}
        /\ \A d \in ShallowDirs, k \in Lines(c) : k \in Named(c, d) =>
            \/ /\ Marked(c, d) # {} \/ d \in blank[c]
               /\ \A i \in Items : Above(d, i) => Named(c, i) = {}
            \/ \A i \in Items : Above(d, i) => \E l \in Named(c, i) : k < l
=============================================================================
