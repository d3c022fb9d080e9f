------------------------------ MODULE Screens -------------------------------
(***************************************************************************)
(* What a component of the website that shows rows of a server table is    *)
(* made of, as far as what it shows and what it changes depend on it.  The *)
(* module Catalogue describes every such component in these words, and the *)
(* module Browser gives the words their meaning.                           *)
(***************************************************************************)

\* What the message of the query is made of, and with it the key of its cache.
Keying == {"nothing",   \* an empty message: one key for the component
           "filter",    \* the filter the user has chosen
           "partly",    \* one of several filters, and not all of them reach the message
           "ignored",   \* there is a filter, and it never reaches the message
           "route",     \* the row that the address or the caller names
           "missing"}   \* nothing, although the server requires the row

\* What is shown of the answer.
Showing == {"answer",     \* all of it
            "narrowed"}   \* what the table's own filters leave of it

\* What must come before the query is enabled.
Gates == {"none",
          "settled",    \* other queries have ended, well or badly
          "loaded"}     \* other queries have succeeded, or the user is known

\* The buttons and forms.  dialog: the modal, "inline" when it is part of the page;
\* offers: what the user is told it does; sends: the call it makes; names: whether the
\* message carries the row's identity; closes: when the modal is hidden ("asked" before
\* the call, "done" on success, "answered" on success and error, "never" for a form of
\* the page); awaits: whether the button waits for the answer; after: what success does
\* to the cache of the page's query.
Command == [dialog : {"inline", "confirm", "editor", "unban", "ban"},
            offers : {"create", "edit", "delete"},
            sends  : {"create", "edit", "delete"},
            names  : {"row", "nobody"},
            closes : {"asked", "done", "answered", "never"},
            awaits : BOOLEAN,
            after  : {"nothing",   \* it is left alone
                      "unread",    \* a key that no query uses is written or invalidated
                      "refetch",   \* its key is invalidated
                      "appends"}]  \* the answer is added to it

\* polls: refetched at an interval; keeps: the rows of the last input stay until those of
\* the new one come; holds: the first answer is copied into the state of the component.
Screen == [keyed : Keying, shows : Showing, waits : Gates, keeps : BOOLEAN, polls : BOOLEAN,
           holds : BOOLEAN, commands : SUBSET Command]

Plain == [keyed |-> "nothing", shows |-> "answer", waits |-> "none", keeps |-> FALSE,
          polls |-> FALSE, holds |-> FALSE, commands |-> {}]
Narrowed == [Plain EXCEPT !.shows = "narrowed"]
Filtered == [Plain EXCEPT !.keyed = "filter"]
Partial  == [Plain EXCEPT !.keyed = "partly"]
Ignoring == [Plain EXCEPT !.keyed = "ignored"]
OfRoute  == [Plain EXCEPT !.keyed = "route"]

Creating == [dialog |-> "editor", offers |-> "create", sends |-> "create", names |-> "row",
             closes |-> "done", awaits |-> FALSE, after |-> "nothing"]
Editing  == [Creating EXCEPT !.offers = "edit", !.sends = "edit"]
Deleting == [Creating EXCEPT !.offers = "delete", !.sends = "delete"]
Nameless(c) == [c EXCEPT !.names = "nobody"]
Inline(c)   == [c EXCEPT !.dialog = "inline", !.closes = "never"]

\* The page s with the commands cs, whose success does a to the cache.
With(s, cs)  == [s EXCEPT !.commands = @ \cup cs]
After(a, cs) == {[c EXCEPT !.after = a] : c \in cs}
=============================================================================
