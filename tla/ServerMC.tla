------------------------------ MODULE ServerMC ------------------------------
(* Scripts for the server: what the client may send in each run. *)
EXTENDS Server

CONSTANTS u1, w1, w2

OneUrl == {u1}
OneThread == {w1}
TwoThreads == {w1, w2}

Request(method) == [kind |-> "request", method |-> method, url |-> u1]
Notification(method) == [kind |-> "notification", method |-> method, url |-> u1]
Response(n, answer) == [kind |-> "response", id |-> n, answer |-> answer]

(* Edits of a document among requests for it, with answers to the server's *)
(* own request and to one it never made.                                   *)
EditMessages ==
    {Notification("open"), Notification("change"), Notification("close"),
     Notification("unrouted"), Request("background"), Request("fmt"), Response(2, "null")}
    \cup {Response(1, answer) : answer \in Answers}

(* Requests of every kind, an answer that may come twice, and the ways to  *)
(* end.                                                                    *)
EndMessages ==
    {Notification("open"), Notification("refused"),
     Request("background"), Request("refused"), Request("local"), Request("unrouted"),
     Response(1, "null"), [kind |-> "shutdown"], [kind |-> "exit"]}
=============================================================================
