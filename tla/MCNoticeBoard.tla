--------------------------- MODULE MCNoticeBoard ---------------------------
(* Two workers, in servers of their own or in one, and one text. *)
EXTENDS NoticeBoard, TLC

CONSTANTS s1, s2, w1, w2, ip1, ip2, x, h1, h2

OwnServer == w1 :> s1 @@ w2 :> s2
SameServer == w1 :> s1 @@ w2 :> s1

\* Hosts, workers of one server and requests are alike.
Alike == Permutations(Ip) \cup Permutations(Worker) \cup Permutations(Handler)
=============================================================================
