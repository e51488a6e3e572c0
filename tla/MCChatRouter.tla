--------------------------- MODULE MCChatRouter ---------------------------
(* A small instance of ChatRouter: one chat, an attachment an older version  *)
(* may have left a placeholder of, a long message from an old client whose   *)
(* clock runs ahead, one of ours and one of somebody else's.                 *)
EXTENDS ChatRouter

Msg(id, by, ts, text, att, envelope) ==
  [id |-> id, chat |-> "c", by |-> by, ts |-> ts, text |-> text, att |-> att,
   envelope |-> envelope]

Photo  == Msg("photo", "peer", 1, "photo", TRUE, "kind14")
Reply  == Msg("reply", "peer", 2, "reply", FALSE, "giftwrap")
Ours   == Msg("ours", "self", 0, "ours", FALSE, "kind14")
Foreign == Msg("foreign", "stranger", 1, "foreign", FALSE, "kind14")

MCMessages == {Photo, Reply, Ours, Foreign}
MCLegacy   == {Photo}

ASSUME MCNames == NamesAreClear
=============================================================================
