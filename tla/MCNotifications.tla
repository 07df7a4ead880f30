-------------------------- MODULE MCNotifications --------------------------
(* Instances of Notifications for TLC.                                     *)
EXTENDS Notifications, TLC

CONSTANTS i1, mail, chat

\* chat is told of failures only.
MCOpenings == Delivery \ ({chat} \X Incident \X {"resolved"})
MCChatDays == {chat} \X Incident
=============================================================================
