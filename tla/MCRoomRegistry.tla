---------------------------- MODULE MCRoomRegistry ----------------------------
EXTENDS RoomRegistry

CONSTANTS self, p1, p2, m1
===============================================================================
