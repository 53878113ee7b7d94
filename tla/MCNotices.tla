------------------------------- MODULE MCNotices -------------------------------
EXTENDS Notices
CONSTANTS m, e1, c1, c2
===============================================================================
