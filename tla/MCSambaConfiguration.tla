------------------------ MODULE MCSambaConfiguration ------------------------
EXTENDS SambaConfiguration

CONSTANTS order, minimum, comment

MCLines == {order, minimum, comment}
MCSettings == {order, minimum}
=============================================================================
