----------------------------- MODULE MCScsiHost -----------------------------
\* The SCSI host on its own: the count of logical units against the comment
\* that explains it.
EXTENDS ScsiHost
=============================================================================
