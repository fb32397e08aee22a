----------------------------- MODULE MCDownload -----------------------------
EXTENDS Download
=============================================================================
