---- MODULE MC_LfsFile ----
EXTENDS LfsFile
CONSTANTS f, g
====
