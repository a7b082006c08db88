---- MODULE MC_ConfigStore ----
EXTENDS ConfigStore
CONSTANTS w1, w2
====
