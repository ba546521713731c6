---- MODULE MCUiSession ----
EXTENDS UiSession
====
