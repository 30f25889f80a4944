-------------------------- MODULE MCFollowUpstream --------------------------
EXTENDS FollowUpstream

MCLineOf == <<1, 2, 3, 3>>

=============================================================================
