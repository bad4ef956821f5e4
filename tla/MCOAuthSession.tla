---------------------------- MODULE MCOAuthSession ----------------------------
EXTENDS OAuthSession
=============================================================================
