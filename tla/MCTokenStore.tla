---------------------------- MODULE MCTokenStore ----------------------------
EXTENDS TokenStore

\* No partition file, today's file, two partitions, and one or two contiguous names.
MCLayouts == {{}, {<<1, 1>>}, {<<1, 2>>, <<2, 2>>}, {<<1, -1>>}, {<<1, -1>>, <<2, -1>>}}
=============================================================================
