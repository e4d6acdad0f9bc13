--------------------------- MODULE MCChatChannels ---------------------------
EXTENDS ChatChannels

\* Three users: 1 is called by 3 and calls 2.
CallsChain == {<<3, 1>>, <<1, 2>>}
Leavers1 == {1}

\* 1 calls two users; one of them logs out.
CallsFan == {<<1, 2>>, <<1, 3>>}
Leavers2 == {2}

CallsOne == {<<1, 2>>}
=============================================================================
