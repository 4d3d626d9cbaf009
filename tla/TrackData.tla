------------------------------ MODULE TrackData ------------------------------
(***************************************************************************)
(* The two track layouts, init_tracka and init_trackb of track_data.c, as  *)
(* data: one row for a node, in the order of the array.  A row gives the   *)
(* node's type, its number, the index of the same place in the opposite    *)
(* direction, and its outgoing edges.  An edge gives the index of the node *)
(* it leads to, its length in millimetres, and the edge the other way as   *)
(* the index of its source and its direction there.  Names are left out.   *)
(***************************************************************************)
EXTENDS Integers, Sequences

DIR_AHEAD    == 0
DIR_STRAIGHT == 0
DIR_CURVED   == 1

Edge(dest, dist, node, dir) == [dest |-> dest, dist |-> dist, back |-> <<node, dir>>]
Node(type, num, reverse, edges) ==
    [type |-> type, num |-> num, reverse |-> reverse, edge |-> edges]
Sensor(num, reverse, e)      == Node("SENSOR", num, reverse, <<e>>)
Merge(num, reverse, e)       == Node("MERGE", num, reverse, <<e>>)
Enter(num, reverse, e)       == Node("ENTER", num, reverse, <<e>>)
Exit(num, reverse)           == Node("EXIT", num, reverse, <<>>)
Branch(num, reverse, s, c)   == Node("BRANCH", num, reverse, <<s, c>>)

\* A1 .. A16
TrackA1 == <<
    Sensor(0, 1, Edge(103, 231, 102, 0)), Sensor(1, 0, Edge(133, 504, 132, 0)),
    Sensor(2, 3, Edge(106, 43, 107, 0)), Sensor(3, 2, Edge(31, 437, 30, 0)),
    Sensor(4, 5, Edge(85, 231, 84, 0)), Sensor(5, 4, Edge(25, 642, 24, 0)),
    Sensor(6, 7, Edge(27, 470, 26, 0)), Sensor(7, 6, Edge(83, 229, 82, 1)),
    Sensor(8, 9, Edge(23, 289, 22, 0)), Sensor(9, 8, Edge(81, 229, 80, 1)),
    Sensor(10, 11, Edge(81, 518, 80, 0)), Sensor(11, 10, Edge(139, 43, 138, 0)),
    Sensor(12, 13, Edge(87, 236, 86, 1)), Sensor(13, 12, Edge(131, 325, 130, 0)),
    Sensor(14, 15, Edge(135, 144, 134, 0)), Sensor(15, 14, Edge(87, 417, 86, 0)) >>

\* B1 .. B16
TrackA2 == <<
    Sensor(16, 17, Edge(61, 404, 60, 0)), Sensor(17, 16, Edge(111, 231, 110, 0)),
    Sensor(18, 19, Edge(33, 201, 32, 0)), Sensor(19, 18, Edge(111, 239, 110, 1)),
    Sensor(20, 21, Edge(50, 404, 51, 0)), Sensor(21, 20, Edge(105, 231, 104, 0)),
    Sensor(22, 23, Edge(9, 289, 8, 0)), Sensor(23, 22, Edge(137, 43, 136, 0)),
    Sensor(24, 25, Edge(4, 642, 5, 0)), Sensor(25, 24, Edge(141, 50, 140, 0)),
    Sensor(26, 27, Edge(7, 470, 6, 0)), Sensor(27, 26, Edge(143, 50, 142, 0)),
    Sensor(28, 29, Edge(119, 239, 118, 1)), Sensor(29, 28, Edge(63, 201, 62, 0)),
    Sensor(30, 31, Edge(2, 437, 3, 0)), Sensor(31, 30, Edge(108, 50, 109, 0)) >>

\* C1 .. C16
TrackA3 == <<
    Sensor(32, 33, Edge(19, 201, 18, 0)), Sensor(33, 32, Edge(117, 246, 116, 1)),
    Sensor(34, 35, Edge(129, 514, 128, 0)), Sensor(35, 34, Edge(89, 239, 88, 0)),
    Sensor(36, 37, Edge(90, 61, 91, 0)), Sensor(37, 36, Edge(109, 433, 108, 0)),
    Sensor(38, 39, Edge(115, 231, 114, 0)), Sensor(39, 38, Edge(84, 128, 85, 0)),
    Sensor(40, 41, Edge(109, 326, 108, 1)), Sensor(41, 40, Edge(110, 128, 111, 0)),
    Sensor(42, 43, Edge(104, 120, 105, 0)), Sensor(43, 42, Edge(107, 333, 106, 1)),
    Sensor(44, 45, Edge(70, 875, 71, 0)), Sensor(45, 44, Edge(100, 43, 101, 0)),
    Sensor(46, 47, Edge(59, 404, 58, 0)), Sensor(47, 46, Edge(91, 239, 90, 0)) >>

\* D1 .. D16
TrackA4 == <<
    Sensor(48, 49, Edge(121, 246, 120, 1)), Sensor(49, 48, Edge(67, 201, 66, 0)),
    Sensor(50, 51, Edge(99, 239, 98, 0)), Sensor(51, 50, Edge(21, 404, 20, 0)),
    Sensor(52, 53, Edge(69, 376, 68, 0)), Sensor(53, 52, Edge(97, 239, 96, 1)),
    Sensor(54, 55, Edge(97, 309, 96, 0)), Sensor(55, 54, Edge(71, 384, 70, 0)),
    Sensor(56, 57, Edge(75, 369, 74, 0)), Sensor(57, 56, Edge(95, 316, 94, 0)),
    Sensor(58, 59, Edge(47, 404, 46, 0)), Sensor(59, 58, Edge(93, 231, 92, 0)),
    Sensor(60, 61, Edge(17, 404, 16, 0)), Sensor(61, 60, Edge(113, 239, 112, 0)),
    Sensor(62, 63, Edge(28, 201, 29, 0)), Sensor(63, 62, Edge(113, 246, 112, 1)) >>

\* E1 .. E16
TrackA5 == <<
    Sensor(64, 65, Edge(123, 239, 122, 1)), Sensor(65, 64, Edge(78, 201, 79, 0)),
    Sensor(66, 67, Edge(48, 201, 49, 0)), Sensor(67, 66, Edge(99, 239, 98, 1)),
    Sensor(68, 69, Edge(53, 376, 52, 0)), Sensor(69, 68, Edge(98, 50, 99, 0)),
    Sensor(70, 71, Edge(54, 384, 55, 0)), Sensor(71, 70, Edge(45, 875, 44, 0)),
    Sensor(72, 73, Edge(95, 239, 94, 1)), Sensor(73, 72, Edge(76, 376, 77, 0)),
    Sensor(74, 75, Edge(57, 369, 56, 0)), Sensor(75, 74, Edge(92, 50, 93, 0)),
    Sensor(76, 77, Edge(112, 43, 113, 0)), Sensor(77, 76, Edge(72, 376, 73, 0)),
    Sensor(78, 79, Edge(105, 246, 104, 1)), Sensor(79, 78, Edge(64, 201, 65, 0)) >>

\* BR1 .. MR6
TrackA6 == <<
    Branch(1, 81, Edge(11, 518, 10, 0), Edge(8, 229, 9, 0)), Merge(1, 80, Edge(83, 188, 82, 0)),
    Branch(2, 83, Edge(80, 188, 81, 0), Edge(6, 229, 7, 0)), Merge(2, 82, Edge(85, 185, 84, 1)),
    Branch(3, 85, Edge(5, 231, 4, 0), Edge(82, 185, 83, 0)), Merge(3, 84, Edge(38, 128, 39, 0)),
    Branch(4, 87, Edge(14, 417, 15, 0), Edge(13, 236, 12, 0)), Merge(4, 86, Edge(103, 185, 102, 1)),
    Branch(5, 89, Edge(34, 239, 35, 0), Edge(93, 371, 92, 1)), Merge(5, 88, Edge(114, 155, 115, 0)),
    Branch(6, 91, Edge(46, 239, 47, 0), Edge(115, 371, 114, 1)), Merge(6, 90, Edge(37, 61, 36, 0)) >>

\* BR7 .. MR12
TrackA7 == <<
    Branch(7, 93, Edge(58, 231, 59, 0), Edge(89, 371, 88, 1)), Merge(7, 92, Edge(74, 50, 75, 0)),
    Branch(8, 95, Edge(56, 316, 57, 0), Edge(73, 239, 72, 0)), Merge(8, 94, Edge(96, 155, 97, 0)),
    Branch(9, 97, Edge(55, 309, 54, 0), Edge(52, 239, 53, 0)), Merge(9, 96, Edge(94, 155, 95, 0)),
    Branch(10, 99, Edge(51, 239, 50, 0), Edge(66, 239, 67, 0)), Merge(10, 98, Edge(68, 50, 69, 0)),
    Branch(11, 101, Edge(102, 188, 103, 0), Edge(107, 495, 106, 0)),
    Merge(11, 100, Edge(44, 43, 45, 0)), Branch(12, 103, Edge(1, 231, 0, 0), Edge(86, 185, 87, 0)),
    Merge(12, 102, Edge(101, 188, 100, 0)) >>

\* BR13 .. MR18
TrackA8 == <<
    Branch(13, 105, Edge(20, 231, 21, 0), Edge(79, 246, 78, 0)),
    Merge(13, 104, Edge(43, 120, 42, 0)),
    Branch(14, 107, Edge(101, 495, 100, 1), Edge(42, 333, 43, 0)), Merge(14, 106, Edge(3, 43, 2, 0)),
    Branch(15, 109, Edge(36, 433, 37, 0), Edge(41, 326, 40, 0)), Merge(15, 108, Edge(30, 50, 31, 0)),
    Branch(16, 111, Edge(16, 231, 17, 0), Edge(18, 239, 19, 0)),
    Merge(16, 110, Edge(40, 128, 41, 0)),
    Branch(17, 113, Edge(60, 239, 61, 0), Edge(62, 246, 63, 0)), Merge(17, 112, Edge(77, 43, 76, 0)),
    Branch(18, 115, Edge(39, 231, 38, 0), Edge(91, 371, 90, 1)),
    Merge(18, 114, Edge(88, 155, 89, 0)) >>

\* BR153 .. EX4
TrackA9 == <<
    Branch(153, 117, Edge(125, 253, 124, 0), Edge(32, 246, 33, 0)),
    Merge(153, 116, Edge(119, 0, 118, 0)),
    Branch(154, 119, Edge(116, 0, 117, 0), Edge(29, 239, 28, 0)),
    Merge(154, 118, Edge(122, 0, 123, 0)),
    Branch(155, 121, Edge(127, 282, 126, 0), Edge(49, 246, 48, 0)),
    Merge(155, 120, Edge(123, 0, 122, 0)),
    Branch(156, 123, Edge(120, 0, 121, 0), Edge(65, 239, 64, 0)),
    Merge(156, 122, Edge(118, 0, 119, 0)), Enter(1, 125, Edge(117, 253, 116, 0)), Exit(1, 124),
    Enter(2, 127, Edge(121, 282, 120, 0)), Exit(2, 126), Enter(3, 129, Edge(35, 514, 34, 0)),
    Exit(3, 128), Enter(4, 131, Edge(12, 325, 13, 0)), Exit(4, 130) >>

\* EN5 .. EX10
TrackA10 == <<
    Enter(5, 133, Edge(0, 504, 1, 0)), Exit(5, 132), Enter(6, 135, Edge(15, 144, 14, 0)),
    Exit(6, 134), Enter(7, 137, Edge(22, 43, 23, 0)), Exit(7, 136),
    Enter(8, 139, Edge(10, 43, 11, 0)), Exit(8, 138), Enter(9, 141, Edge(24, 50, 25, 0)),
    Exit(9, 140), Enter(10, 143, Edge(26, 50, 27, 0)), Exit(10, 142) >>

TrackA == TrackA1 \o TrackA2 \o TrackA3 \o TrackA4 \o TrackA5
          \o TrackA6 \o TrackA7 \o TrackA8 \o TrackA9 \o TrackA10

\* A1 .. A16
TrackB1 == <<
    Sensor(0, 1, Edge(103, 231, 102, 0)), Sensor(1, 0, Edge(133, 504, 132, 0)),
    Sensor(2, 3, Edge(106, 43, 107, 0)), Sensor(3, 2, Edge(31, 437, 30, 0)),
    Sensor(4, 5, Edge(85, 231, 84, 0)), Sensor(5, 4, Edge(25, 642, 24, 0)),
    Sensor(6, 7, Edge(27, 470, 26, 0)), Sensor(7, 6, Edge(83, 229, 82, 1)),
    Sensor(8, 9, Edge(23, 289, 22, 0)), Sensor(9, 8, Edge(81, 229, 80, 1)),
    Sensor(10, 11, Edge(81, 282, 80, 0)), Sensor(11, 10, Edge(15, 814, 14, 0)),
    Sensor(12, 13, Edge(87, 236, 86, 1)), Sensor(13, 12, Edge(131, 325, 130, 0)),
    Sensor(14, 15, Edge(10, 814, 11, 0)), Sensor(15, 14, Edge(87, 275, 86, 0)) >>

\* B1 .. B16
TrackB2 == <<
    Sensor(16, 17, Edge(61, 404, 60, 0)), Sensor(17, 16, Edge(111, 231, 110, 0)),
    Sensor(18, 19, Edge(33, 201, 32, 0)), Sensor(19, 18, Edge(111, 239, 110, 1)),
    Sensor(20, 21, Edge(50, 404, 51, 0)), Sensor(21, 20, Edge(105, 231, 104, 0)),
    Sensor(22, 23, Edge(9, 289, 8, 0)), Sensor(23, 22, Edge(135, 43, 134, 0)),
    Sensor(24, 25, Edge(4, 642, 5, 0)), Sensor(25, 24, Edge(137, 50, 136, 0)),
    Sensor(26, 27, Edge(7, 470, 6, 0)), Sensor(27, 26, Edge(139, 50, 138, 0)),
    Sensor(28, 29, Edge(119, 239, 118, 1)), Sensor(29, 28, Edge(63, 201, 62, 0)),
    Sensor(30, 31, Edge(2, 437, 3, 0)), Sensor(31, 30, Edge(108, 50, 109, 0)) >>

\* C1 .. C16
TrackB3 == <<
    Sensor(32, 33, Edge(19, 201, 18, 0)), Sensor(33, 32, Edge(117, 246, 116, 1)),
    Sensor(34, 35, Edge(129, 514, 128, 0)), Sensor(35, 34, Edge(89, 239, 88, 0)),
    Sensor(36, 37, Edge(90, 61, 91, 0)), Sensor(37, 36, Edge(109, 433, 108, 0)),
    Sensor(38, 39, Edge(115, 231, 114, 0)), Sensor(39, 38, Edge(84, 128, 85, 0)),
    Sensor(40, 41, Edge(109, 326, 108, 1)), Sensor(41, 40, Edge(110, 128, 111, 0)),
    Sensor(42, 43, Edge(104, 120, 105, 0)), Sensor(43, 42, Edge(107, 333, 106, 1)),
    Sensor(44, 45, Edge(70, 780, 71, 0)), Sensor(45, 44, Edge(100, 50, 101, 0)),
    Sensor(46, 47, Edge(59, 404, 58, 0)), Sensor(47, 46, Edge(91, 239, 90, 0)) >>

\* D1 .. D16
TrackB4 == <<
    Sensor(48, 49, Edge(121, 246, 120, 1)), Sensor(49, 48, Edge(67, 201, 66, 0)),
    Sensor(50, 51, Edge(99, 239, 98, 0)), Sensor(51, 50, Edge(21, 404, 20, 0)),
    Sensor(52, 53, Edge(69, 282, 68, 0)), Sensor(53, 52, Edge(97, 229, 96, 1)),
    Sensor(54, 55, Edge(97, 309, 96, 0)), Sensor(55, 54, Edge(71, 376, 70, 0)),
    Sensor(56, 57, Edge(75, 282, 74, 0)), Sensor(57, 56, Edge(95, 316, 94, 0)),
    Sensor(58, 59, Edge(47, 404, 46, 0)), Sensor(59, 58, Edge(93, 231, 92, 0)),
    Sensor(60, 61, Edge(17, 404, 16, 0)), Sensor(61, 60, Edge(113, 239, 112, 0)),
    Sensor(62, 63, Edge(28, 201, 29, 0)), Sensor(63, 62, Edge(113, 246, 112, 1)) >>

\* E1 .. E16
TrackB5 == <<
    Sensor(64, 65, Edge(123, 239, 122, 1)), Sensor(65, 64, Edge(78, 201, 79, 0)),
    Sensor(66, 67, Edge(48, 201, 49, 0)), Sensor(67, 66, Edge(99, 239, 98, 1)),
    Sensor(68, 69, Edge(53, 282, 52, 0)), Sensor(69, 68, Edge(98, 50, 99, 0)),
    Sensor(70, 71, Edge(54, 376, 55, 0)), Sensor(71, 70, Edge(45, 780, 44, 0)),
    Sensor(72, 73, Edge(95, 239, 94, 1)), Sensor(73, 72, Edge(76, 282, 77, 0)),
    Sensor(74, 75, Edge(57, 282, 56, 0)), Sensor(75, 74, Edge(92, 43, 93, 0)),
    Sensor(76, 77, Edge(112, 43, 113, 0)), Sensor(77, 76, Edge(72, 282, 73, 0)),
    Sensor(78, 79, Edge(105, 246, 104, 1)), Sensor(79, 78, Edge(64, 201, 65, 0)) >>

\* BR1 .. MR6
TrackB6 == <<
    Branch(1, 81, Edge(11, 282, 10, 0), Edge(8, 229, 9, 0)), Merge(1, 80, Edge(83, 188, 82, 0)),
    Branch(2, 83, Edge(80, 188, 81, 0), Edge(6, 229, 7, 0)), Merge(2, 82, Edge(85, 185, 84, 1)),
    Branch(3, 85, Edge(5, 231, 4, 0), Edge(82, 185, 83, 0)), Merge(3, 84, Edge(38, 128, 39, 0)),
    Branch(4, 87, Edge(14, 275, 15, 0), Edge(13, 236, 12, 0)), Merge(4, 86, Edge(103, 185, 102, 1)),
    Branch(5, 89, Edge(34, 239, 35, 0), Edge(93, 371, 92, 1)), Merge(5, 88, Edge(114, 155, 115, 0)),
    Branch(6, 91, Edge(46, 239, 47, 0), Edge(115, 371, 114, 1)), Merge(6, 90, Edge(37, 61, 36, 0)) >>

\* BR7 .. MR12
TrackB7 == <<
    Branch(7, 93, Edge(58, 231, 59, 0), Edge(89, 371, 88, 1)), Merge(7, 92, Edge(74, 43, 75, 0)),
    Branch(8, 95, Edge(56, 316, 57, 0), Edge(73, 239, 72, 0)), Merge(8, 94, Edge(96, 155, 97, 0)),
    Branch(9, 97, Edge(55, 309, 54, 0), Edge(52, 229, 53, 0)), Merge(9, 96, Edge(94, 155, 95, 0)),
    Branch(10, 99, Edge(51, 239, 50, 0), Edge(66, 239, 67, 0)), Merge(10, 98, Edge(68, 50, 69, 0)),
    Branch(11, 101, Edge(102, 188, 103, 0), Edge(107, 495, 106, 0)),
    Merge(11, 100, Edge(44, 50, 45, 0)), Branch(12, 103, Edge(1, 231, 0, 0), Edge(86, 185, 87, 0)),
    Merge(12, 102, Edge(101, 188, 100, 0)) >>

\* BR13 .. MR18
TrackB8 == <<
    Branch(13, 105, Edge(20, 231, 21, 0), Edge(79, 246, 78, 0)),
    Merge(13, 104, Edge(43, 120, 42, 0)),
    Branch(14, 107, Edge(101, 495, 100, 1), Edge(42, 333, 43, 0)), Merge(14, 106, Edge(3, 43, 2, 0)),
    Branch(15, 109, Edge(36, 433, 37, 0), Edge(41, 326, 40, 0)), Merge(15, 108, Edge(30, 50, 31, 0)),
    Branch(16, 111, Edge(16, 231, 17, 0), Edge(18, 239, 19, 0)),
    Merge(16, 110, Edge(40, 128, 41, 0)),
    Branch(17, 113, Edge(60, 239, 61, 0), Edge(62, 246, 63, 0)), Merge(17, 112, Edge(77, 43, 76, 0)),
    Branch(18, 115, Edge(39, 231, 38, 0), Edge(91, 371, 90, 1)),
    Merge(18, 114, Edge(88, 155, 89, 0)) >>

\* BR153 .. EX4
TrackB9 == <<
    Branch(153, 117, Edge(125, 253, 124, 0), Edge(32, 246, 33, 0)),
    Merge(153, 116, Edge(119, 0, 118, 0)),
    Branch(154, 119, Edge(116, 0, 117, 0), Edge(29, 239, 28, 0)),
    Merge(154, 118, Edge(122, 0, 123, 0)),
    Branch(155, 121, Edge(127, 282, 126, 0), Edge(49, 246, 48, 0)),
    Merge(155, 120, Edge(123, 0, 122, 0)),
    Branch(156, 123, Edge(120, 0, 121, 0), Edge(65, 239, 64, 0)),
    Merge(156, 122, Edge(118, 0, 119, 0)), Enter(1, 125, Edge(117, 253, 116, 0)), Exit(1, 124),
    Enter(2, 127, Edge(121, 282, 120, 0)), Exit(2, 126), Enter(3, 129, Edge(35, 514, 34, 0)),
    Exit(3, 128), Enter(4, 131, Edge(12, 325, 13, 0)), Exit(4, 130) >>

\* EN5 .. EX10
TrackB10 == <<
    Enter(5, 133, Edge(0, 504, 1, 0)), Exit(5, 132), Enter(7, 135, Edge(22, 43, 23, 0)),
    Exit(7, 134), Enter(9, 137, Edge(24, 50, 25, 0)), Exit(9, 136),
    Enter(10, 139, Edge(26, 50, 27, 0)), Exit(10, 138) >>

TrackB == TrackB1 \o TrackB2 \o TrackB3 \o TrackB4 \o TrackB5
          \o TrackB6 \o TrackB7 \o TrackB8 \o TrackB9 \o TrackB10

=============================================================================
