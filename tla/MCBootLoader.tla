---------------------------- MODULE MCBootLoader ----------------------------
(* Instances of BootLoader: names are model values, and the names other than *)
(* the kernel's are alike.                                                    *)
EXTENDS BootLoader, TLC

CONSTANTS kernel, user, third

OtherNames == Permutations({user, third})

Segment(offset, filesz, memsz, pa) ==
  [offset |-> offset, filesz |-> filesz, memsz |-> memsz, pa |-> pa]

\* One segment from the start of the file to behind its first inode; one in
\* the first sector and one that begins in the second inode, with bss in both;
\* one that ends with the first inode and one behind it, as close in memory as
\* can be.
MCLayouts == {
  << Segment(0, 5, 6, 0) >>,
  << Segment(0, 1, 3, 0), Segment(4, 1, 2, 4) >>,
  << Segment(2, 1, 1, 0), Segment(4, 1, 1, 1) >>,
  << Segment(0, 4, 4, 0), Segment(4, 1, 3, 5) >> }

=============================================================================
